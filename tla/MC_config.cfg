\* Every configuration file of at most two lines over keys of both programs,
\* unknown keys, skipped lines and values that int() accepts or rejects:
\* whenever both programs start, the client uses the daemon's schedule.
\* Start-up is one-shot: the run ends once both processes have decided.
CONSTANTS
    Values = {"", "0", "2", "60", "x"}
    IntOf <- MCIntOf
    MaxLines = 2
    Absent = Absent
    ValueError = ValueError
SPECIFICATION Spec
INVARIANT TypeOK
INVARIANT SameSchedule
CHECK_DEADLOCK FALSE
