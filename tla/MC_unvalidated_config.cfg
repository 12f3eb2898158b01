\* load_config accepts any integer for epoch_seconds, slots_per_epoch and
\* slot_duration_ms, against spec section 3.
CONSTANTS
    Values = {"", "0", "2", "60", "x"}
    IntOf <- MCIntOf
    MaxLines = 2
    Absent = Absent
    ValueError = ValueError
SPECIFICATION Spec
INVARIANT ConfigValidated
CHECK_DEADLOCK FALSE
