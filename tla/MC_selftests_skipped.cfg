\* A signed passed verdict with a selftest module that never ran.
CONSTANTS
    Checks <- MCChecks
    Modules = {m1, m2}
    Builtin = Builtin
    None = None
    MaxRuns = 2
    Faults = {"timeout", "nossh"}
SYMMETRY MCSymmetry
SPECIFICATION Spec

INVARIANT SelftestsCovered
\* The sidecar stops after MaxRuns invocations.
CHECK_DEADLOCK FALSE
