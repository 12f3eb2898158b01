\* Two invocations of run-tests.py against one target, with timeouts and
\* an unreachable SSH, and attestations in between.
CONSTANTS
    Checks <- MCChecks
    Modules = {m1, m2}
    Builtin = Builtin
    None = None
    MaxRuns = 2
    Faults = {"timeout", "nossh"}
SYMMETRY MCSymmetry
SPECIFICATION Spec
INVARIANT TypeOK
INVARIANT AttestedCoreHealthy
\* The sidecar stops after MaxRuns invocations.
CHECK_DEADLOCK FALSE
