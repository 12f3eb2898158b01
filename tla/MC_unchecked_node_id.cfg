\* A frame whose node_id is not a safe file name (a path such as "../x"):
\* the daemon writes a file for it.
CONSTANTS
    Nodes = {n1}
    ForeignIds = {}
    BadIds = {bad}
    SlotsPerEpoch = 2
    MaxTime = 2
    MaxPeers = 1
    MaxVersion = 1
    InitVersions = {1}
    MaxRestarts = 1
    Faults = {}
    RcvBuf = 1
    EnvFrames <- MCEnvFrames
    n1 = n1
    n2 = n2
    p1 = p1
    p2 = p2
    bad = bad
    None = None
    Malformed = Malformed
    NoId = NoId
    NoSig = NoSig
    Forged = Forged
    Torn = Torn
SPECIFICATION Spec
INVARIANT PersistedIdsValid
