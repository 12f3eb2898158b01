\* SIGTERM while the daemon waits in select, no OS failure: the rendezvous
\* address stays on the interface.
CONSTANTS
    Nodes = {n1}
    ForeignIds = {p1}
    BadIds = {}
    SlotsPerEpoch = 2
    MaxTime = 2
    MaxPeers = 1
    MaxVersion = 1
    InitVersions = {1}
    MaxRestarts = 1
    Faults = {}
    RcvBuf = 1
    EnvFrames <- MCEnvFrames
    n1 = n1
    n2 = n2
    p1 = p1
    p2 = p2
    bad = bad
    None = None
    Malformed = Malformed
    NoId = NoId
    NoSig = NoSig
    Forged = Forged
    Torn = Torn
SPECIFICATION Spec
INVARIANT AddressReleased
