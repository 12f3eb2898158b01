\* One daemon learning from outsiders, with peer-file write failures and
\* crashes: the capacity bound, self-suppression, once-per-lifetime callbacks,
\* callbacks only after a complete store,
\* persisted known peers and termination after SIGTERM.
CONSTANTS
    Nodes = {n1}
    ForeignIds = {p1, p2}
    BadIds = {}
    SlotsPerEpoch = 2
    MaxTime = 2
    MaxPeers = 1
    MaxVersion = 1
    InitVersions = {1}
    MaxRestarts = 1
    Faults = {"store", "crash"}
    RcvBuf = 1
    EnvFrames <- MCEnvFrames
    n1 = n1
    n2 = n2
    p1 = p1
    p2 = p2
    bad = bad
    None = None
    Malformed = Malformed
    NoId = NoId
    NoSig = NoSig
    Forged = Forged
    Torn = Torn
SPECIFICATION Spec
INVARIANT TypeOK
INVARIANT CapacityBound
INVARIANT NoSelfLoop
INVARIANT CallbackOncePerLifetime
INVARIANT KnownPeersPersisted
PROPERTY StopLeadsToExit
PROPERTY CallbackAfterStore
