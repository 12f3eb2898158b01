\* Provisioning rewrites a node's descriptor and signature while its daemon
\* runs: the daemon sends its cached descriptor with the new signature.
CONSTANTS
    Nodes = {n1, n2}
    ForeignIds = {}
    BadIds = {}
    SlotsPerEpoch = 2
    MaxTime = 2
    MaxPeers = 1
    MaxVersion = 2
    InitVersions = {1}
    MaxRestarts = 1
    Faults = {}
    RcvBuf = 1
    EnvFrames <- MCMeshEnvFrames
    n1 = n1
    n2 = n2
    p1 = p1
    p2 = p2
    bad = bad
    None = None
    Malformed = Malformed
    NoId = NoId
    NoSig = NoSig
    Forged = Forged
    Torn = Torn
SPECIFICATION Spec
INVARIANT SentSignatureMatches
