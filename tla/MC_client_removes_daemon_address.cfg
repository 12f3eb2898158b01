\* A client invoked while the daemon listens in the same slot adds the same
\* address ("exists" is success) and removes it in its finally clause while
\* the daemon is still listening on it.
CONSTANTS
    Nodes = {n1}
    ForeignIds = {p1}
    BadIds = {}
    SlotsPerEpoch = 2
    MaxTime = 1
    MaxPeers = 1
    MaxVersion = 2
    InitVersions = {1}
    MaxRestarts = 1
    Faults = {}
    RcvBuf = 1
    EnvFrames <- MCHostEnvFrames
    ClientNodes = {n1}
    MaxClientRuns = 2
    MaxFound = 2
    CEnvFrames <- MCClientFrames
    Undecodable = Undecodable
    n1 = n1
    p1 = p1
    None = None
    Malformed = Malformed
    NoId = NoId
    NoSig = NoSig
    Forged = Forged
    Torn = Torn
SPECIFICATION HostSpec
INVARIANT AddressHeldWhileListening
