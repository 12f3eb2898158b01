\* rendezvous-client status with two slots per epoch, a value load_config
\* and spec section 3 accept: the look-ahead of three slots wraps into the
\* next epoch only once, so from the last slot of an epoch it prints a
\* key of the next epoch for a slot that is two epochs on.
CONSTANTS
    Nodes = {n1}
    ForeignIds = {p1}
    BadIds = {}
    SlotsPerEpoch = 2
    MaxTime = 1
    MaxPeers = 1
    MaxVersion = 2
    InitVersions = {1}
    MaxRestarts = 1
    Faults = {"add", "bind", "remove"}
    RcvBuf = 1
    EnvFrames <- MCHostEnvFrames
    ClientNodes = {n1}
    MaxClientRuns = 2
    MaxFound = 2
    CEnvFrames <- MCClientFrames
    Undecodable = Undecodable
    n1 = n1
    p1 = p1
    None = None
    Malformed = Malformed
    NoId = NoId
    NoSig = NoSig
    Forged = Forged
    Torn = Torn
SPECIFICATION HostSpec
INVARIANT StatusUpcomingMatches
