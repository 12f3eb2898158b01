\* A daemon and rendezvous-client invocations on one host, with address
\* add/bind/remove failures and a descriptor rotation: the client sending
\* the node's own descriptor to its own daemon is never learned, and every
\* client invocation ends.  Three slots per epoch, so that a client
\* command and the daemon meet in every phase of a slot.
CONSTANTS
    Nodes = {n1}
    ForeignIds = {p1}
    BadIds = {}
    SlotsPerEpoch = 3
    MaxTime = 1
    MaxPeers = 1
    MaxVersion = 2
    InitVersions = {1}
    MaxRestarts = 1
    Faults = {"add", "bind", "remove"}
    RcvBuf = 1
    EnvFrames <- MCHostEnvFrames
    ClientNodes = {n1}
    MaxClientRuns = 2
    MaxFound = 2
    CEnvFrames <- MCClientFrames
    Undecodable = Undecodable
    n1 = n1
    p1 = p1
    None = None
    Malformed = Malformed
    NoId = NoId
    NoSig = NoSig
    Forged = Forged
    Torn = Torn
SPECIFICATION HostSpec
INVARIANT HostTypeOK
INVARIANT NoSelfLoop
PROPERTY ClientCommandEnds
