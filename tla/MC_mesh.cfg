\* Two daemons exchanging descriptors over unicast that may lose datagrams, with address
\* add/bind/remove failures, crashes, descriptor rotation and replays of a
\* node's own frame: no daemon ever learns itself as a peer.
CONSTANTS
    Nodes = {n1, n2}
    ForeignIds = {}
    BadIds = {}
    SlotsPerEpoch = 2
    MaxTime = 1
    MaxPeers = 1
    MaxVersion = 2
    InitVersions = {1}
    MaxRestarts = 1
    Faults = {"add", "bind", "remove", "crash", "loss"}
    RcvBuf = 1
    EnvFrames <- MCMeshEnvFrames
    n1 = n1
    n2 = n2
    p1 = p1
    p2 = p2
    bad = bad
    None = None
    Malformed = Malformed
    NoId = NoId
    NoSig = NoSig
    Forged = Forged
    Torn = Torn
SPECIFICATION Spec
INVARIANT TypeOK
INVARIANT NoSelfLoop
