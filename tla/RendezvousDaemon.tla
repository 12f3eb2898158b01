-------------------------- MODULE RendezvousDaemon --------------------------
(***************************************************************************)
(* The rendezvous daemon rendezvousd (rendezvousd.py, class                *)
(* RendezvousDaemon) on every node of a mesh.  Each daemon is one thread:  *)
(* its run() loop enters every new (epoch, slot), broadcasts the node's    *)
(* descriptor to the slot's rendezvous endpoint, adds that address to the  *)
(* interface, binds a socket to it, handles the datagrams that arrive      *)
(* until the listening window ends, closes the socket and removes the      *)
(* address.  _handle_peer_message persists every new peer's descriptor     *)
(* and signature, runs the peer callback and tracks the peer in the        *)
(* bounded set known_peers.  stop() (SIGTERM/SIGINT) clears the running    *)
(* flag and closes the current socket.                                     *)
(*                                                                         *)
(* The clock counts slots: slot t is epoch t \div SlotsPerEpoch, slot      *)
(* t % SlotsPerEpoch.  The rendezvous endpoint (HMAC-derived address and   *)
(* port 51821 + slot) of a slot is represented by its slot key; the        *)
(* derivation itself is not modelled here.  A frame is the decoded         *)
(* datagram: node_id, descriptor version and signature; every datagram     *)
(* that fails to decode is the single value Malformed.  Node n's node_id   *)
(* is n; its descriptor on disk has a version (0: missing) that            *)
(* provisioning may rewrite, together with its signature.                  *)
(***************************************************************************)
EXTENDS Naturals, FiniteSets

CONSTANTS
    Nodes,          \* the daemons of the mesh
    ForeignIds,     \* node_ids of senders outside the modelled daemons
    BadIds,         \* node_ids that do not match [A-Za-z0-9_.-]+ ("../x")
    SlotsPerEpoch,  \* slots_per_epoch
    MaxTime,        \* the last slot the clock reaches
    MaxPeers,       \* max_peers
    MaxVersion,     \* versions of its own descriptor a node may be given
    InitVersions,   \* versions a node's descriptor may have at start (0: none)
    MaxRestarts,    \* bound on daemon restarts
    Faults,         \* OS failures that may happen: "add", "bind", "remove",
                    \* "store" (peer file write raises), "crash" (process
                    \* killed), "loss" (a datagram is dropped on the way)
    EnvFrames,      \* frames outsiders, replays and loopback may deliver
    RcvBuf,         \* datagrams a socket's receive buffer holds
    None, Malformed, NoId, NoSig, Forged, Torn

ASSUME ConstantsAssumption ==
    /\ IsFiniteSet(Nodes \cup ForeignIds \cup BadIds)
    /\ SlotsPerEpoch \in Nat \ {0}
    /\ MaxTime \in Nat
    /\ MaxPeers \in Nat
    /\ MaxVersion \in Nat \ {0}
    /\ InitVersions \subseteq 0..MaxVersion
    /\ MaxRestarts \in Nat
    /\ RcvBuf \in Nat \ {0}
    /\ Faults \subseteq {"add", "bind", "remove", "store", "crash", "loss"}

Ids == Nodes \cup ForeignIds \cup BadIds

\* A signature: over version v of the sender's descriptor, forged, or none.
Sigs == (1..MaxVersion) \cup {NoSig, Forged}

Frames == [id : Ids \cup {NoId}, desc : 1..MaxVersion, sig : Sigs] \cup {Malformed}

ASSUME EnvFramesAssumption == EnvFrames \subseteq Frames

\* _get_epoch_slot: the (epoch, slot) of clock value t.
Key(t) == <<t \div SlotsPerEpoch, t % SlotsPerEpoch>>

Keys == {Key(t) : t \in 0..MaxTime}

\* Contents of <peers_dir>/<node_id>.json: the descriptor together with the
\* signature that arrived with it (the latter for the properties only).
PeerRecords == [desc : 1..MaxVersion, sig : Sigs]

\* A missing file, a truncated file and a written record are told apart.
ASSUME SentinelsAssumption == Torn # None /\ \A r \in PeerRecords : r # None

VARIABLES
    now,       \* the wall clock, in slots
    pc,        \* where each daemon's thread is: "idle" (run loop), "bind"
               \* (broadcast done, _listen_for_peers not yet started),
               \* "listen" (select loop), "exited", "down" (killed)
    running,   \* self.running
    last,      \* (last_epoch, last_slot) of run(); None for (-1, -1)
    cur,       \* (epoch, slot) of the slot being handled
    sock,      \* key the open listening socket is bound to, or None
    rcv,       \* datagrams queued on each daemon's socket
    iface,     \* rendezvous addresses present on each node's interface
    known,     \* self.known_peers
    descFile,  \* <peers_dir>/<id>.json of each node
    sigFile,   \* <peers_dir>/<id>.json.sig of each node
    cb,        \* peer callbacks run per id in this process lifetime (2: >= 2)
    cached,    \* self.node_descriptor, loaded at start (0: {})
    disk,      \* version of the node's descriptor and .sig on disk
    restarts   \* restarts so far

daemon == <<pc, running, last, cur, sock, known, cb, cached>>
files == <<descFile, sigFile>>
vars == <<now, pc, running, last, cur, sock, rcv, iface, known, descFile,
          sigFile, cb, cached, disk, restarts>>

-----------------------------------------------------------------------------

TypeOK ==
    /\ now \in 0..MaxTime
    /\ pc \in [Nodes -> {"idle", "bind", "listen", "exited", "down"}]
    /\ running \in [Nodes -> BOOLEAN]
    /\ last \in [Nodes -> Keys \cup {None}]
    /\ cur \in [Nodes -> Keys \cup {None}]
    /\ sock \in [Nodes -> Keys \cup {None}]
    /\ rcv \in [Nodes -> SUBSET Frames]
    /\ iface \in [Nodes -> SUBSET Keys]
    /\ known \in [Nodes -> SUBSET Ids]
    /\ descFile \in [Nodes -> [Ids -> PeerRecords \cup {None, Torn}]]
    /\ sigFile \in [Nodes -> [Ids -> Sigs \cup {None, Torn}]]
    /\ cb \in [Nodes -> [Ids -> 0..2]]
    /\ cached \in [Nodes -> 0..MaxVersion]
    /\ disk \in [Nodes -> 0..MaxVersion]
    /\ restarts \in 0..MaxRestarts

Init ==
    /\ now = 0
    /\ disk \in [Nodes -> InitVersions]
    /\ cached = disk
    /\ pc = [n \in Nodes |-> "idle"]
    /\ running = [n \in Nodes |-> TRUE]
    /\ last = [n \in Nodes |-> None]
    /\ cur = [n \in Nodes |-> None]
    /\ sock = [n \in Nodes |-> None]
    /\ rcv = [n \in Nodes |-> {}]
    /\ iface = [n \in Nodes |-> {}]
    /\ known = [n \in Nodes |-> {}]
    /\ descFile = [n \in Nodes |-> [i \in Ids |-> None]]
    /\ sigFile = [n \in Nodes |-> [i \in Ids |-> None]]
    /\ cb = [n \in Nodes |-> [i \in Ids |-> 0]]
    /\ restarts = 0

-----------------------------------------------------------------------------
(* Helpers of the daemon's steps.                                          *)

\* The descriptor frame node n sends: the descriptor cached at start and the
\* signature file read from disk at the time of sending.
OwnFrame(n) ==
    [id |-> n, desc |-> cached[n], sig |-> IF disk[n] = 0 THEN NoSig ELSE disk[n]]

\* Node n's own node_id as _handle_peer_message compares it.
OwnId(n) == IF cached[n] = 0 THEN None ELSE n

\* Whether a datagram fits in the receive buffer of m's socket.
HasRoom(m) == Cardinality(rcv[m]) < RcvBuf

\* A datagram to endpoint k reaches at most one other node with a socket
\* bound to k (the address is a unicast address); it is lost only under
\* the "loss" fault or when no such socket has room in its buffer.
Send(n, k, f) ==
    LET R == {m \in Nodes \ {n} : sock[m] = k /\ HasRoom(m)} IN
    \E D \in SUBSET R :
        /\ Cardinality(D) <= 1
        /\ D = {} => R = {} \/ "loss" \in Faults
        /\ rcv' = [m \in Nodes |-> IF m \in D THEN rcv[m] \cup {f} ELSE rcv[m]]

\* run() records the slot as handled once _listen_for_peers returns.
FinishSlot(n) ==
    /\ pc' = [pc EXCEPT ![n] = "idle"]
    /\ last' = [last EXCEPT ![n] = cur[n]]

\* Mutant: the node's own node_id is not compared.
IgnoredNoSelfCheck(n, f) ==
    IF f = Malformed THEN TRUE
    ELSE f.id \in {NoId} \cup known[n]

\* The early returns of _handle_peer_message: undecodable frame, no
\* node_id, our own node_id, a peer already in known_peers.
Ignored(n, f) ==
    IF f = Malformed THEN TRUE
    ELSE f.id \in {NoId, OwnId(n)} \cup known[n]

\* Mutant: the capacity check runs before the new peer is added.
TrackPeerEvictFirst(n, i) ==
    IF Cardinality(known[n]) > MaxPeers
    THEN \E v \in known[n] : known' = [known EXCEPT ![n] = (known[n] \ {v}) \cup {i}]
    ELSE known' = [known EXCEPT ![n] = known[n] \cup {i}]

\* Mutant: eviction already when known_peers reaches max_peers.
TrackPeerOffByOne(n, i) ==
    LET K == known[n] \cup {i} IN
    IF Cardinality(K) >= MaxPeers
    THEN \E v \in K : known' = [known EXCEPT ![n] = K \ {v}]
    ELSE known' = [known EXCEPT ![n] = K]

\* known_peers.add(node_id), then known_peers.pop() of an arbitrary element
\* (possibly node_id itself) when the set exceeds max_peers.
TrackPeer(n, i) ==
    LET K == known[n] \cup {i} IN
    IF Cardinality(K) > MaxPeers
    THEN \E v \in K : known' = [known EXCEPT ![n] = K \ {v}]
    ELSE known' = [known EXCEPT ![n] = K]

\* A callback run for peer i, counted up to "two or more".
CountCallback(n, i) ==
    cb' = [cb EXCEPT ![n][i] = IF @ < 2 THEN @ + 1 ELSE 2]

\* Mutant: the peer is tracked even when writing its files fails.
LearnPeerTrackFirst(n, f) ==
    \/ /\ descFile' = [descFile EXCEPT ![n][f.id] = [desc |-> f.desc, sig |-> f.sig]]
       /\ sigFile' = IF f.sig = NoSig THEN sigFile
                     ELSE [sigFile EXCEPT ![n][f.id] = f.sig]
       /\ CountCallback(n, f.id)
       /\ TrackPeer(n, f.id)
    \/ /\ "store" \in Faults
       /\ descFile' = [descFile EXCEPT ![n][f.id] = Torn]
       /\ TrackPeer(n, f.id)
       /\ UNCHANGED <<sigFile, cb>>

\* Mutant: peer_callback runs before the peer's files are written, so a
\* failed json.dump follows a callback that already ran.
LearnPeerNotifyFirst(n, f) ==
    \/ /\ descFile' = [descFile EXCEPT ![n][f.id] = [desc |-> f.desc, sig |-> f.sig]]
       /\ sigFile' = IF f.sig = NoSig THEN sigFile
                     ELSE [sigFile EXCEPT ![n][f.id] = f.sig]
       /\ CountCallback(n, f.id)
       /\ TrackPeer(n, f.id)
    \/ /\ "store" \in Faults
       /\ descFile' = [descFile EXCEPT ![n][f.id] = Torn]
       /\ CountCallback(n, f.id)
       /\ UNCHANGED <<sigFile, known>>

\* A new peer: json.dump to <id>.json (opened "w", in place), the raw
\* signature to <id>.json.sig when non-empty, the callback (its failure or
\* timeout is caught), then TrackPeer.  A write that raises leaves its file
\* truncated and ends the handler through the catch-all except.
LearnPeer(n, f) ==
    \/ /\ descFile' = [descFile EXCEPT ![n][f.id] = [desc |-> f.desc, sig |-> f.sig]]
       /\ sigFile' = IF f.sig = NoSig THEN sigFile
                     ELSE [sigFile EXCEPT ![n][f.id] = f.sig]
       /\ CountCallback(n, f.id)
       /\ TrackPeer(n, f.id)
    \/ /\ "store" \in Faults
       /\ descFile' = [descFile EXCEPT ![n][f.id] = Torn]
       /\ UNCHANGED <<sigFile, cb, known>>
    \/ /\ "store" \in Faults
       /\ f.sig # NoSig
       /\ descFile' = [descFile EXCEPT ![n][f.id] = [desc |-> f.desc, sig |-> f.sig]]
       /\ sigFile' = [sigFile EXCEPT ![n][f.id] = Torn]
       /\ UNCHANGED <<cb, known>>

\* _handle_peer_message for one received frame.
HandlePeerMessage(n, f) ==
    \/ /\ Ignored(n, f)
       /\ UNCHANGED <<known, descFile, sigFile, cb>>
    \/ /\ ~Ignored(n, f)
       /\ LearnPeer(n, f)

-----------------------------------------------------------------------------
(* The daemon's steps.                                                     *)

\* run() sees a new (epoch, slot): derive the endpoint and
\* _broadcast_descriptor to it (nothing is sent without a descriptor).
EnterSlot(n) ==
    /\ pc[n] = "idle"
    /\ running[n]
    /\ Key(now) # last[n]
    /\ cur' = [cur EXCEPT ![n] = Key(now)]
    /\ pc' = [pc EXCEPT ![n] = "bind"]
    /\ IF cached[n] = 0 THEN UNCHANGED rcv ELSE Send(n, Key(now), OwnFrame(n))
    /\ UNCHANGED <<now, running, last, sock, iface, known, files, cb, cached,
                   disk, restarts>>

\* _add_address: "ip -6 addr add" of the slot's address ("File exists"
\* counts as success).
AddAddress(n) == iface' = [iface EXCEPT ![n] = @ \cup {cur[n]}]

\* _remove_address: "ip -6 addr del" of the slot's address.
RemoveAddress(n) == iface' = [iface EXCEPT ![n] = @ \ {cur[n]}]

\* Mutant: the address is derived from the previously handled slot.
AddAndBindStaleKey(n) ==
    /\ pc[n] = "bind"
    /\ \/ /\ "add" \in Faults
          /\ FinishSlot(n)
          /\ UNCHANGED <<iface, sock>>
       \/ /\ "bind" \in Faults
          /\ iface' = [iface EXCEPT ![n] = @ \cup {last[n]}]
          /\ FinishSlot(n)
          /\ UNCHANGED sock
       \/ /\ iface' = [iface EXCEPT ![n] = @ \cup {last[n]}]
          /\ sock' = [sock EXCEPT ![n] = last[n]]
          /\ pc' = [pc EXCEPT ![n] = "listen"]
          /\ UNCHANGED last
    /\ UNCHANGED <<now, running, cur, rcv, known, files, cb, cached, disk, restarts>>

\* _listen_for_peers up to the select loop: _add_address ("File exists"
\* counts as success; on failure return), then socket() and bind(); an
\* exception there is caught by the outer "Listen error" handler, which
\* skips _remove_address.
AddAndBind(n) ==
    /\ pc[n] = "bind"
    /\ \/ /\ "add" \in Faults
          /\ FinishSlot(n)
          /\ UNCHANGED <<iface, sock>>
       \/ /\ "bind" \in Faults
          /\ AddAddress(n)
          /\ FinishSlot(n)
          /\ UNCHANGED sock
       \/ /\ AddAddress(n)
          /\ sock' = [sock EXCEPT ![n] = cur[n]]
          /\ pc' = [pc EXCEPT ![n] = "listen"]
          /\ UNCHANGED last
    /\ UNCHANGED <<now, running, cur, rcv, known, files, cb, cached, disk, restarts>>

\* One iteration of the select loop that finds a datagram: recvfrom and
\* _handle_peer_message.
Receive(n) ==
    /\ pc[n] = "listen"
    /\ running[n]
    /\ \E f \in rcv[n] :
          /\ rcv' = [rcv EXCEPT ![n] = @ \ {f}]
          /\ HandlePeerMessage(n, f)
    /\ UNCHANGED <<now, pc, running, last, cur, sock, iface, cached, disk, restarts>>

\* The select loop ends (slot_duration_ms elapsed, or running was cleared
\* while the thread was outside select): sock.close(), current_socket =
\* None, _remove_address (whose failure is only logged).
EndListen(n) ==
    /\ pc[n] = "listen"
    /\ sock' = [sock EXCEPT ![n] = None]
    /\ rcv' = [rcv EXCEPT ![n] = {}]
    /\ \/ RemoveAddress(n)
       \/ /\ "remove" \in Faults
          /\ UNCHANGED iface
    /\ FinishSlot(n)
    /\ UNCHANGED <<now, running, cur, known, files, cb, cached, disk, restarts>>

\* stop() closed the socket while the thread was blocked in select: select
\* raises, the outer "Listen error" handler catches it and _remove_address
\* is never called.
ListenAborted(n) ==
    /\ pc[n] = "listen"
    /\ ~running[n]
    /\ sock[n] = None
    /\ FinishSlot(n)
    /\ UNCHANGED <<now, running, cur, sock, rcv, iface, known, files, cb,
                   cached, disk, restarts>>

\* Mutant: run() loops on "while True" and never sees the stop flag.
ExitNever(n) ==
    /\ pc[n] = "idle"
    /\ FALSE
    /\ pc' = [pc EXCEPT ![n] = "exited"]
    /\ UNCHANGED <<now, running, last, cur, sock, rcv, iface, known, files,
                   cb, cached, disk, restarts>>

\* "while self.running" fails: run() returns and the process exits.
Exit(n) ==
    /\ pc[n] = "idle"
    /\ ~running[n]
    /\ pc' = [pc EXCEPT ![n] = "exited"]
    /\ UNCHANGED <<now, running, last, cur, sock, rcv, iface, known, files,
                   cb, cached, disk, restarts>>

DaemonStep(n) ==
    \/ EnterSlot(n)
    \/ AddAndBind(n)
    \/ Receive(n)
    \/ EndListen(n)
    \/ ListenAborted(n)
    \/ Exit(n)

-----------------------------------------------------------------------------
(* Signals, failures and the environment.                                  *)

\* SIGTERM/SIGINT: handle_signal calls stop(): running = False and the
\* current socket, if any, is closed.
Stop(n) ==
    /\ pc[n] \notin {"exited", "down"}
    /\ running[n]
    /\ running' = [running EXCEPT ![n] = FALSE]
    /\ sock' = [sock EXCEPT ![n] = None]
    /\ rcv' = [rcv EXCEPT ![n] = {}]
    /\ UNCHANGED <<now, pc, last, cur, iface, known, files, cb, cached, disk,
                   restarts>>

\* The process is killed at any point: memory and socket are gone; the
\* interface addresses and the peer files remain.
Crash(n) ==
    /\ "crash" \in Faults
    /\ pc[n] \notin {"exited", "down"}
    /\ pc' = [pc EXCEPT ![n] = "down"]
    /\ sock' = [sock EXCEPT ![n] = None]
    /\ rcv' = [rcv EXCEPT ![n] = {}]
    /\ UNCHANGED <<now, running, last, cur, iface, known, files, cb, cached,
                   disk, restarts>>

\* main() starts a new daemon: RendezvousDaemon.__init__ loads the
\* descriptor and starts with empty known_peers; run() starts at (-1, -1).
Restart(n) ==
    /\ pc[n] \in {"exited", "down"}
    /\ restarts < MaxRestarts
    /\ restarts' = restarts + 1
    /\ pc' = [pc EXCEPT ![n] = "idle"]
    /\ running' = [running EXCEPT ![n] = TRUE]
    /\ last' = [last EXCEPT ![n] = None]
    /\ cur' = [cur EXCEPT ![n] = None]
    /\ known' = [known EXCEPT ![n] = {}]
    /\ cb' = [cb EXCEPT ![n] = [i \in Ids |-> 0]]
    /\ cached' = [cached EXCEPT ![n] = disk[n]]
    /\ UNCHANGED <<now, sock, rcv, iface, files, disk>>

\* Provisioning writes a new descriptor and its signature for node n.
Rotate(n) ==
    /\ disk[n] < MaxVersion
    /\ disk' = [disk EXCEPT ![n] = @ + 1]
    /\ UNCHANGED <<now, daemon, rcv, iface, files, restarts>>

\* A datagram from outside the modelled daemons reaches n's open socket.
Inject(n) ==
    /\ sock[n] # None
    /\ HasRoom(n)
    /\ \E f \in EnvFrames : rcv' = [rcv EXCEPT ![n] = @ \cup {f}]
    /\ UNCHANGED <<now, daemon, iface, files, disk, restarts>>

\* The wall clock enters the next slot.
Tick ==
    /\ now < MaxTime
    /\ now' = now + 1
    /\ UNCHANGED <<daemon, rcv, iface, files, disk, restarts>>

\* Every daemon has exited or was killed and none is restarted.
Terminated ==
    /\ \A n \in Nodes : pc[n] \in {"exited", "down"}
    /\ UNCHANGED vars

Next ==
    \/ \E n \in Nodes :
          \/ DaemonStep(n)
          \/ Stop(n)
          \/ Crash(n)
          \/ Restart(n)
          \/ Rotate(n)
          \/ Inject(n)
    \/ Tick
    \/ Terminated

\* The daemon is a single thread that always takes its next step: every
\* blocking call it makes is bounded (select 0.1 s, callback 30 s).  The
\* wall clock keeps advancing.
Fairness == (\A n \in Nodes : WF_vars(DaemonStep(n))) /\ WF_vars(Tick)

Spec == Init /\ [][Next]_vars /\ Fairness

-----------------------------------------------------------------------------
(* Properties.                                                             *)

\* max_peers bounds known_peers (spec invariant 4): after any sequence of
\* new peers, evictions, failed writes and restarts, _handle_peer_message's
\* add-then-pop keeps at most max_peers entries.
CapacityBound == \A n \in Nodes : Cardinality(known[n]) <= MaxPeers

\* No self-loop (spec invariant 5, property 7): a daemon never writes a peer
\* file for its own node_id nor runs the callback for it, whatever replays
\* of its own frame arrive, before or after a restart.
NoSelfLoop == \A n \in Nodes : descFile[n][n] = None /\ cb[n][n] = 0

\* Deduplication of _handle_peer_message: as long as a daemon has met no
\* more distinct peers in its lifetime than max_peers, known_peers never
\* evicts one, so the callback runs at most once per peer.
CallbackOncePerLifetime ==
    \A n \in Nodes :
        Cardinality({i \in Ids : cb[n][i] > 0}) <= MaxPeers
            => \A i \in Ids : cb[n][i] <= 1

\* A peer in known_peers (never persisted again in this lifetime) has a
\* complete descriptor file: a failed json.dump or .sig write leaves the
\* peer untracked, so it is written again when next heard.
KnownPeersPersisted ==
    \A n \in Nodes : \A i \in known[n] : descFile[n][i] \in PeerRecords

\* peer_callback is handed <id>.json only once json.dump and the .sig write
\* of this very message have succeeded, and only for a peer that was not
\* in known_peers: a step that runs the callback for i leaves a complete
\* descriptor file for i, and its signature file when it has one.
CallbackStep ==
    \A n \in Nodes, i \in Ids :
        cb'[n][i] > cb[n][i] =>
            /\ i \notin known[n]
            /\ descFile'[n][i] \in PeerRecords
            /\ descFile'[n][i].sig # NoSig => sigFile'[n][i] = descFile'[n][i].sig

CallbackAfterStore == [][CallbackStep]_vars

\* After SIGTERM/SIGINT the daemon finishes its current slot and exits
\* (spec section 5, Cancellation).
StopLeadsToExit ==
    \A n \in Nodes : ~running[n] ~> pc[n] \in {"exited", "down"}

\* The binder is scoped (spec 4.3, section 5): whenever a daemon is between
\* slots, no rendezvous address it added is left on its interface.
AddressReleased ==
    \A n \in Nodes : pc[n] \in {"idle", "exited"} => iface[n] = {}

\* <id>.json.sig holds the signature received with the descriptor in
\* <id>.json, and is absent when none was received (spec section 6).
SigFileMatchesDescriptor ==
    \A n \in Nodes : \A i \in Ids :
        descFile[n][i] \in PeerRecords =>
            sigFile[n][i] = IF descFile[n][i].sig = NoSig THEN None
                            ELSE descFile[n][i].sig

\* Every descriptor frame a daemon sends carries the signature of the
\* descriptor it carries (the signature is over the canonical descriptor).
SentSignatureMatches ==
    \A m \in Nodes : \A f \in rcv[m] :
        (f # Malformed /\ f.id \in Nodes /\ f.sig \in 1..MaxVersion)
            => f.sig = f.desc

\* A node_id outside [A-Za-z0-9_.-]+ is rejected before touching disk
\* (spec 4.5, 4.7 step 5).
PersistedIdsValid ==
    \A n \in Nodes : \A i \in BadIds : descFile[n][i] = None

\* Peer files are written atomically: a descriptor file that exists is a
\* complete descriptor (spec 4.5, property 5).
PeerFilesComplete ==
    \A n \in Nodes : \A i \in Ids : descFile[n][i] # Torn

-----------------------------------------------------------------------------
\* The peers the callback was run for in the daemon's current lifetime.
NotifiedIds == [n \in Nodes |-> {i \in Ids : cb[n][i] > 0}]

=============================================================================
