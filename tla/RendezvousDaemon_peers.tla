----------------------- MODULE RendezvousDaemon_peers -----------------------
(***************************************************************************)
(* Proofs about known_peers for every value of the constants.              *)
(*                                                                         *)
(* _handle_peer_message writes the peer's files and runs the callback      *)
(* before known_peers.add, and a failed write leaves the handler before    *)
(* the add.  Hence a peer in known_peers has a complete descriptor file,   *)
(* and known_peers is always a subset of the peers announced in the       *)
(* current lifetime (NotifiedIds).  While at most max_peers peers have     *)
(* been announced nothing was ever evicted, so known_peers is exactly the  *)
(* announced set and no peer reaches the callback twice.                   *)
(***************************************************************************)
EXTENDS RendezvousDaemon_self

\* known_peers of node n, and what the dedup of _handle_peer_message
\* implies for its callbacks.
DedupAt(n) ==
    /\ known[n] \subseteq NotifiedIds[n]
    /\ Cardinality(NotifiedIds[n]) <= MaxPeers =>
          /\ known[n] = NotifiedIds[n]
          /\ \A i \in Ids : cb[n][i] <= 1

\* The inductive invariant for CallbackOncePerLifetime.
DedupInv == TypeInv /\ \A n \in Nodes : DedupAt(n)

\* The inductive invariant for KnownPeersPersisted.
PersistInv == TypeInv /\ KnownPeersPersisted

\* A frame that _handle_peer_message does not drop is a decoded frame of a
\* peer not in known_peers.
LEMMA NewPeer ==
  ASSUME TypeOK, NEW n \in Nodes, NEW f \in Frames, ~Ignored(n, f)
  PROVE  f # Malformed /\ f.id \in Ids /\ f.id \notin known[n]
BY DEF Ignored, Frames

\* TrackPeer's effect: known_peers of n grows by at most the new id, by
\* exactly that id when the bound is not exceeded, and no other node's
\* known_peers changes.
LEMMA TrackPeerEffect ==
  ASSUME TypeOK, NEW n \in Nodes, NEW i \in Ids, TrackPeer(n, i)
  PROVE  /\ known'[n] \subseteq known[n] \cup {i}
         /\ Cardinality(known[n] \cup {i}) <= MaxPeers => known'[n] = known[n] \cup {i}
         /\ \A m \in Nodes \ {n} : known'[m] = known[m]
<1> DEFINE K == known[n] \cup {i}
<1>1. Cardinality(K) \in Nat /\ MaxPeers \in Nat
  <2>1. IsFiniteSet(K)
    BY IdsFinite, FS_Subset DEF TypeOK
  <2>. QED
    BY <2>1, FS_CardinalityType, ConstantsAssumption
<1>2. CASE Cardinality(K) > MaxPeers
  <2>1. PICK v \in K : known' = [known EXCEPT ![n] = K \ {v}]
    BY <1>2 DEF TrackPeer
  <2>. QED
    BY <1>1, <1>2, <2>1 DEF TypeOK
<1>3. CASE ~(Cardinality(K) > MaxPeers)
  <2>1. known' = [known EXCEPT ![n] = K]
    BY <1>3 DEF TrackPeer
  <2>. QED
    BY <2>1 DEF TypeOK
<1>. QED
  BY <1>2, <1>3

-----------------------------------------------------------------------------
(* Deduplication of callbacks.                                             *)

\* A step that leaves known_peers and the callbacks of m alone keeps
\* DedupAt(m).
LEMMA DedupFrame ==
  ASSUME NEW m \in Nodes, DedupAt(m), known'[m] = known[m], cb'[m] = cb[m]
  PROVE  DedupAt(m)'
<1>1. NotifiedIds'[m] = NotifiedIds[m]
  BY DEF NotifiedIds
<1>. QED
  BY <1>1 DEF DedupAt

\* Learning a new peer keeps DedupAt at every node.
LEMMA LearnDedup ==
  ASSUME TypeOK, NEW n \in Nodes, NEW f \in Frames, ~Ignored(n, f),
         LearnPeer(n, f), \A m \in Nodes : DedupAt(m)
  PROVE  \A m \in Nodes : DedupAt(m)'
<1> DEFINE i == f.id
           N == NotifiedIds[n]
<1>1. f # Malformed /\ i \in Ids /\ i \notin known[n]
  BY NewPeer
<1>2. CASE /\ CountCallback(n, i)
           /\ TrackPeer(n, i)
  <2>1. cb' = [cb EXCEPT ![n][i] = IF cb[n][i] < 2 THEN cb[n][i] + 1 ELSE 2]
    BY <1>2 DEF CountCallback
  <2>2. /\ known'[n] \subseteq known[n] \cup {i}
        /\ Cardinality(known[n] \cup {i}) <= MaxPeers => known'[n] = known[n] \cup {i}
        /\ \A m \in Nodes \ {n} : known'[m] = known[m]
    BY <1>1, <1>2, TrackPeerEffect
  <2>3. ASSUME NEW m \in Nodes \ {n} PROVE DedupAt(m)'
    <3>1. cb'[m] = cb[m]
      BY <2>1 DEF TypeOK
    <3>. QED
      BY <2>2, <3>1, DedupFrame
  <2>4. /\ cb'[n][i] \in 1..2
        /\ \A j \in Ids \ {i} : cb'[n][j] = cb[n][j]
        /\ cb[n][i] \in 0..2
    BY <1>1, <2>1 DEF TypeOK
  <2>5. NotifiedIds'[n] = N \cup {i}
    BY <1>1, <2>4 DEF NotifiedIds
  <2>6. known'[n] \subseteq NotifiedIds'[n]
    BY <2>2, <2>5 DEF DedupAt
  <2>7. ASSUME Cardinality(NotifiedIds'[n]) <= MaxPeers
        PROVE  /\ known'[n] = NotifiedIds'[n]
               /\ \A j \in Ids : cb'[n][j] <= 1
    <3>1. IsFiniteSet(N \cup {i}) /\ N \subseteq N \cup {i}
      <4>1. N \cup {i} \subseteq Ids
        BY <1>1 DEF NotifiedIds
      <4>. QED
        BY <4>1, IdsFinite, FS_Subset
    <3>2. Cardinality(N) <= Cardinality(N \cup {i})
      BY <3>1, FS_Subset
    <3>3. Cardinality(N) <= MaxPeers
      <4>1. Cardinality(N) \in Nat /\ Cardinality(N \cup {i}) \in Nat /\ MaxPeers \in Nat
        BY <3>1, FS_Subset, FS_CardinalityType, ConstantsAssumption
      <4>. QED
        BY <2>5, <2>7, <3>2, <4>1
    <3>4. known[n] = N /\ \A j \in Ids : cb[n][j] <= 1
      BY <3>3 DEF DedupAt
    <3>5. cb[n][i] = 0
      BY <1>1, <2>4, <3>4 DEF NotifiedIds
    <3>6. known'[n] = NotifiedIds'[n]
      BY <2>2, <2>5, <2>7, <3>4
    <3>7. \A j \in Ids : cb'[n][j] <= 1
      <4>1. cb'[n][i] = 1
        BY <1>1, <2>1, <3>5 DEF TypeOK
      <4>. QED
        BY <2>4, <3>4, <4>1
    <3>. QED
      BY <3>6, <3>7
  <2>. QED
    BY <2>3, <2>6, <2>7 DEF DedupAt
<1>3. CASE UNCHANGED <<cb, known>>
  BY <1>3, DedupFrame
<1>. QED
  BY <1>2, <1>3 DEF LearnPeer

LEMMA InitDedupInv == Init => DedupInv
<1> SUFFICES ASSUME Init PROVE DedupInv
  OBVIOUS
<1>1. \A n \in Nodes : NotifiedIds[n] = {} /\ known[n] = {}
  BY DEF Init, NotifiedIds
<1>. QED
  BY <1>1, InitTypeInv DEF DedupInv, DedupAt, Init

LEMMA NextDedupInv == DedupInv /\ [Next]_vars => DedupInv'
<1> SUFFICES ASSUME TypeInv, \A n \in Nodes : DedupAt(n), [Next]_vars
             PROVE  TypeInv' /\ \A n \in Nodes : DedupAt(n)'
  BY DEF DedupInv
<1>0. TypeOK /\ TypeInv'
  BY NextTypeOK DEF TypeInv
<1>1. ASSUME NEW n \in Nodes, Receive(n) PROVE \A m \in Nodes : DedupAt(m)'
  <2>1. PICK f \in rcv[n] : HandlePeerMessage(n, f)
    BY <1>1 DEF Receive
  <2>2. f \in Frames
    BY <1>0 DEF TypeOK
  <2>3. CASE Ignored(n, f)
    BY <2>1, <2>3, DedupFrame DEF HandlePeerMessage
  <2>4. CASE ~Ignored(n, f)
    BY <1>0, <2>1, <2>2, <2>4, LearnDedup DEF HandlePeerMessage
  <2>. QED
    BY <2>3, <2>4
<1>2. ASSUME NEW n \in Nodes, Restart(n) PROVE \A m \in Nodes : DedupAt(m)'
  <2>1. known' = [known EXCEPT ![n] = {}] /\ cb' = [cb EXCEPT ![n] = [i \in Ids |-> 0]]
    BY <1>2 DEF Restart
  <2>2. ASSUME NEW m \in Nodes \ {n} PROVE DedupAt(m)'
    BY <1>0, <2>1, DedupFrame DEF TypeOK
  <2>3. DedupAt(n)'
    <3>1. known'[n] = {} /\ \A i \in Ids : cb'[n][i] = 0
      BY <1>0, <2>1 DEF TypeOK
    <3>2. NotifiedIds'[n] = {}
      BY <3>1 DEF NotifiedIds
    <3>. QED
      BY <3>1, <3>2 DEF DedupAt
  <2>. QED
    BY <2>2, <2>3
<1>3. ASSUME NEW n \in Nodes,
             \/ EnterSlot(n) \/ AddAndBind(n) \/ EndListen(n) \/ ListenAborted(n)
             \/ Exit(n) \/ Stop(n) \/ Crash(n) \/ Rotate(n) \/ Inject(n)
      PROVE  \A m \in Nodes : DedupAt(m)'
  <2>1. UNCHANGED <<known, cb>>
    BY <1>3 DEF EnterSlot, AddAndBind, EndListen, ListenAborted, Exit, Stop,
                Crash, Rotate, Inject, daemon
  <2>. QED
    BY <2>1, DedupFrame
<1>4. ASSUME Tick \/ Terminated \/ UNCHANGED vars PROVE \A m \in Nodes : DedupAt(m)'
  <2>1. UNCHANGED <<known, cb>>
    BY <1>4 DEF Tick, Terminated, vars, daemon
  <2>. QED
    BY <2>1, DedupFrame
<1>. QED
  BY <1>0, <1>1, <1>2, <1>3, <1>4 DEF Next, DaemonStep

\* For every capacity and every set of nodes and ids: while a daemon has
\* announced at most max_peers distinct peers in its lifetime, the
\* known_peers check of _handle_peer_message keeps every peer from
\* reaching peer_callback a second time.
THEOREM CallbackOnce == Spec => []CallbackOncePerLifetime
<1>1. Spec => []DedupInv
  BY InitDedupInv, NextDedupInv, PTL DEF Spec
<1>2. DedupInv => CallbackOncePerLifetime
  BY DEF DedupInv, DedupAt, NotifiedIds, CallbackOncePerLifetime
<1>. QED
  BY <1>1, <1>2, PTL

-----------------------------------------------------------------------------
(* known_peers only holds peers whose descriptor file is complete.         *)

\* known_peers of node n only names peers with a complete descriptor file.
PersistAt(n) == \A i \in known[n] : descFile[n][i] \in PeerRecords

\* A step that leaves known_peers and the descriptor files of m alone
\* keeps PersistAt(m).
LEMMA PersistFrame ==
  ASSUME NEW m \in Nodes, PersistAt(m), known'[m] = known[m], descFile'[m] = descFile[m]
  PROVE  PersistAt(m)'
BY DEF PersistAt

\* Learning a new peer keeps PersistAt at every node: the record is
\* written before known_peers.add, and a torn write skips the add.
LEMMA LearnPersist ==
  ASSUME TypeOK, NEW n \in Nodes, NEW f \in Frames, ~Ignored(n, f),
         LearnPeer(n, f), \A m \in Nodes : PersistAt(m)
  PROVE  \A m \in Nodes : PersistAt(m)'
<1> DEFINE i == f.id
<1>1. f # Malformed /\ i \in Ids /\ i \notin known[n]
  BY NewPeer
<1>2. [desc |-> f.desc, sig |-> f.sig] \in PeerRecords
  BY <1>1 DEF Frames, PeerRecords
<1>3. CASE descFile' = [descFile EXCEPT ![n][i] = [desc |-> f.desc, sig |-> f.sig]]
           /\ TrackPeer(n, i)
  <2>1. /\ known'[n] \subseteq known[n] \cup {i}
        /\ \A m \in Nodes \ {n} : known'[m] = known[m]
    BY <1>1, <1>3, TrackPeerEffect
  <2>2. /\ descFile'[n][i] \in PeerRecords
        /\ \A j \in Ids \ {i} : descFile'[n][j] = descFile[n][j]
        /\ \A m \in Nodes \ {n} : descFile'[m] = descFile[m]
    BY <1>1, <1>2, <1>3 DEF TypeOK
  <2>3. PersistAt(n)'
    BY <2>1, <2>2 DEF PersistAt, TypeOK
  <2>. QED
    BY <2>1, <2>2, <2>3, PersistFrame
<1>4. CASE descFile' = [descFile EXCEPT ![n][i] = Torn] /\ UNCHANGED known
  <2>1. /\ \A j \in Ids \ {i} : descFile'[n][j] = descFile[n][j]
        /\ \A m \in Nodes \ {n} : descFile'[m] = descFile[m]
    BY <1>1, <1>4 DEF TypeOK
  <2>2. PersistAt(n)'
    BY <1>1, <1>4, <2>1 DEF PersistAt, TypeOK
  <2>. QED
    BY <1>4, <2>1, <2>2, PersistFrame
<1>5. CASE descFile' = [descFile EXCEPT ![n][i] = [desc |-> f.desc, sig |-> f.sig]]
           /\ UNCHANGED known
  <2>1. /\ descFile'[n][i] \in PeerRecords
        /\ \A j \in Ids \ {i} : descFile'[n][j] = descFile[n][j]
        /\ \A m \in Nodes \ {n} : descFile'[m] = descFile[m]
    BY <1>1, <1>2, <1>5 DEF TypeOK
  <2>2. PersistAt(n)'
    BY <1>5, <2>1 DEF PersistAt, TypeOK
  <2>. QED
    BY <1>5, <2>1, <2>2, PersistFrame
<1>. QED
  BY <1>3, <1>4, <1>5 DEF LearnPeer

LEMMA InitPersistInv == Init => PersistInv
BY InitTypeInv DEF Init, PersistInv, KnownPeersPersisted

LEMMA NextPersistInv == PersistInv /\ [Next]_vars => PersistInv'
<1> SUFFICES ASSUME TypeInv, \A n \in Nodes : PersistAt(n), [Next]_vars
             PROVE  TypeInv' /\ \A n \in Nodes : PersistAt(n)'
  BY DEF PersistInv, KnownPeersPersisted, PersistAt
<1>0. TypeOK /\ TypeInv'
  BY NextTypeOK DEF TypeInv
<1>1. ASSUME NEW n \in Nodes, Receive(n) PROVE \A m \in Nodes : PersistAt(m)'
  <2>1. PICK f \in rcv[n] : HandlePeerMessage(n, f)
    BY <1>1 DEF Receive
  <2>2. f \in Frames
    BY <1>0 DEF TypeOK
  <2>3. CASE Ignored(n, f)
    BY <2>1, <2>3, PersistFrame DEF HandlePeerMessage
  <2>4. CASE ~Ignored(n, f)
    BY <1>0, <2>1, <2>2, <2>4, LearnPersist DEF HandlePeerMessage
  <2>. QED
    BY <2>3, <2>4
<1>2. ASSUME NEW n \in Nodes, Restart(n) PROVE \A m \in Nodes : PersistAt(m)'
  <2>1. known' = [known EXCEPT ![n] = {}] /\ UNCHANGED descFile
    BY <1>2 DEF Restart, files
  <2>. QED
    BY <1>0, <2>1, PersistFrame DEF TypeOK, PersistAt
<1>3. ASSUME NEW n \in Nodes,
             \/ EnterSlot(n) \/ AddAndBind(n) \/ EndListen(n) \/ ListenAborted(n)
             \/ Exit(n) \/ Stop(n) \/ Crash(n) \/ Rotate(n) \/ Inject(n)
      PROVE  \A m \in Nodes : PersistAt(m)'
  <2>1. UNCHANGED <<known, descFile>>
    BY <1>3 DEF EnterSlot, AddAndBind, EndListen, ListenAborted, Exit, Stop,
                Crash, Rotate, Inject, daemon, files
  <2>. QED
    BY <2>1, PersistFrame
<1>4. ASSUME Tick \/ Terminated \/ UNCHANGED vars PROVE \A m \in Nodes : PersistAt(m)'
  <2>1. UNCHANGED <<known, descFile>>
    BY <1>4 DEF Tick, Terminated, vars, daemon, files
  <2>. QED
    BY <2>1, PersistFrame
<1>. QED
  BY <1>0, <1>1, <1>2, <1>3, <1>4 DEF Next, DaemonStep

\* For every capacity and every fault set: a peer the daemon holds in
\* known_peers always has a complete descriptor file on disk, whatever
\* writes tore and whatever restarts happened.
THEOREM KnownPeersPersistedHolds == Spec => []KnownPeersPersisted
<1>1. Spec => []PersistInv
  BY InitPersistInv, NextPersistInv, PTL DEF Spec
<1>2. PersistInv => KnownPeersPersisted
  BY DEF PersistInv
<1>. QED
  BY <1>1, <1>2, PTL

-----------------------------------------------------------------------------
(* The callback only follows a complete store of a new peer.               *)

\* Callback counts are numbers.
LEMMA CallbackCountNat ==
  ASSUME TypeOK PROVE \A m \in Nodes, j \in Ids : cb[m][j] \in Nat
BY DEF TypeOK

\* A handled frame runs the callback only on the success path of
\* LearnPeer, after both files are written, and only for an unknown peer.
LEMMA LearnCallbackStep ==
  ASSUME TypeOK, NEW n \in Nodes, NEW f \in Frames, ~Ignored(n, f), LearnPeer(n, f)
  PROVE  CallbackStep
<1> DEFINE i == f.id
<1>1. f # Malformed /\ i \in Ids /\ i \notin known[n]
  BY NewPeer
<1>0. \A m \in Nodes, j \in Ids : cb[m][j] \in Nat
  BY CallbackCountNat
<1> SUFFICES ASSUME NEW m \in Nodes, NEW j \in Ids, cb'[m][j] > cb[m][j]
             PROVE  /\ j \notin known[m]
                    /\ descFile'[m][j] \in PeerRecords
                    /\ descFile'[m][j].sig # NoSig => sigFile'[m][j] = descFile'[m][j].sig
  BY DEF CallbackStep
<1>2. m = n /\ j = i
  <2>1. \A mm \in Nodes, jj \in Ids : (mm # n \/ jj # i) => cb'[mm][jj] = cb[mm][jj]
    BY <1>1, LearnPeerFrame
  <2>. QED
    BY <1>0, <2>1
<1>3. CASE /\ descFile' = [descFile EXCEPT ![n][i] = [desc |-> f.desc, sig |-> f.sig]]
           /\ sigFile' = IF f.sig = NoSig THEN sigFile
                         ELSE [sigFile EXCEPT ![n][i] = f.sig]
  <2>1. descFile'[n][i] = [desc |-> f.desc, sig |-> f.sig]
    BY <1>1, <1>3 DEF TypeOK
  <2>2. [desc |-> f.desc, sig |-> f.sig] \in PeerRecords
    BY <1>1 DEF Frames, PeerRecords
  <2>3. f.sig # NoSig => sigFile'[n][i] = f.sig
    BY <1>1, <1>3 DEF TypeOK
  <2>. QED
    BY <1>1, <1>2, <2>1, <2>2, <2>3
<1>4. CASE UNCHANGED cb
  BY <1>0, <1>4
<1>. QED
  BY <1>3, <1>4 DEF LearnPeer

LEMMA NextCallbackStep == TypeOK /\ [Next]_vars => [CallbackStep]_vars
<1> SUFFICES ASSUME TypeOK, [Next]_vars PROVE CallbackStep
  OBVIOUS
<1>0. ASSUME UNCHANGED cb PROVE CallbackStep
  <2>1. \A m \in Nodes, j \in Ids : cb[m][j] \in Nat
    BY DEF TypeOK
  <2> SUFFICES ASSUME NEW m \in Nodes, NEW j \in Ids, cb'[m][j] > cb[m][j] PROVE FALSE
    BY DEF CallbackStep
  <2>. QED
    BY <1>0, <2>1
<1>1. ASSUME NEW n \in Nodes, Receive(n) PROVE CallbackStep
  <2>1. PICK f \in rcv[n] : HandlePeerMessage(n, f)
    BY <1>1 DEF Receive
  <2>2. f \in Frames
    BY DEF TypeOK
  <2>3. CASE Ignored(n, f)
    BY <2>1, <2>3, <1>0 DEF HandlePeerMessage
  <2>4. CASE ~Ignored(n, f)
    BY <2>1, <2>2, <2>4, LearnCallbackStep DEF HandlePeerMessage
  <2>. QED
    BY <2>3, <2>4
<1>2. ASSUME NEW n \in Nodes, Restart(n) PROVE CallbackStep
  <2>1. cb' = [cb EXCEPT ![n] = [i \in Ids |-> 0]]
    BY <1>2 DEF Restart
  <2>2. \A m \in Nodes, j \in Ids : /\ cb[m][j] \in 0..2
                                   /\ cb'[m][j] = IF m = n THEN 0 ELSE cb[m][j]
    BY <2>1 DEF TypeOK
  <2> SUFFICES ASSUME NEW m \in Nodes, NEW j \in Ids, cb'[m][j] > cb[m][j] PROVE FALSE
    BY DEF CallbackStep
  <2>3. cb[m][j] \in 0..2 /\ cb'[m][j] = IF m = n THEN 0 ELSE cb[m][j]
    BY <2>2
  <2>. QED
    BY <2>2, <2>3
<1>3. ASSUME NEW n \in Nodes,
             \/ EnterSlot(n) \/ AddAndBind(n) \/ EndListen(n) \/ ListenAborted(n)
             \/ Exit(n) \/ Stop(n) \/ Crash(n) \/ Rotate(n) \/ Inject(n)
      PROVE  CallbackStep
  <2>1. UNCHANGED cb
    BY <1>3 DEF EnterSlot, AddAndBind, EndListen, ListenAborted, Exit, Stop,
                Crash, Rotate, Inject, daemon
  <2>. QED
    BY <2>1, <1>0
<1>4. ASSUME Tick \/ Terminated \/ UNCHANGED vars PROVE CallbackStep
  <2>1. UNCHANGED cb
    BY <1>4 DEF Tick, Terminated, vars, daemon
  <2>. QED
    BY <2>1, <1>0
<1>. QED
  BY <1>1, <1>2, <1>3, <1>4 DEF Next, DaemonStep

\* For every value of the constants: whenever _handle_peer_message runs
\* peer_callback for a peer, the peer was not in known_peers and its
\* <id>.json (and <id>.json.sig, when the message carried a signature)
\* has just been written in full, whatever store faults and restarts
\* happened.
THEOREM CallbackAfterStoreHolds == Spec => CallbackAfterStore
<1>1. Spec => []TypeOK
  BY TypeCorrect
<1>2. TypeOK /\ [Next]_vars => [CallbackStep]_vars
  BY NextCallbackStep
<1>. QED
  BY <1>1, <1>2, PTL DEF Spec, CallbackAfterStore

====
