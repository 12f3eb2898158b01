----------------------- MODULE RendezvousDaemon_proofs -----------------------
(***************************************************************************)
(* Proofs about RendezvousDaemon for every value of the constants: the     *)
(* type invariant, and the bound max_peers on known_peers.                 *)
(***************************************************************************)
EXTENDS RendezvousDaemon, FiniteSetTheorems, TLAPS

LEMMA IdsFinite == IsFiniteSet(Ids)
BY ConstantsAssumption DEF Ids

LEMMA KeyType == ASSUME NEW t \in 0..MaxTime PROVE Key(t) \in Keys
BY DEF Keys

\* While a slot is being handled, (epoch, slot) holds a real key: the
\* address added and the socket bound are those of a slot.
CurKey == \A n \in Nodes : pc[n] \in {"bind", "listen"} => cur[n] \in Keys

\* The inductive form of the type invariant.
TypeInv == TypeOK /\ CurKey

\* The frame a daemon sends is a frame.
LEMMA OwnFrameType ==
    ASSUME TypeOK, NEW n \in Nodes, cached[n] # 0
    PROVE  OwnFrame(n) \in Frames
BY ConstantsAssumption DEF TypeOK, OwnFrame, Frames, Sigs, Ids

\* Delivery of a frame keeps every receive buffer a set of frames.
LEMMA SendType ==
    ASSUME TypeOK, NEW n \in Nodes, NEW k, NEW f \in Frames, Send(n, k, f)
    PROVE  rcv' \in [Nodes -> SUBSET Frames]
BY DEF Send, TypeOK

LEMMA InitTypeOK == Init => TypeOK
<1> SUFFICES ASSUME Init PROVE TypeOK
  OBVIOUS
<1> USE ConstantsAssumption DEF Init
<1>1. now \in 0..MaxTime /\ restarts \in 0..MaxRestarts
  OBVIOUS
<1>2. disk \in [Nodes -> 0..MaxVersion] /\ cached \in [Nodes -> 0..MaxVersion]
  OBVIOUS
<1>3. /\ pc \in [Nodes -> {"idle", "bind", "listen", "exited", "down"}]
      /\ running \in [Nodes -> BOOLEAN]
  OBVIOUS
<1>4. /\ last \in [Nodes -> Keys \cup {None}]
      /\ cur \in [Nodes -> Keys \cup {None}]
      /\ sock \in [Nodes -> Keys \cup {None}]
  OBVIOUS
<1>5. /\ rcv \in [Nodes -> SUBSET Frames]
      /\ iface \in [Nodes -> SUBSET Keys]
      /\ known \in [Nodes -> SUBSET Ids]
  OBVIOUS
<1>6. /\ descFile \in [Nodes -> [Ids -> PeerRecords \cup {None, Torn}]]
      /\ sigFile \in [Nodes -> [Ids -> Sigs \cup {None, Torn}]]
      /\ cb \in [Nodes -> [Ids -> 0..2]]
  OBVIOUS
<1>7. QED
  BY <1>1, <1>2, <1>3, <1>4, <1>5, <1>6 DEF TypeOK

\* known_peers after TrackPeer is a set of node_ids.
LEMMA TrackPeerType ==
    ASSUME TypeOK, NEW n \in Nodes, NEW i \in Ids, TrackPeer(n, i)
    PROVE  known' \in [Nodes -> SUBSET Ids]
<1> DEFINE K == known[n] \cup {i}
<1>1. K \subseteq Ids
  BY DEF TypeOK
<1>2. CASE Cardinality(K) > MaxPeers
  <2>1. PICK v \in K : known' = [known EXCEPT ![n] = K \ {v}]
    BY <1>2 DEF TrackPeer
  <2>2. QED
    BY <1>1, <2>1 DEF TypeOK
<1>3. CASE ~(Cardinality(K) > MaxPeers)
  <2>1. known' = [known EXCEPT ![n] = K]
    BY <1>3 DEF TrackPeer
  <2>2. QED
    BY <1>1, <2>1 DEF TypeOK
<1>4. QED
  BY <1>2, <1>3

\* The files and counters written for a new peer keep their types.
LEMMA LearnPeerType ==
    ASSUME TypeOK, NEW n \in Nodes, NEW f \in Frames, f # Malformed, f.id \in Ids,
           LearnPeer(n, f)
    PROVE  /\ known' \in [Nodes -> SUBSET Ids]
           /\ descFile' \in [Nodes -> [Ids -> PeerRecords \cup {None, Torn}]]
           /\ sigFile' \in [Nodes -> [Ids -> Sigs \cup {None, Torn}]]
           /\ cb' \in [Nodes -> [Ids -> 0..2]]
<1>1. [desc |-> f.desc, sig |-> f.sig] \in PeerRecords /\ f.sig \in Sigs
  BY DEF Frames, PeerRecords
<1>2. CASE /\ descFile' = [descFile EXCEPT ![n][f.id] = [desc |-> f.desc, sig |-> f.sig]]
           /\ sigFile' = IF f.sig = NoSig THEN sigFile
                         ELSE [sigFile EXCEPT ![n][f.id] = f.sig]
           /\ CountCallback(n, f.id)
           /\ TrackPeer(n, f.id)
  <2>1. known' \in [Nodes -> SUBSET Ids]
    BY <1>2, TrackPeerType
  <2>2. cb' \in [Nodes -> [Ids -> 0..2]]
    <3>1. cb[n][f.id] \in 0..2
      BY DEF TypeOK
    <3>2. (IF cb[n][f.id] < 2 THEN cb[n][f.id] + 1 ELSE 2) \in 0..2
      BY <3>1
    <3>3. QED
      BY <1>2, <3>2 DEF CountCallback, TypeOK
  <2>3. QED
    BY <1>1, <1>2, <2>1, <2>2 DEF TypeOK
<1>3. CASE /\ descFile' = [descFile EXCEPT ![n][f.id] = Torn]
           /\ UNCHANGED <<sigFile, cb, known>>
  BY <1>3 DEF TypeOK
<1>4. CASE /\ descFile' = [descFile EXCEPT ![n][f.id] = [desc |-> f.desc, sig |-> f.sig]]
           /\ sigFile' = [sigFile EXCEPT ![n][f.id] = Torn]
           /\ UNCHANGED <<cb, known>>
  BY <1>1, <1>4 DEF TypeOK
<1>5. QED
  BY <1>2, <1>3, <1>4 DEF LearnPeer

LEMMA HandleType ==
    ASSUME TypeOK, NEW n \in Nodes, NEW f \in Frames, HandlePeerMessage(n, f)
    PROVE  /\ known' \in [Nodes -> SUBSET Ids]
           /\ descFile' \in [Nodes -> [Ids -> PeerRecords \cup {None, Torn}]]
           /\ sigFile' \in [Nodes -> [Ids -> Sigs \cup {None, Torn}]]
           /\ cb' \in [Nodes -> [Ids -> 0..2]]
<1>1. CASE Ignored(n, f)
  BY <1>1 DEF HandlePeerMessage, TypeOK
<1>2. CASE ~Ignored(n, f)
  <2>1. f # Malformed /\ f.id \in Ids
    BY <1>2 DEF Ignored, Frames
  <2>2. QED
    BY <1>2, <2>1, LearnPeerType DEF HandlePeerMessage
<1>3. QED
  BY <1>1, <1>2

LEMMA InitTypeInv == Init => TypeInv
BY InitTypeOK DEF Init, TypeInv, CurKey

LEMMA NextTypeOK == TypeInv /\ [Next]_vars => TypeInv'
<1> SUFFICES ASSUME TypeOK, CurKey, [Next]_vars PROVE TypeOK' /\ CurKey'
  BY DEF TypeInv
<1> USE ConstantsAssumption
<1>1. ASSUME NEW n \in Nodes, EnterSlot(n) PROVE TypeOK' /\ CurKey'
  <2>1. Key(now) \in Keys
    BY KeyType DEF TypeOK
  <2>2. rcv' \in [Nodes -> SUBSET Frames]
    BY <1>1, OwnFrameType, SendType DEF EnterSlot, TypeOK
  <2>3. QED
    BY <1>1, <2>1, <2>2 DEF EnterSlot, TypeOK, CurKey, daemon, files
<1>2. ASSUME NEW n \in Nodes, AddAndBind(n) PROVE TypeOK' /\ CurKey'
  <2>1. cur[n] \in Keys
    BY <1>2 DEF AddAndBind, CurKey
  <2>2. UNCHANGED <<now, running, cur, rcv, known, files, cb, cached, disk, restarts>>
    BY <1>2 DEF AddAndBind
  <2>3. pc[n] = "bind"
    BY <1>2 DEF AddAndBind
  <2>4. CASE "add" \in Faults /\ FinishSlot(n) /\ UNCHANGED <<iface, sock>>
    BY <2>2, <2>3, <2>4 DEF FinishSlot, TypeOK, CurKey, files
  <2>5. CASE /\ "bind" \in Faults
             /\ AddAddress(n)
             /\ FinishSlot(n)
             /\ UNCHANGED sock
    BY <2>1, <2>2, <2>3, <2>5 DEF AddAddress, FinishSlot, TypeOK, CurKey, files
  <2>6. CASE /\ AddAddress(n)
             /\ sock' = [sock EXCEPT ![n] = cur[n]]
             /\ pc' = [pc EXCEPT ![n] = "listen"]
             /\ UNCHANGED last
    BY <2>1, <2>2, <2>3, <2>6 DEF AddAddress, TypeOK, CurKey, files
  <2>7. QED
    BY <1>2, <2>4, <2>5, <2>6 DEF AddAndBind
<1>3. ASSUME NEW n \in Nodes, Receive(n) PROVE TypeOK' /\ CurKey'
  <2>1. PICK f \in rcv[n] : rcv' = [rcv EXCEPT ![n] = @ \ {f}] /\ HandlePeerMessage(n, f)
    BY <1>3 DEF Receive
  <2>2. f \in Frames
    BY DEF TypeOK
  <2>3. QED
    BY <1>3, <2>1, <2>2, HandleType DEF Receive, TypeOK, CurKey
<1>4. ASSUME NEW n \in Nodes, EndListen(n) PROVE TypeOK' /\ CurKey'
  <2>1. /\ pc' = [pc EXCEPT ![n] = "idle"]
        /\ last' = [last EXCEPT ![n] = cur[n]]
        /\ sock' = [sock EXCEPT ![n] = None]
        /\ rcv' = [rcv EXCEPT ![n] = {}]
        /\ UNCHANGED <<now, running, cur, known, files, cb, cached, disk, restarts>>
    BY <1>4 DEF EndListen, FinishSlot
  <2>2. iface' \in [Nodes -> SUBSET Keys]
    <3>1. CASE RemoveAddress(n)
      BY <3>1 DEF RemoveAddress, TypeOK
    <3>2. CASE iface' = iface
      BY <3>2 DEF TypeOK
    <3>3. QED
      BY <1>4, <3>1, <3>2 DEF EndListen
  <2>3. QED
    BY <2>1, <2>2 DEF TypeOK, CurKey, files
<1>5. ASSUME NEW n \in Nodes, ListenAborted(n) PROVE TypeOK' /\ CurKey'
  BY <1>5 DEF ListenAborted, FinishSlot, TypeOK, CurKey, files
<1>6. ASSUME NEW n \in Nodes, Exit(n) PROVE TypeOK' /\ CurKey'
  BY <1>6 DEF Exit, TypeOK, CurKey, files
<1>7. ASSUME NEW n \in Nodes, Stop(n) PROVE TypeOK' /\ CurKey'
  BY <1>7 DEF Stop, TypeOK, CurKey, files
<1>8. ASSUME NEW n \in Nodes, Crash(n) PROVE TypeOK' /\ CurKey'
  BY <1>8 DEF Crash, TypeOK, CurKey, files
<1>9. ASSUME NEW n \in Nodes, Restart(n) PROVE TypeOK' /\ CurKey'
  BY <1>9 DEF Restart, TypeOK, CurKey, files
<1>10. ASSUME NEW n \in Nodes, Rotate(n) PROVE TypeOK' /\ CurKey'
  BY <1>10 DEF Rotate, TypeOK, CurKey, daemon, files
<1>11. ASSUME NEW n \in Nodes, Inject(n) PROVE TypeOK' /\ CurKey'
  BY <1>11, EnvFramesAssumption DEF Inject, TypeOK, CurKey, daemon, files
<1>12. CASE Tick
  BY <1>12 DEF Tick, TypeOK, CurKey, daemon, files
<1>13. CASE Terminated
  BY <1>13 DEF Terminated, TypeOK, CurKey, vars
<1>14. CASE UNCHANGED vars
  BY <1>14 DEF TypeOK, CurKey, vars
<1>15. QED
  BY <1>1, <1>2, <1>3, <1>4, <1>5, <1>6, <1>7, <1>8, <1>9, <1>10, <1>11,
     <1>12, <1>13, <1>14 DEF Next, DaemonStep

\* The type invariant holds in every reachable state.
THEOREM TypeCorrect == Spec => []TypeOK
<1>1. Spec => []TypeInv
  BY InitTypeInv, NextTypeOK, PTL DEF Spec
<1>2. QED
  BY <1>1, PTL DEF TypeInv

-----------------------------------------------------------------------------
(* max_peers bounds known_peers.                                           *)

\* TrackPeer's add-then-pop keeps a set of at most MaxPeers ids within the
\* bound: the add grows it by at most one, the pop then removes one.
LEMMA TrackPeerBound ==
    ASSUME TypeOK, NEW n \in Nodes, NEW i \in Ids,
           Cardinality(known[n]) <= MaxPeers, TrackPeer(n, i)
    PROVE  /\ Cardinality(known'[n]) <= MaxPeers
           /\ \A m \in Nodes \ {n} : known'[m] = known[m]
<1> USE ConstantsAssumption
<1> DEFINE K == known[n] \cup {i}
<1>1. IsFiniteSet(known[n])
  BY IdsFinite, FS_Subset DEF TypeOK
<1>3. Cardinality(known[n]) \in Nat
  BY <1>1, FS_CardinalityType
<1>2. /\ IsFiniteSet(K)
      /\ Cardinality(K) = IF i \in known[n] THEN Cardinality(known[n])
                          ELSE Cardinality(known[n]) + 1
  BY <1>1, FS_AddElement
<1>9. Cardinality(K) \in Nat /\ Cardinality(K) <= Cardinality(known[n]) + 1
  BY <1>2, <1>3, FS_CardinalityType
<1>4. CASE Cardinality(K) > MaxPeers
  <2>1. PICK v \in K : known' = [known EXCEPT ![n] = K \ {v}]
    BY <1>4 DEF TrackPeer
  <2>2. Cardinality(K \ {v}) = Cardinality(K) - 1
    BY <1>2, FS_RemoveElement
  <2>3. Cardinality(K \ {v}) <= MaxPeers
    BY <1>3, <1>9, <2>2
  <2>4. QED
    BY <2>1, <2>3 DEF TypeOK
<1>5. CASE ~(Cardinality(K) > MaxPeers)
  <2>1. known' = [known EXCEPT ![n] = K]
    BY <1>5 DEF TrackPeer
  <2>2. QED
    BY <1>5, <1>9, <2>1 DEF TypeOK
<1>6. QED
  BY <1>4, <1>5

\* Receiving a frame keeps every known_peers within the bound.
LEMMA HandleBound ==
    ASSUME TypeOK, CapacityBound, NEW n \in Nodes, NEW f \in Frames,
           HandlePeerMessage(n, f)
    PROVE  CapacityBound'
<1>1. known' \in [Nodes -> SUBSET Ids]
  BY HandleType
<1>2. CASE Ignored(n, f) \/ UNCHANGED known
  BY <1>1, <1>2 DEF HandlePeerMessage, CapacityBound
<1>3. CASE ~Ignored(n, f) /\ TrackPeer(n, f.id)
  <2>1. f # Malformed /\ f.id \in Ids
    BY <1>3 DEF Ignored, Frames
  <2>2. Cardinality(known[n]) <= MaxPeers
    BY DEF CapacityBound
  <2>3. /\ Cardinality(known'[n]) <= MaxPeers
        /\ \A m \in Nodes \ {n} : known'[m] = known[m]
    BY <1>3, <2>1, <2>2, TrackPeerBound
  <2>4. QED
    BY <2>3 DEF CapacityBound
<1>4. QED
  BY <1>2, <1>3 DEF HandlePeerMessage, LearnPeer

\* The inductive invariant for the bound: the type invariant and the bound.
CapInv == TypeInv /\ CapacityBound

LEMMA InitCapInv == Init => CapInv
<1>1. Init => CapacityBound
  BY FS_EmptySet, ConstantsAssumption DEF Init, CapacityBound
<1>2. QED
  BY <1>1, InitTypeInv DEF CapInv

LEMMA NextCapInv == CapInv /\ [Next]_vars => CapInv'
<1> SUFFICES ASSUME TypeInv, CapacityBound, [Next]_vars
             PROVE  TypeInv' /\ CapacityBound'
  BY DEF CapInv
<1>1. TypeInv'
  BY NextTypeOK
<1>2. TypeOK
  BY DEF TypeInv
<1>3. ASSUME NEW n \in Nodes, Receive(n) PROVE CapacityBound'
  <2>1. PICK f \in rcv[n] : HandlePeerMessage(n, f)
    BY <1>3 DEF Receive
  <2>2. f \in Frames
    BY <1>2 DEF TypeOK
  <2>3. QED
    BY <1>2, <2>1, <2>2, HandleBound
<1>4. ASSUME NEW n \in Nodes, Restart(n) PROVE CapacityBound'
  <2>1. known'[n] = {} /\ \A m \in Nodes \ {n} : known'[m] = known[m]
    BY <1>2, <1>4 DEF Restart, TypeOK
  <2>2. QED
    BY <2>1, FS_EmptySet, ConstantsAssumption DEF CapacityBound
<1>5. ASSUME NEW n \in Nodes,
             \/ EnterSlot(n) \/ AddAndBind(n) \/ EndListen(n) \/ ListenAborted(n)
             \/ Exit(n) \/ Stop(n) \/ Crash(n) \/ Rotate(n) \/ Inject(n)
      PROVE  CapacityBound'
  <2>1. UNCHANGED known
    BY <1>5 DEF EnterSlot, AddAndBind, EndListen, ListenAborted, Exit, Stop,
                Crash, Rotate, Inject, daemon
  <2>2. QED
    BY <2>1 DEF CapacityBound
<1>6. ASSUME Tick \/ Terminated \/ UNCHANGED vars PROVE CapacityBound'
  <2>1. UNCHANGED known
    BY <1>6 DEF Tick, Terminated, vars, daemon
  <2>2. QED
    BY <2>1 DEF CapacityBound
<1>7. CapacityBound'
  BY <1>3, <1>4, <1>5, <1>6 DEF Next, DaemonStep
<1>8. QED
  BY <1>1, <1>7

\* known_peers never holds more than max_peers node_ids, for every value of
\* the constants: the eviction in _handle_peer_message runs after the add.
THEOREM CapacityBounded == Spec => []CapacityBound
<1>1. Spec => []CapInv
  BY InitCapInv, NextCapInv, PTL DEF Spec
<1>2. QED
  BY <1>1, PTL DEF CapInv

=============================================================================
