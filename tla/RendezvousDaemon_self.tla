------------------------ MODULE RendezvousDaemon_self ------------------------
(***************************************************************************)
(* A daemon that has its node descriptor from the start never stores or    *)
(* announces itself as a peer.  This rests on the daemon keeping a         *)
(* non-empty descriptor (cached, loaded at start from disk, and disk, only *)
(* advanced by provisioning), since _handle_peer_message compares node_id  *)
(* with self.node_descriptor.get("node_id").  The frame lemmas about       *)
(* LearnPeer are used again in RendezvousDaemon_peers.                     *)
(***************************************************************************)
EXTENDS RendezvousDaemon_proofs

\* Every daemon has, and keeps, a descriptor in memory and on disk.
Provisioned == \A n \in Nodes : cached[n] # 0 /\ disk[n] # 0

SelfInv == TypeInv /\ Provisioned /\ NoSelfLoop

\* The steps other than Receive, Restart and Rotate leave the peer files,
\* the callbacks and the descriptors alone.
LEMMA OtherStepsUnchanged ==
  ASSUME NEW n \in Nodes,
         \/ EnterSlot(n) \/ AddAndBind(n) \/ EndListen(n) \/ ListenAborted(n)
         \/ Exit(n) \/ Stop(n) \/ Crash(n) \/ Inject(n) \/ Tick \/ Terminated
         \/ UNCHANGED vars
  PROVE  UNCHANGED <<descFile, cb, cached, disk>>
BY DEF EnterSlot, AddAndBind, EndListen, ListenAborted, Exit, Stop, Crash,
       Inject, Tick, Terminated, daemon, files, vars

\* A frame that _handle_peer_message does not drop, at a provisioned node,
\* carries the id of another node.
LEMMA NotIgnoredId ==
  ASSUME TypeOK, NEW n \in Nodes, NEW f \in Frames, cached[n] # 0,
         ~Ignored(n, f)
  PROVE  /\ f # Malformed
         /\ f.id \in Ids \ {n}
         /\ [desc |-> f.desc, sig |-> f.sig] \in PeerRecords
<1>1. f # Malformed
  BY DEF Ignored
<1>2. f \in [id : Ids \cup {NoId}, desc : 1..MaxVersion, sig : Sigs]
  BY <1>1 DEF Frames
<1>3. f.id \notin {NoId, n}
  BY <1>1 DEF Ignored, OwnId
<1>. QED
  BY <1>1, <1>2, <1>3 DEF PeerRecords

\* LearnPeer writes a file for the frame's id, possibly announces it, and
\* touches no other file or callback count.
LEMMA LearnPeerFrame ==
  ASSUME TypeOK, NEW n \in Nodes, NEW f \in Frames, f # Malformed, f.id \in Ids,
         LearnPeer(n, f)
  PROVE  /\ \A m \in Nodes, i \in Ids :
               (m # n \/ i # f.id) => /\ descFile'[m][i] = descFile[m][i]
                                      /\ cb'[m][i] = cb[m][i]
         /\ descFile'[n][f.id] # None
         /\ cb'[n][f.id] = cb[n][f.id] \/ cb'[n][f.id] \in 1..2
<1>1. [desc |-> f.desc, sig |-> f.sig] # None
  BY SentinelsAssumption DEF Frames, PeerRecords
<1>2. CASE /\ descFile' = [descFile EXCEPT ![n][f.id] = [desc |-> f.desc, sig |-> f.sig]]
           /\ CountCallback(n, f.id)
  <2>1. cb[n][f.id] \in 0..2
    BY DEF TypeOK
  <2>. QED
    BY <1>1, <1>2, <2>1 DEF CountCallback, TypeOK
<1>3. CASE /\ descFile' = [descFile EXCEPT ![n][f.id] = Torn]
           /\ UNCHANGED cb
  BY <1>3, SentinelsAssumption DEF TypeOK
<1>4. CASE /\ descFile' = [descFile EXCEPT ![n][f.id] = [desc |-> f.desc, sig |-> f.sig]]
           /\ UNCHANGED cb
  BY <1>1, <1>4 DEF TypeOK
<1>. QED
  BY <1>2, <1>3, <1>4 DEF LearnPeer

-----------------------------------------------------------------------------
(* No self-loop.                                                           *)

LEMMA InitSelfInv == 0 \notin InitVersions /\ Init => SelfInv
<1> SUFFICES ASSUME 0 \notin InitVersions, Init PROVE SelfInv
  OBVIOUS
<1>1. TypeInv
  BY InitTypeInv
<1>2. Provisioned
  BY DEF Init, Provisioned
<1>3. NoSelfLoop
  BY DEF Init, NoSelfLoop, Ids
<1>. QED
  BY <1>1, <1>2, <1>3 DEF SelfInv

LEMMA NextSelfInv == SelfInv /\ [Next]_vars => SelfInv'
<1> SUFFICES ASSUME SelfInv, [Next]_vars PROVE SelfInv'
  OBVIOUS
<1> USE ConstantsAssumption
<1>0. TypeOK /\ TypeInv'
  BY NextTypeOK DEF SelfInv, TypeInv
<1>1. ASSUME NEW n \in Nodes, Receive(n) PROVE Provisioned' /\ NoSelfLoop'
  <2>1. PICK f \in rcv[n] : HandlePeerMessage(n, f)
    BY <1>1 DEF Receive
  <2>2. f \in Frames /\ cached[n] # 0
    BY <1>0 DEF TypeOK, SelfInv, Provisioned
  <2>3. Provisioned'
    BY <1>1 DEF Receive, Provisioned, SelfInv
  <2>4. CASE Ignored(n, f)
    <3>1. descFile' = descFile /\ cb' = cb
      BY <2>1, <2>4 DEF HandlePeerMessage
    <3>. QED
      BY <2>3, <3>1 DEF NoSelfLoop, SelfInv
  <2>5. CASE ~Ignored(n, f)
    <3>1. f # Malformed /\ f.id \in Ids \ {n}
      BY <2>2, <2>5, <1>0, NotIgnoredId
    <3>2. LearnPeer(n, f)
      BY <2>1, <2>5 DEF HandlePeerMessage
    <3>3. \A m \in Nodes : descFile'[m][m] = descFile[m][m] /\ cb'[m][m] = cb[m][m]
      BY <3>1, <3>2, <2>2, <1>0, LearnPeerFrame DEF Ids
    <3>. QED
      BY <2>3, <3>3 DEF NoSelfLoop, SelfInv
  <2>. QED
    BY <2>3, <2>4, <2>5
<1>2. ASSUME NEW n \in Nodes, Restart(n) PROVE Provisioned' /\ NoSelfLoop'
  <2>1. Provisioned'
    BY <1>2, <1>0 DEF Restart, Provisioned, SelfInv, TypeOK
  <2>2. NoSelfLoop'
    <3>1. cb \in [Nodes -> [Ids -> 0..2]] /\ Nodes \subseteq Ids
      BY <1>0 DEF TypeOK, Ids
    <3>2. cb' = [cb EXCEPT ![n] = [i \in Ids |-> 0]] /\ descFile' = descFile
      BY <1>2 DEF Restart, files
    <3>3. \A m \in Nodes : cb'[m][m] = IF m = n THEN 0 ELSE cb[m][m]
      BY <3>1, <3>2
    <3>. QED
      BY <3>2, <3>3 DEF NoSelfLoop, SelfInv
  <2>. QED
    BY <2>1, <2>2
<1>3. ASSUME NEW n \in Nodes, Rotate(n) PROVE Provisioned' /\ NoSelfLoop'
  BY <1>3, <1>0 DEF Rotate, Provisioned, NoSelfLoop, SelfInv, TypeOK, daemon, files
<1>4. ASSUME NEW n \in Nodes,
             \/ EnterSlot(n) \/ AddAndBind(n) \/ EndListen(n) \/ ListenAborted(n)
             \/ Exit(n) \/ Stop(n) \/ Crash(n) \/ Inject(n) \/ Tick \/ Terminated
             \/ UNCHANGED vars
      PROVE  Provisioned' /\ NoSelfLoop'
  BY <1>4, OtherStepsUnchanged DEF Provisioned, NoSelfLoop, SelfInv
<1>5. ASSUME Tick \/ Terminated \/ UNCHANGED vars PROVE Provisioned' /\ NoSelfLoop'
  <2>1. UNCHANGED <<descFile, cb, cached, disk>>
    BY <1>5 DEF Tick, Terminated, vars, daemon, files
  <2>. QED
    BY <2>1 DEF Provisioned, NoSelfLoop, SelfInv
<1>6. Provisioned' /\ NoSelfLoop'
  <2>1. ASSUME NEW n \in Nodes,
               \/ DaemonStep(n) \/ Stop(n) \/ Crash(n)
               \/ Restart(n) \/ Rotate(n) \/ Inject(n)
        PROVE  Provisioned' /\ NoSelfLoop'
    BY <2>1, <1>1, <1>2, <1>3, <1>4 DEF DaemonStep
  <2>. QED
    BY <2>1, <1>5 DEF Next
<1>. QED
  BY <1>0, <1>6 DEF SelfInv

\* With every node provisioned at start (node_descriptor is not {}), no
\* daemon ever writes a peer file for, or runs the peer callback on, its
\* own node_id: the self check of _handle_peer_message always applies.
THEOREM SelfNeverLearned == 0 \notin InitVersions => (Spec => []NoSelfLoop)
<1> SUFFICES ASSUME 0 \notin InitVersions PROVE Spec => []NoSelfLoop
  OBVIOUS
<1>1. Spec => []SelfInv
  BY InitSelfInv, NextSelfInv, PTL DEF Spec
<1>. QED
  BY <1>1, PTL DEF SelfInv

====
