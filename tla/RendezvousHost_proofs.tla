------------------------ MODULE RendezvousHost_proofs ------------------------
(***************************************************************************)
(* show_status computes the upcoming slots by hand: slot + i, wrapped once *)
(* into the next epoch.  That agrees with _get_epoch_slot of the later     *)
(* clock exactly when an epoch has at least three slots, the most status   *)
(* looks ahead; run status_upcoming_wrap shows the disagreement with two.  *)
(***************************************************************************)
EXTENDS RendezvousHost, RendezvousDaemon_proofs, TLAPS

\* Integer division by a positive divisor is determined by quotient and
\* remainder.
LEMMA DivModUnique ==
  ASSUME NEW S \in Nat \ {0}, NEW q \in Nat, NEW r \in 0..(S - 1)
  PROVE  /\ (q * S + r) \div S = q
         /\ (q * S + r) % S = r
BY SMT

LEMMA DivModSplit ==
  ASSUME NEW S \in Nat \ {0}, NEW t \in Nat
  PROVE  /\ t = (t \div S) * S + (t % S)
         /\ t % S \in 0..(S - 1)
         /\ t \div S \in Nat
BY SMT

\* StatusUpcomingMatches at clock t.
UpcomingRightAt(t) == \A i \in 1..3 : Upcoming(Key(t), i) = Key(t + i)

\* With at least three slots per epoch, every key status prints as upcoming
\* is the key the daemons will derive when the clock gets there.
LEMMA UpcomingRightWide ==
  ASSUME SlotsPerEpoch \in Nat, SlotsPerEpoch >= 3, NEW t \in Nat
  PROVE  UpcomingRightAt(t)
<1> DEFINE S == SlotsPerEpoch
           q == t \div S
           r == t % S
<1>1. S \in Nat \ {0} /\ t = q * S + r /\ r \in 0..(S - 1) /\ q \in Nat
  BY DivModSplit
<1>2. SUFFICES ASSUME NEW i \in 1..3
               PROVE  Upcoming(<<q, r>>, i) = Key(t + i)
  BY DEF UpcomingRightAt, Key
<1>3. CASE r + i < S
  <2>1. r + i \in 0..(S - 1) /\ t + i = q * S + (r + i) /\ r + i = 0 * S + (r + i)
    BY <1>1, <1>3
  <2>2. (q * S + (r + i)) \div S = q /\ (q * S + (r + i)) % S = r + i
    BY <1>1, <2>1, DivModUnique
  <2>3. (0 * S + (r + i)) % S = r + i
    BY <1>1, <2>1, DivModUnique
  <2>. QED
    BY <1>3, <2>1, <2>2, <2>3 DEF Upcoming, Key
<1>4. CASE ~(r + i < S)
  <2>1. /\ r + i - S \in 0..(S - 1)
        /\ t + i = (q + 1) * S + (r + i - S)
        /\ r + i = 1 * S + (r + i - S)
        /\ q + 1 \in Nat
    BY <1>1, <1>4
  <2>2. /\ ((q + 1) * S + (r + i - S)) \div S = q + 1
        /\ ((q + 1) * S + (r + i - S)) % S = r + i - S
    BY <1>1, <2>1, DivModUnique
  <2>3. (1 * S + (r + i - S)) % S = r + i - S
    BY <1>1, <2>1, DivModUnique
  <2>. QED
    BY <1>4, <2>1, <2>2, <2>3 DEF Upcoming, Key
<1>. QED
  BY <1>3, <1>4

\* With one or two slots per epoch, status is wrong at the last slot of
\* the first epoch: three slots on lies two epochs ahead, and the single
\* wrap of show_status names the next epoch.
LEMMA UpcomingWrongNarrow ==
  ASSUME SlotsPerEpoch \in {1, 2}
  PROVE  ~UpcomingRightAt(SlotsPerEpoch - 1)
<1>1. CASE SlotsPerEpoch = 1
  <2>1. Upcoming(Key(0), 3) = <<1, 0>> /\ Key(0 + 3) = <<3, 0>>
    BY <1>1 DEF Upcoming, Key
  <2>. QED
    BY <1>1, <2>1 DEF UpcomingRightAt
<1>2. CASE SlotsPerEpoch = 2
  <2>1. Upcoming(Key(1), 3) = <<1, 0>> /\ Key(1 + 3) = <<2, 0>>
    BY <1>2 DEF Upcoming, Key
  <2>. QED
    BY <1>2, <2>1 DEF UpcomingRightAt
<1>. QED
  BY <1>1, <1>2

\* For every slots_per_epoch load_config can give the daemon (any positive
\* integer): show_status prints the right upcoming (epoch, slot) keys at
\* every clock value exactly when an epoch has at least three slots.  Run
\* status_upcoming_wrap shows the failure with two slots.
THEOREM StatusUpcomingExact ==
  (\A t \in Nat : UpcomingRightAt(t)) <=> SlotsPerEpoch >= 3
<1>1. SlotsPerEpoch \in Nat \ {0}
  BY ConstantsAssumption
<1>2. CASE SlotsPerEpoch >= 3
  BY <1>1, <1>2, UpcomingRightWide
<1>3. CASE SlotsPerEpoch \in {1, 2}
  <2>1. SlotsPerEpoch - 1 \in Nat /\ ~(SlotsPerEpoch >= 3)
    BY <1>3
  <2>. QED
    BY <1>3, <2>1, UpcomingWrongNarrow
<1>. QED
  BY <1>1, <1>2, <1>3

-----------------------------------------------------------------------------
(* Type correctness of the composition of rendezvousd and                  *)
(* rendezvous-client.  The daemon's part rests on NextTypeOK; a client     *)
(* step only touches the shared interface and receive buffers besides its  *)
(* own variables, and leaves every daemon's pc and cur alone.              *)

\* The inductive form of HostTypeOK.
HostInv == HostTypeOK /\ CurKey

\* broadcast_descriptor only sends when a descriptor is on disk, and what
\* it reads then is a frame.
LEMMA DiskFrameType ==
  ASSUME TypeOK, NEW c \in ClientNodes, disk[c] # 0
  PROVE  DiskFrame(c) \in Frames
BY HostAssumption, ConstantsAssumption DEF TypeOK, DiskFrame, Frames, Sigs, Ids

\* The client's datagram keeps every receive buffer a set of frames.
LEMMA ClientSendType ==
  ASSUME TypeOK, NEW c \in ClientNodes, NEW k, NEW f \in Frames, ClientSend(c, k, f)
  PROVE  rcv' \in [Nodes -> SUBSET Frames]
BY DEF ClientSend, TypeOK

LEMMA HostInitInv == HostInit => HostInv
<1> SUFFICES ASSUME HostInit PROVE HostInv
  OBVIOUS
<1>1. TypeInv
  BY InitTypeInv DEF HostInit
<1>. QED
  BY <1>1, HostAssumption DEF HostInit, HostInv, HostTypeOK, TypeInv

\* One client step keeps HostInv.
LEMMA ClientStepInv ==
  ASSUME HostInv, NEW c \in ClientNodes, ClientStep(c)
  PROVE  HostInv'
<1> USE DEF HostInv, HostTypeOK
<1>0. c \in Nodes /\ now \in 0..MaxTime
  BY HostAssumption DEF TypeOK
<1> DEFINE Cl == /\ cpc' \in [ClientNodes -> {"off", "cast", "disc", "recv", "rm"}]
                 /\ ckey' \in [ClientNodes -> Keys \cup {None}]
                 /\ found' \in [ClientNodes -> Seq(Ids \cup {NoId})]
                 /\ cruns' \in 0..MaxClientRuns
<1>1. UNCHANGED <<now, daemon, files, disk, restarts>>
  BY DEF ClientStep, ClientRunStep, ClientStart, ClientCast, ClientBind, ClientRecv,
         ClientEndDiscover, ClientRemove, vars, daemon, files
<1>2. /\ rcv' \in [Nodes -> SUBSET Frames]
      /\ iface' \in [Nodes -> SUBSET Keys]
      /\ Cl
  <2>2. CASE ClientStart(c)
    <3>1. Key(now) \in Keys
      BY <1>0, KeyType
    <3>2. /\ cruns' \in 0..MaxClientRuns
          /\ ckey' \in [ClientNodes -> Keys \cup {None}]
          /\ found' \in [ClientNodes -> Seq(Ids \cup {NoId})]
          /\ rcv' = rcv
      BY <2>2, <3>1, HostAssumption DEF ClientStart, TypeOK
    <3>3. CASE "add" \in Faults /\ UNCHANGED <<cpc, iface>>
      BY <3>2, <3>3 DEF TypeOK
    <3>4. CASE /\ ClientAddAddress(c)
               /\ \E cmd \in {"cast", "disc"} : cpc' = [cpc EXCEPT ![c] = cmd]
      <4>1. iface' \in [Nodes -> SUBSET Keys]
        BY <1>0, <3>1, <3>4 DEF ClientAddAddress, TypeOK
      <4>. QED
        BY <3>2, <3>4, <4>1 DEF TypeOK
    <3>. QED
      BY <2>2, <3>3, <3>4 DEF ClientStart
  <2>3. CASE ClientCast(c)
    <3>1. rcv' \in [Nodes -> SUBSET Frames]
      <4>1. CASE disk[c] = 0
        BY <2>3, <4>1 DEF ClientCast, TypeOK
      <4>2. CASE disk[c] # 0
        BY <2>3, <4>2, DiskFrameType, ClientSendType DEF ClientCast, TypeOK
      <4>. QED
        BY <4>1, <4>2
    <3>. QED
      BY <2>3, <3>1 DEF ClientCast, TypeOK
  <2>4. CASE ClientBind(c)
    BY <2>4 DEF ClientBind, TypeOK, vars
  <2>5. CASE ClientRecv(c)
    <3>0. UNCHANGED <<rcv, iface, ckey, cruns>>
      BY <2>5 DEF ClientRecv, vars
    <3>1. PICK f \in CEnvFrames \cup {Undecodable} :
            \/ f = Malformed /\ UNCHANGED <<cpc, found>>
            \/ f = Undecodable /\ cpc' = [cpc EXCEPT ![c] = "rm"] /\ UNCHANGED found
            \/ /\ f \notin {Malformed, Undecodable}
               /\ found' = [found EXCEPT ![c] = Append(@, f.id)]
               /\ UNCHANGED cpc
      BY <2>5 DEF ClientRecv
    <3>2. CASE f = Malformed /\ UNCHANGED <<cpc, found>>
      BY <3>0, <3>2 DEF TypeOK
    <3>3. CASE f = Undecodable /\ cpc' = [cpc EXCEPT ![c] = "rm"] /\ UNCHANGED found
      BY <3>0, <3>3 DEF TypeOK
    <3>4. CASE /\ f \notin {Malformed, Undecodable}
               /\ found' = [found EXCEPT ![c] = Append(@, f.id)]
               /\ UNCHANGED cpc
      <4>1. f.id \in Ids \cup {NoId}
        BY <3>4, HostAssumption DEF Frames
      <4>2. Append(found[c], f.id) \in Seq(Ids \cup {NoId})
        BY <4>1
      <4>. QED
        BY <3>0, <3>4, <4>2 DEF TypeOK
    <3>. QED
      BY <3>1, <3>2, <3>3, <3>4
  <2>6. CASE ClientEndDiscover(c)
    BY <2>6 DEF ClientEndDiscover, TypeOK, vars
  <2>7. CASE ClientRemove(c)
    <3>1. iface' \in [Nodes -> SUBSET Keys]
      <4>1. CASE ClientRemoveAddress(c)
        BY <1>0, <4>1 DEF ClientRemoveAddress, TypeOK
      <4>2. CASE UNCHANGED iface
        BY <4>2 DEF TypeOK
      <4>. QED
        BY <2>7, <4>1, <4>2 DEF ClientRemove
    <3>. QED
      BY <2>7, <3>1 DEF ClientRemove, TypeOK
  <2>. QED
    BY <2>2, <2>3, <2>4, <2>5, <2>6, <2>7 DEF ClientStep, ClientRunStep
<1>. QED
  BY <1>1, <1>2 DEF TypeOK, CurKey, daemon, files

LEMMA HostNextInv == HostInv /\ [HostNext]_hvars => HostInv'
<1> SUFFICES ASSUME HostInv, [HostNext]_hvars PROVE HostInv'
  OBVIOUS
<1>1. CASE Next /\ UNCHANGED client
  <2>1. TypeInv'
    BY <1>1, NextTypeOK DEF HostInv, HostTypeOK, TypeInv
  <2>. QED
    BY <1>1, <2>1 DEF HostInv, HostTypeOK, TypeInv, client
<1>2. CASE \E c \in ClientNodes : ClientStep(c)
  BY <1>2, ClientStepInv
<1>3. CASE UNCHANGED hvars
  <2>1. TypeInv'
    BY <1>3, NextTypeOK DEF HostInv, HostTypeOK, TypeInv, hvars
  <2>. QED
    BY <1>3, <2>1 DEF HostInv, HostTypeOK, TypeInv, hvars, client
<1>. QED
  BY <1>1, <1>2, <1>3 DEF HostNext

\* Whatever the clients on the hosts do between the daemons' steps, every
\* variable of the composition keeps its type: in particular a client only
\* sends a frame when a descriptor is on disk, and only appends node ids.
THEOREM HostTypeCorrect == HostSpec => []HostTypeOK
<1>1. HostSpec => []HostInv
  BY HostInitInv, HostNextInv, PTL DEF HostSpec
<1>. QED
  BY <1>1, PTL DEF HostInv

====
