-------------------------- MODULE ConfigLoad_proofs --------------------------
(***************************************************************************)
(* Proofs about the start-up of rendezvousd and rendezvous-client for      *)
(* every configuration file, of any length, over any value texts and any   *)
(* int() conversion.                                                       *)
(*                                                                         *)
(* SameSchedule is not inductive: it speaks of dconfig and cconfig only    *)
(* once both programs run, and says nothing of where the two dictionaries *)
(* came from.  The inductive invariant records that each was loaded from   *)
(* the one file and that a running program did not raise; the two loads   *)
(* then agree on the client's keys because the two copies of the defaults *)
(* agree there and a key's value depends only on the file's lines for it. *)
(***************************************************************************)
EXTENDS ConfigLoad, TLAPS

\* The daemon's dictionary came from load_config of the file, and a daemon
\* past main()'s checks did not raise while loading.
DaemonLoaded ==
    dphase # "init" =>
        /\ dconfig = DaemonLoadConfig(file)
        /\ dphase \in {"running", "scheduling"} => dconfig # ValueError

\* The same for the client.
ClientLoaded ==
    cphase # "init" =>
        /\ cconfig = ClientLoadConfig(file)
        /\ cphase = "running" => cconfig # ValueError

\* The inductive invariant for TypeOK and SameSchedule.
LoadedInv == TypeOK /\ DaemonLoaded /\ ClientLoaded

\* A load that did not raise is a dictionary with exactly the keys of the
\* defaults it started from: load_config never adds or drops a key.
LEMMA LoadDomain ==
  ASSUME NEW config, NEW f, LoadLines(config, f) # ValueError
  PROVE  /\ ~RaisesValueError(config, f)
         /\ DOMAIN LoadLines(config, f) = DOMAIN config
BY DEF LoadLines

\* The client's defaults are the daemon's on every key the client has.
LEMMA DefaultsAgree ==
  /\ DOMAIN ClientDefaults \subseteq DOMAIN DaemonDefaults
  /\ \A k \in DOMAIN ClientDefaults : ClientDefaults[k] = DaemonDefaults[k]
<1>1. DOMAIN ClientDefaults = {"mesh_secret", "epoch_seconds", "slots_per_epoch",
                               "interface", "descriptor_path"}
  BY DEF ClientDefaults
<1>2. DOMAIN DaemonDefaults = {"mesh_secret", "epoch_seconds", "slots_per_epoch",
                               "slot_duration_ms", "interface", "max_peers",
                               "peer_callback", "descriptor_path", "peers_dir"}
  BY DEF DaemonDefaults
<1>3. ASSUME NEW k \in DOMAIN ClientDefaults
      PROVE  ClientDefaults[k] = DaemonDefaults[k]
  <2>1. /\ ClientDefaults.mesh_secret = DaemonDefaults.mesh_secret
        /\ ClientDefaults.epoch_seconds = DaemonDefaults.epoch_seconds
        /\ ClientDefaults.slots_per_epoch = DaemonDefaults.slots_per_epoch
        /\ ClientDefaults.interface = DaemonDefaults.interface
        /\ ClientDefaults.descriptor_path = DaemonDefaults.descriptor_path
    BY DEF ClientDefaults, DaemonDefaults
  <2>. QED
    BY <1>1, <1>3, <2>1, Zenon
<1>. QED
  BY <1>1, <1>2, <1>3

\* When neither load raises, the two loops give each client key the same
\* value: the lines that set a key, and what they store, do not depend on
\* the dictionary the loop started from.
LEMMA LoadAgree ==
  ASSUME NEW f,
         LoadLines(DaemonDefaults, f) # ValueError,
         LoadLines(ClientDefaults, f) # ValueError,
         NEW k \in DOMAIN ClientDefaults
  PROVE  LoadLines(ClientDefaults, f)[k] = LoadLines(DaemonDefaults, f)[k]
<1>1. ~RaisesValueError(DaemonDefaults, f) /\ ~RaisesValueError(ClientDefaults, f)
  BY LoadDomain
<1>2. k \in DOMAIN DaemonDefaults /\ ClientDefaults[k] = DaemonDefaults[k]
  BY DefaultsAgree
<1>. QED
  BY <1>1, <1>2 DEF LoadLines

\* The client's load_config agrees with the daemon's on the client's keys
\* for every file, the missing one included, whenever neither raised.
LEMMA LoadConfigAgree ==
  ASSUME NEW f,
         DaemonLoadConfig(f) # ValueError,
         ClientLoadConfig(f) # ValueError,
         NEW k \in DOMAIN ClientDefaults
  PROVE  ClientLoadConfig(f)[k] = DaemonLoadConfig(f)[k]
<1>1. CASE f = Absent
  BY <1>1, DefaultsAgree DEF DaemonLoadConfig, ClientLoadConfig
<1>2. CASE f # Absent
  BY <1>2, LoadAgree DEF DaemonLoadConfig, ClientLoadConfig
<1>. QED
  BY <1>1, <1>2

\* What a load gives: ValueError or a dictionary with the defaults' keys.
LEMMA DaemonLoadType ==
  ASSUME NEW f
  PROVE  LET c == DaemonLoadConfig(f)
         IN  c = ValueError \/ DOMAIN c = DOMAIN DaemonDefaults
<1>1. CASE f = Absent
  BY <1>1 DEF DaemonLoadConfig
<1>2. CASE f # Absent /\ LoadLines(DaemonDefaults, f) # ValueError
  BY <1>2, LoadDomain DEF DaemonLoadConfig
<1>. QED
  BY <1>1, <1>2 DEF DaemonLoadConfig

LEMMA ClientLoadType ==
  ASSUME NEW f
  PROVE  LET c == ClientLoadConfig(f)
         IN  c = ValueError \/ DOMAIN c = DOMAIN ClientDefaults
<1>1. CASE f = Absent
  BY <1>1 DEF ClientLoadConfig
<1>2. CASE f # Absent /\ LoadLines(ClientDefaults, f) # ValueError
  BY <1>2, LoadDomain DEF ClientLoadConfig
<1>. QED
  BY <1>1, <1>2 DEF ClientLoadConfig

\* main() reaches the running state only with a dictionary that loaded.
LEMMA StartedPhase ==
  ASSUME NEW config
  PROVE  /\ Started(config) \in {"raised", "exited", "running"}
         /\ Started(config) = "running" => config # ValueError
BY DEF Started

LEMMA InitLoaded == Init => LoadedInv
BY DEF Init, LoadedInv, TypeOK, DaemonLoaded, ClientLoaded

LEMMA NextLoaded == LoadedInv /\ [Next]_vars => LoadedInv'
<1> SUFFICES ASSUME LoadedInv, [Next]_vars PROVE LoadedInv'
  OBVIOUS
<1> USE DEF LoadedInv, TypeOK
<1>1. ASSUME DaemonMain PROVE LoadedInv'
  <2>1. dconfig' = ValueError \/ DOMAIN dconfig' = DOMAIN DaemonDefaults
    BY <1>1, DaemonLoadType DEF DaemonMain
  <2>2. dphase' \in {"raised", "exited", "running"}
        /\ (dphase' = "running" => dconfig' # ValueError)
    BY <1>1, StartedPhase DEF DaemonMain
  <2>. QED
    BY <1>1, <2>1, <2>2 DEF DaemonMain, DaemonLoaded, ClientLoaded
<1>2. ASSUME DaemonFirstSlot PROVE LoadedInv'
  BY <1>2 DEF DaemonFirstSlot, DaemonLoaded, ClientLoaded
<1>3. ASSUME ClientMain PROVE LoadedInv'
  <2>1. cconfig' = ValueError \/ DOMAIN cconfig' = DOMAIN ClientDefaults
    BY <1>3, ClientLoadType DEF ClientMain
  <2>2. cphase' \in {"raised", "exited", "running"}
        /\ (cphase' = "running" => cconfig' # ValueError)
    BY <1>3, StartedPhase DEF ClientMain
  <2>. QED
    BY <1>3, <2>1, <2>2 DEF ClientMain, DaemonLoaded, ClientLoaded
<1>4. CASE UNCHANGED vars
  BY <1>4 DEF vars, DaemonLoaded, ClientLoaded
<1>. QED
  BY <1>1, <1>2, <1>3, <1>4 DEF Next

\* The inductive invariant gives SameSchedule in every state.
LEMMA LoadedSameSchedule == LoadedInv => SameSchedule
<1> SUFFICES ASSUME LoadedInv,
                    dphase \in {"running", "scheduling"}, cphase = "running",
                    NEW k \in DOMAIN ClientDefaults
             PROVE  cconfig[k] = dconfig[k]
  BY DEF SameSchedule
<1>1. dconfig = DaemonLoadConfig(file) /\ dconfig # ValueError
  BY DEF LoadedInv, DaemonLoaded
<1>2. cconfig = ClientLoadConfig(file) /\ cconfig # ValueError
  BY DEF LoadedInv, ClientLoaded
<1>. QED
  BY <1>1, <1>2, LoadConfigAgree

\* For every configuration file, of any number of lines, and every int():
\* load_config never gives either program a dictionary with a key its
\* defaults lack, whatever keys the file names.
THEOREM ConfigTypeCorrect == Spec => []TypeOK
<1>1. Spec => []LoadedInv
  BY InitLoaded, NextLoaded, PTL DEF Spec
<1>. QED
  BY <1>1, PTL DEF LoadedInv

\* For every configuration file: once rendezvousd runs and
\* rendezvous-client has started on the same host, every key the client
\* reads from its own load_config has the value the daemon loaded, so the
\* client computes the daemon's epoch and slot schedule.
THEOREM SameScheduleHolds == Spec => []SameSchedule
<1>1. Spec => []LoadedInv
  BY InitLoaded, NextLoaded, PTL DEF Spec
<1>. QED
  BY <1>1, LoadedSameSchedule, PTL

====
