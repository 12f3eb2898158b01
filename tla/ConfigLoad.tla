------------------------------ MODULE ConfigLoad ------------------------------
(***************************************************************************)
(* Configuration loading and process start of rendezvousd and              *)
(* rendezvous-client.  Both programs read the same key = value file with   *)
(* their own copy of load_config (rendezvousd.py 363-384,                  *)
(* rendezvous-client.py 27-52): blank lines, comments and lines without    *)
(* "=" are skipped, unknown keys are ignored, a key whose current value is *)
(* an int is converted with int() (ValueError is not caught), any other    *)
(* value is kept as text.  main() then refuses an empty mesh_secret; the   *)
(* daemon's first run() iteration divides by epoch_seconds and by          *)
(* slots_per_epoch.                                                        *)
(*                                                                         *)
(* A line is abstracted to its kind (blank, comment, no "=", key = value)  *)
(* and, for the last, its key and its value text after strip() and the     *)
(* removal of surrounding quotes.                                          *)
(*                                                                         *)
(* The loop of load_config is stated by its result, LoadLines: the default *)
(* of each key, overwritten by the last line that sets it, unless int()    *)
(* raises on one of those lines.  MC_ConfigLoad checks, over every file    *)
(* within the bound, that this is what iterating ParseLine over the lines  *)
(* computes.                                                               *)
(***************************************************************************)
EXTENDS Integers, Sequences

CONSTANTS
    Values,      \* value texts that occur in files
    IntOf,       \* int(): the texts it accepts, mapped to their value
    MaxLines,    \* bound on the lines of a file
    Absent,      \* no file at config_path
    ValueError   \* int() raised while loading

ASSUME ConfigAssumption ==
    /\ DOMAIN IntOf \subseteq Values
    /\ \A v \in DOMAIN IntOf : IntOf[v] \in Int
    /\ MaxLines \in Nat

\* DEFAULT_CONFIG of rendezvousd.py.
DaemonDefaults ==
    [mesh_secret |-> "", epoch_seconds |-> 60, slots_per_epoch |-> 4,
     slot_duration_ms |-> 500, interface |-> "eth0", max_peers |-> 64,
     peer_callback |-> "/usr/local/bin/apply-peers.sh add",
     descriptor_path |-> "/etc/infrasim/node-descriptor.json",
     peers_dir |-> "/var/lib/infrasim/peer-descriptors"]

\* Mutant: the client's copy of the defaults drifts from the daemon's.
ClientDefaultsDrift ==
    [mesh_secret |-> "", epoch_seconds |-> 60, slots_per_epoch |-> 6,
     interface |-> "eth0",
     descriptor_path |-> "/etc/infrasim/node-descriptor.json"]

\* The defaults of rendezvous-client.py's load_config.
ClientDefaults ==
    [mesh_secret |-> "", epoch_seconds |-> 60, slots_per_epoch |-> 4,
     interface |-> "eth0",
     descriptor_path |-> "/etc/infrasim/node-descriptor.json"]

\* Keys whose default is an int: isinstance(config[key], int) holds for them
\* after every assignment too, since their values are converted.
IntKeys == {"epoch_seconds", "slots_per_epoch", "slot_duration_ms", "max_peers"}

Keys == DOMAIN DaemonDefaults \cup {"other"}

Lines ==
    [kind : {"blank", "comment", "noeq"}, key : {""}, text : {""}]
        \cup [kind : {"kv"}, key : Keys, text : Values]

Files == {Absent} \cup UNION {[1..n -> Lines] : n \in 0..MaxLines}

\* One iteration of load_config's loop.
ParseLine(config, line) ==
    IF config = ValueError \/ line.kind # "kv"
    THEN config
    ELSE IF line.key \notin DOMAIN config
    THEN config
    ELSE IF line.key \notin IntKeys
    THEN [config EXCEPT ![line.key] = line.text]
    ELSE IF line.text \in DOMAIN IntOf
    THEN [config EXCEPT ![line.key] = IntOf[line.text]]
    ELSE ValueError

\* The lines of f that set key k: "key = value" lines with that key.
Assigning(f, k) == {i \in DOMAIN f : f[i].kind = "kv" /\ f[i].key = k}

\* The last of them: later iterations overwrite config[key].
LastAssigning(f, k) ==
    CHOOSE i \in Assigning(f, k) : \A j \in Assigning(f, k) : j <= i

\* int(value) raises on some line that sets a key of config whose value is
\* an int; the ValueError leaves the loop, whatever lines follow.
RaisesValueError(config, f) ==
    \E i \in DOMAIN f :
        /\ f[i].kind = "kv"
        /\ f[i].key \in DOMAIN config \cap IntKeys
        /\ f[i].text \notin DOMAIN IntOf

\* What config[key] = value stores: int(value) for an int key.
Converted(k, text) == IF k \in IntKeys THEN IntOf[text] ELSE text

\* The loop of load_config over the lines of f, from the dictionary config:
\* no key is added; a key keeps its value unless a line sets it, and then
\* ends with the value of the last such line.
LoadLines(config, f) ==
    IF RaisesValueError(config, f) THEN ValueError
    ELSE [k \in DOMAIN config |->
            IF Assigning(f, k) = {} THEN config[k]
            ELSE Converted(k, f[LastAssigning(f, k)].text)]

\* Mutant: the daemon's "if key in config" test is dropped, so unknown keys
\* of the file are added to the dictionary.
DaemonLoadConfigAnyKey(f) ==
    IF f = Absent THEN DaemonDefaults
    ELSE IF RaisesValueError(DaemonDefaults, f) THEN ValueError
    ELSE [k \in DOMAIN DaemonDefaults \cup {f[i].key : i \in {j \in DOMAIN f : f[j].kind = "kv"}} |->
            IF Assigning(f, k) = {} THEN DaemonDefaults[k]
            ELSE Converted(k, f[LastAssigning(f, k)].text)]

\* load_config of rendezvousd.py: DEFAULT_CONFIG, then every line of the
\* file if it exists.
DaemonLoadConfig(f) ==
    IF f = Absent THEN DaemonDefaults ELSE LoadLines(DaemonDefaults, f)

\* load_config of rendezvous-client.py: the same loop over its own defaults.
ClientLoadConfig(f) ==
    IF f = Absent THEN ClientDefaults ELSE LoadLines(ClientDefaults, f)

VARIABLES
    file,     \* contents of the configuration file
    dphase,   \* rendezvousd: "init", "exited" (status 1), "raised" (an
              \* uncaught exception), "running", "scheduling"
    dconfig,  \* the daemon's config once loaded
    cphase,   \* rendezvous-client: "init", "exited", "raised", "running"
    cconfig   \* the client's config once loaded

vars == <<file, dphase, dconfig, cphase, cconfig>>

TypeOK ==
    /\ file \in Files
    /\ dphase \in {"init", "exited", "raised", "running", "scheduling"}
    /\ cphase \in {"init", "exited", "raised", "running"}
    /\ dconfig = ValueError \/ DOMAIN dconfig = DOMAIN DaemonDefaults
    /\ cconfig = ValueError \/ DOMAIN cconfig = DOMAIN ClientDefaults

Init ==
    /\ file \in Files
    /\ dphase = "init" /\ cphase = "init"
    /\ dconfig = ValueError /\ cconfig = ValueError

\* The result of main()'s load_config and mesh_secret check.
Started(config) ==
    IF config = ValueError THEN "raised"
    ELSE IF config.mesh_secret = "" THEN "exited"
    ELSE "running"

\* rendezvousd main(): load_config, refuse an empty mesh_secret, construct
\* the daemon.
DaemonMain ==
    /\ dphase = "init"
    /\ dconfig' = DaemonLoadConfig(file)
    /\ dphase' = Started(dconfig')
    /\ UNCHANGED <<file, cphase, cconfig>>

\* The first iteration of run(): _get_epoch_slot divides by epoch_seconds
\* and by slots_per_epoch; ZeroDivisionError leaves run() and main().
DaemonFirstSlot ==
    /\ dphase = "running"
    /\ dphase' = IF 0 \in {dconfig.epoch_seconds, dconfig.slots_per_epoch}
                 THEN "raised" ELSE "scheduling"
    /\ UNCHANGED <<file, dconfig, cphase, cconfig>>

\* rendezvous-client main(): load_config and refuse an empty mesh_secret.
ClientMain ==
    /\ cphase = "init"
    /\ cconfig' = ClientLoadConfig(file)
    /\ cphase' = Started(cconfig')
    /\ UNCHANGED <<file, dphase, dconfig>>

Next == DaemonMain \/ DaemonFirstSlot \/ ClientMain

Spec == Init /\ [][Next]_vars

-----------------------------------------------------------------------------

\* A client that starts on the daemon's host derives the daemon's schedule:
\* both copies of load_config give every key the client reads the value
\* the daemon has (the two dictionaries of defaults are kept in step).
SameSchedule ==
    dphase \in {"running", "scheduling"} /\ cphase = "running" =>
        \A k \in DOMAIN ClientDefaults : cconfig[k] = dconfig[k]

\* Spec section 3: a daemon runs only with positive epoch_seconds and
\* slots_per_epoch and with slot_duration_ms positive and at most a slot
\* long; anything else is a fatal ConfigError at startup.
ConfigValidated ==
    dphase \in {"running", "scheduling"} =>
        /\ dconfig.epoch_seconds > 0
        /\ dconfig.slots_per_epoch > 0
        /\ dconfig.slot_duration_ms > 0
        /\ dconfig.slot_duration_ms * dconfig.slots_per_epoch
               <= dconfig.epoch_seconds * 1000

=============================================================================
