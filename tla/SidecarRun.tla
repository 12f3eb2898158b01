------------------------------ MODULE SidecarRun ------------------------------
(***************************************************************************)
(* The sidecar-control appliance tests a target VM and signs the verdict.  *)
(* run-tests.py waits for SSH, runs six core checks over SSH, lists the    *)
(* target's selftest modules with "ls", runs each one and writes           *)
(* test-results.json with "passed" = every result passed.                  *)
(* generate-attestation.py, invoked separately, signs whatever             *)
(* test-results.json holds.                                                *)
(*                                                                         *)
(* Every ssh.run may time out (SSHConnection.run returns -1), the fault    *)
(* "timeout".  The target is fixed for a behaviour: whether each core      *)
(* check holds, which selftest modules are installed and what each one     *)
(* reports.  A result is abstracted to the item it is about and its        *)
(* "passed" flag; messages and timings are left out.                       *)
(***************************************************************************)
EXTENDS Naturals, FiniteSets

CONSTANTS
    Checks,    \* the core checks of run_all: boot, cloud_init, ...
    Modules,   \* selftest module files that may be installed
    Builtin,   \* the placeholder result "builtin_selftests"
    MaxRuns,   \* bound on run-tests.py invocations
    Faults,    \* subset of {"timeout", "nossh"}
    None

ASSUME SidecarAssumption ==
    /\ Builtin \notin Checks \cup Modules
    /\ MaxRuns \in Nat
    /\ Faults \subseteq {"timeout", "nossh"}

\* What a selftest module does when run: all its tests pass, one fails, it
\* prints {"tests": []}, or it exits non-zero or prints invalid JSON.
Outcomes == {"pass", "fail", "empty", "crash"}

Items == Checks \cup Modules \cup {Builtin}

Result == [item : Items, passed : BOOLEAN]

VARIABLES
    healthy,    \* target: which core checks hold
    installed,  \* target: installed selftest modules
    outcome,    \* target: what each module reports
    pc,         \* run-tests.py: "idle", "wait", "core", "ls", "mods"
    results,    \* TestRunner.results of the current invocation
    pending,    \* modules listed by "ls" and not yet run
    runs,       \* invocations so far
    file,       \* test-results.json: None or its passed flag and items
    att         \* the last attestation: None or what it signed

vars == <<healthy, installed, outcome, pc, results, pending, runs, file, att>>

Saved == [passed : BOOLEAN, items : SUBSET Items, run : 1..MaxRuns]

TypeOK ==
    /\ healthy \in [Checks -> BOOLEAN]
    /\ installed \subseteq Modules
    /\ outcome \in [Modules -> Outcomes]
    /\ pc \in {"idle", "wait", "core", "ls", "mods"}
    /\ results \subseteq Result
    /\ pending \subseteq installed
    /\ runs \in 0..MaxRuns
    /\ file \in Saved \cup {None}
    /\ att \in Saved \cup {None}

Init ==
    /\ healthy \in [Checks -> BOOLEAN]
    /\ installed \in SUBSET Modules
    /\ outcome \in [Modules -> Outcomes]
    /\ pc = "idle" /\ results = {} /\ pending = {} /\ runs = 0
    /\ file = None /\ att = None

target == <<healthy, installed, outcome>>

-----------------------------------------------------------------------------

\* SSHConnection.run: the commands among S whose ssh call may time out
\* (TimeoutExpired, or another exception, gives code -1).
TimedOut(S) == IF "timeout" \in Faults THEN SUBSET S ELSE {{}}

\* main(): a new invocation; TestRunner starts with no results.
Start ==
    /\ pc = "idle"
    /\ runs < MaxRuns
    /\ runs' = runs + 1
    /\ pc' = "wait"
    /\ results' = {}
    /\ UNCHANGED <<target, pending, file, att>>

\* wait_for_ssh: "echo ok" answers within --wait seconds, or main() exits
\* with status 1 and writes nothing.
WaitForSsh ==
    /\ pc = "wait"
    /\ \/ pc' = "core"
       \/ /\ "nossh" \in Faults
          /\ pc' = "idle"
    /\ UNCHANGED <<target, results, pending, runs, file, att>>

\* Mutant: a core check that timed out is recorded as passed.
CoreTestsTimeoutPasses ==
    /\ pc = "core"
    /\ pc' = "ls"
    /\ \E late \in TimedOut(Checks) :
          results' = results \cup
              {[item |-> c, passed |-> healthy[c] \/ c \in late] : c \in Checks}
    /\ UNCHANGED <<target, pending, runs, file, att>>

\* The six core checks of run_all, in turn: each passes when its command
\* exits 0 and its output shows the property; a timed-out command
\* (code -1) fails it.
CoreTests ==
    /\ pc = "core"
    /\ pc' = "ls"
    /\ \E late \in TimedOut(Checks) :
          results' = results \cup
              {[item |-> c, passed |-> healthy[c] /\ c \notin late] : c \in Checks}
    /\ UNCHANGED <<target, pending, runs, file, att>>

\* Mutant: every known module is run, whatever "ls" listed.
ListSelftestsAll ==
    /\ pc = "ls"
    /\ pc' = "mods"
    /\ pending' = Modules
    /\ UNCHANGED <<target, results, runs, file, att>>

\* run_builtin_selftests: "ls" of the selftest directory.  A non-zero code
\* (no module installed, or a timeout) yields the single result
\* "No selftest modules found" with passed True; otherwise every listed
\* module is to be run.
ListSelftests ==
    /\ pc = "ls"
    /\ pc' = "mods"
    /\ \/ /\ installed = {} \/ TimedOut({Builtin}) # {{}}
          /\ results' = results \cup {[item |-> Builtin, passed |-> TRUE]}
          /\ pending' = {}
       \/ /\ installed # {}
          /\ pending' = installed
          /\ UNCHANGED results
    /\ UNCHANGED <<target, runs, file, att>>

\* "python3 <module>": its tests are appended with their own passed flags;
\* a module that fails, times out or prints invalid JSON adds one failed
\* result; {"tests": []} adds nothing.
RunModule(m) ==
    /\ pc = "mods"
    /\ m \in pending
    /\ pending' = pending \ {m}
    /\ \E late \in TimedOut({m}) :
          LET o == IF m \in late THEN "crash" ELSE outcome[m] IN
          results' = IF o = "empty" THEN results
                     ELSE results \cup {[item |-> m, passed |-> o = "pass"]}
    /\ UNCHANGED <<target, pc, runs, file, att>>

\* The end of run_all: "passed" is passed_count = total_count, and the
\* summary is written to test-results.json.
SaveResults ==
    /\ pc = "mods"
    /\ pending = {}
    /\ pc' = "idle"
    /\ file' = [passed |-> \A r \in results : r.passed,
                items |-> {r.item : r \in results}, run |-> runs]
    /\ UNCHANGED <<target, results, pending, runs, att>>

\* create_intoto_attestation (the default format): the statement records
\* results.get("passed") and the tests of the results it is given.
Attestation(f) == [passed |-> f.passed, items |-> f.items, run |-> f.run]

\* generate-attestation.py: exits 1 when the results file is missing, else
\* signs results.get("passed") of the file as it is now.
Attest ==
    /\ file # None
    /\ att' = Attestation(file)
    /\ UNCHANGED <<target, pc, results, pending, runs, file>>

Next ==
    \/ Start \/ WaitForSsh \/ CoreTests \/ ListSelftests
    \/ \E m \in Modules : RunModule(m)
    \/ SaveResults \/ Attest

Spec == Init /\ [][Next]_vars

-----------------------------------------------------------------------------

\* A signed "passed" verdict vouches for the target's core checks: no core
\* check that does not hold on the target (a timed-out command included)
\* ends up in an attestation that says passed.
AttestedCoreHealthy ==
    att # None /\ att.passed => \A c \in Checks : healthy[c]

\* The script's docstring: it "runs the selftest framework"; a signed
\* "passed" verdict should mean every installed selftest module ran and
\* passed.
SelftestsCovered ==
    att # None /\ att.passed =>
        \A m \in installed : m \in att.items /\ outcome[m] = "pass"

=============================================================================
