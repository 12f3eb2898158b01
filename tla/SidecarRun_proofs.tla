-------------------------- MODULE SidecarRun_proofs --------------------------
(***************************************************************************)
(* Proofs about run-tests.py and generate-attestation.py for every set of  *)
(* core checks and modules and every bound on invocations.                 *)
(*                                                                         *)
(* A signed "passed" verdict vouches for the core checks because every     *)
(* invocation that gets past SSH records a result for each core check, a   *)
(* failed one for each that does not hold, before it can write the file;   *)
(* the file's "passed" is the conjunction over all results; and the        *)
(* attestation copies the file's flag.  The chain is carried by four       *)
(* conjuncts: CoreFailRecorded for the results of the current invocation,  *)
(* FileSound for test-results.json, AttestedCoreHealthy for the signed     *)
(* statement, and RunsCounted so the file's run number is in range.        *)
(***************************************************************************)
EXTENDS SidecarRun, TLAPS

\* Past SSH, the invocation counted itself.
RunsCounted == pc # "idle" => runs >= 1

\* Once the core checks ran, a core check that does not hold has left a
\* failed result in TestRunner.results.
CoreFailRecorded ==
    pc \in {"ls", "mods"} =>
        \A c \in Checks : ~healthy[c] => \E r \in results : ~r.passed

\* A test-results.json that says passed vouches for every core check.
FileSound == file # None /\ file.passed => \A c \in Checks : healthy[c]

\* The inductive invariant for AttestedCoreHealthy.
AttestInv ==
    /\ TypeOK
    /\ RunsCounted
    /\ CoreFailRecorded
    /\ FileSound
    /\ AttestedCoreHealthy

\* A result about an item with a Boolean verdict is a Result.
LEMMA ResultRecord ==
  ASSUME NEW x \in Items, NEW b \in BOOLEAN
  PROVE  [item |-> x, passed |-> b] \in Result
BY DEF Result

LEMMA InitAttestInv == Init => AttestInv
BY SidecarAssumption
   DEF Init, AttestInv, TypeOK, RunsCounted, CoreFailRecorded, FileSound,
       AttestedCoreHealthy

LEMMA NextAttestInv == AttestInv /\ [Next]_vars => AttestInv'
<1> SUFFICES ASSUME AttestInv, [Next]_vars PROVE AttestInv'
  OBVIOUS
<1> USE SidecarAssumption DEF AttestInv, TypeOK, RunsCounted, FileSound,
                              AttestedCoreHealthy, target
<1>1. ASSUME Start PROVE AttestInv'
  BY <1>1 DEF Start, CoreFailRecorded
<1>2. ASSUME WaitForSsh PROVE AttestInv'
  BY <1>2 DEF WaitForSsh, CoreFailRecorded
<1>3. ASSUME CoreTests PROVE AttestInv'
  <2>1. PICK late \in TimedOut(Checks) :
          results' = results \cup
              {[item |-> c, passed |-> healthy[c] /\ c \notin late] : c \in Checks}
    BY <1>3 DEF CoreTests
  <2>2. results' \subseteq Result
    <3>1. ASSUME NEW c \in Checks
          PROVE  [item |-> c, passed |-> healthy[c] /\ c \notin late] \in Result
      <4>1. c \in Items /\ (healthy[c] /\ c \notin late) \in BOOLEAN
        BY DEF Items
      <4>. QED
        BY <4>1, ResultRecord
    <3>. QED
      BY <2>1, <3>1
  <2>3. CoreFailRecorded'
    <3> SUFFICES ASSUME NEW c \in Checks, ~healthy[c]
                 PROVE  \E r \in results' : ~r.passed
      BY <1>3 DEF CoreTests, CoreFailRecorded
    <3>1. [item |-> c, passed |-> healthy[c] /\ c \notin late] \in results'
      BY <2>1
    <3>. QED
      BY <3>1
  <2>. QED
    BY <1>3, <2>2, <2>3 DEF CoreTests
<1>4. ASSUME ListSelftests PROVE AttestInv'
  <2>1. results \subseteq results' /\ results' \subseteq Result
    <3>1. [item |-> Builtin, passed |-> TRUE] \in Result
      BY ResultRecord DEF Items
    <3>. QED
      BY <1>4, <3>1 DEF ListSelftests
  <2>2. CoreFailRecorded'
    BY <1>4, <2>1 DEF ListSelftests, CoreFailRecorded
  <2>. QED
    BY <1>4, <2>1, <2>2 DEF ListSelftests
<1>5. ASSUME NEW m \in Modules, RunModule(m) PROVE AttestInv'
  <2>1. results \subseteq results' /\ results' \subseteq Result
    <3>1. PICK late \in TimedOut({m}) :
            LET o == IF m \in late THEN "crash" ELSE outcome[m] IN
            results' = IF o = "empty" THEN results
                       ELSE results \cup {[item |-> m, passed |-> o = "pass"]}
      BY <1>5 DEF RunModule
    <3> DEFINE o == IF m \in late THEN "crash" ELSE outcome[m]
    <3>2. [item |-> m, passed |-> o = "pass"] \in Result
      BY ResultRecord DEF Items
    <3>. QED
      BY <3>1, <3>2
  <2>2. CoreFailRecorded'
    BY <1>5, <2>1 DEF RunModule, CoreFailRecorded
  <2>. QED
    BY <1>5, <2>1, <2>2 DEF RunModule
<1>6. ASSUME SaveResults PROVE AttestInv'
  <2>1. file' \in Saved
    BY <1>6 DEF SaveResults, Saved, Result
  <2>2. FileSound'
    BY <1>6 DEF SaveResults, CoreFailRecorded
  <2>. QED
    BY <1>6, <2>1, <2>2 DEF SaveResults, CoreFailRecorded
<1>7. ASSUME Attest PROVE AttestInv'
  BY <1>7 DEF Attest, Attestation, Saved, CoreFailRecorded
<1>8. ASSUME UNCHANGED vars PROVE AttestInv'
  BY <1>8 DEF vars, CoreFailRecorded
<1>. QED
  BY <1>1, <1>2, <1>3, <1>4, <1>5, <1>6, <1>7, <1>8 DEF Next

\* For every set of core checks and modules, every bound on invocations
\* and every fault set: an attestation that generate-attestation.py signs
\* as passed never covers a target on which a core check of run_all does
\* not hold, timed-out commands and unreachable SSH included.
THEOREM AttestationSound == Spec => []AttestedCoreHealthy
<1>1. Spec => []AttestInv
  BY InitAttestInv, NextAttestInv, PTL DEF Spec
<1>2. AttestInv => AttestedCoreHealthy
  BY DEF AttestInv
<1>. QED
  BY <1>1, <1>2, PTL

\* The same inductive invariant gives SidecarRun's type invariant: in
\* particular the run number written to test-results.json is always one
\* of the invocations made.
THEOREM SidecarTypeCorrect == Spec => []TypeOK
<1>1. Spec => []AttestInv
  BY InitAttestInv, NextAttestInv, PTL DEF Spec
<1>2. AttestInv => TypeOK
  BY DEF AttestInv
<1>. QED
  BY <1>1, <1>2, PTL

====
