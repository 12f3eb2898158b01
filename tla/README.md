# Formal model of the IPv6 rendezvous daemon, its client and the test sidecar

This directory holds TLA+ models of three parts of the repository:

- the peer-discovery daemon and its client,
  `src/images/alpine/features/rendezvous-ipv6/files/rendezvousd.py` and
  `rendezvous-client.py`, with their configuration loading;
- the sidecar's test runner and attestation,
  `src/images/alpine/appliances/sidecar-control/scripts/run-tests.py` and
  `generate-attestation.py`.

It also holds the TLC configurations that check those models and the TLAPS
proofs about them.

## 1. The system

`rendezvousd` runs on every node of a mesh. Time is split into epochs of
`epoch_seconds`, and each epoch into `slots_per_epoch` slots. Every
(epoch, slot) has a rendezvous endpoint: an `fe80::` address derived by HMAC
from the shared `mesh_secret`, and the port `51821 + slot`.

### Parts and how they interact

| Part | Code | What it does |
|---|---|---|
| Slot loop | `run()` 322-350 | Polls the clock (`_get_epoch_slot`). On a new (epoch, slot) it derives the endpoint, calls `_broadcast_descriptor`, then `_listen_for_peers`, and then records the slot as handled. |
| Broadcaster | `_broadcast_descriptor` 181-215 | Sends `[len(sig)][sig][descriptor json]` to the endpoint. The descriptor is the one cached in `__init__` (line 85). The signature is re-read from `<descriptor>.json.sig` on every send. |
| Binder | `_add_address` 139-158, `_listen_for_peers` 217-254, `_remove_address` 160-179 | Adds the address to the interface, binds a socket, runs a 0.1 s `select` loop until `slot_duration_ms` has passed, then closes the socket and removes the address. The outer `except` (253) catches any exception and skips the removal. |
| Peer handler | `_handle_peer_message` 256-320 | Drops frames that cannot be decoded, frames without a `node_id`, the node's own id, and already known ids. For a new id it writes `<id>.json` and `<id>.json.sig` (when the signature is non-empty) in place, runs `peer_callback` (30 s timeout, failures caught), adds the id to `known_peers`, and `pop()`s an arbitrary element when the set exceeds `max_peers`. |
| Stop | `stop()` 352-360, `main()` 418-428 | SIGTERM/SIGINT clears `running` and closes the current socket from the signal handler. This interleaves with the daemon thread at any point. |
| Configuration | `load_config` (daemon 363-384, client 27-52), both `main()`s | Two copies of the same key = value parser over two copies of the defaults. Unknown keys are ignored. Int keys go through `int()`, with no range check. An empty `mesh_secret` exits 1. |
| Client | `rendezvous-client.py` | One-shot `broadcast`, `discover` and `status` commands, run on a daemon's host. They derive the same endpoint as the daemon and add the same address to the same interface. Their `finally` clause removes that address. |
| Sidecar | `run-tests.py`, `generate-attestation.py` | The test runner waits for SSH and runs six core checks over ssh. It lists and runs the target's selftest modules, then writes `test-results.json`. A separate invocation signs the `passed` flag of that file. |

Daemons interact only through datagrams. A frame sent to the current
endpoint reaches a node that has bound that endpoint, or no node. The
address is unicast: at most one receiver gets it, the datagram may be lost,
and a full receive buffer drops it. Each daemon also reads its own disk: the
descriptor, and the signature that provisioning rewrites.

## 2. The model

### `RendezvousDaemon.tla`

This module covers any number of daemons (`Nodes`). Anything else that
sends frames is the environment: foreign ids (`ForeignIds`), ids with
characters outside `[A-Za-z0-9_.-]` (`BadIds`), and arbitrary datagrams
(`EnvFrames`, which include `Malformed` and replays of a node's own frame).

#### Data abstraction

- The clock counts slots. `Key(t)` is `_get_epoch_slot`.
- An endpoint is its slot key, standing for the HMAC address and the port.
  The derivation is taken to be injective.
- A frame is `[id, desc, sig]` (node_id, descriptor version, signature) or
  `Malformed`. `Malformed` stands for every datagram the handler drops on
  decoding: too short, truncated signature, bad JSON, or a non-object.
- A correct signature of descriptor version `v` is `v`. `NoSig` is an empty
  signature. `Forged` is any other signature.
- A peer file is the descriptor together with the signature that came with
  it. The signature in the record is used only by the properties.
- A truncated file is `Torn`.

#### State and the code it stands for

| Variable | Code |
|---|---|
| `pc` | Where the daemon thread is: in `run()`, between broadcast and bind, in the `select` loop, returned, or killed |
| `running` | `self.running` |
| `last` | `(last_epoch, last_slot)` |
| `cur` | The slot being handled |
| `sock` | The endpoint of `current_socket` |
| `rcv` | The socket's receive buffer |
| `iface` | The rendezvous addresses on the interface |
| `known` | `known_peers` |
| `descFile` | `<id>.json` under `peers_dir` |
| `sigFile` | `<id>.json.sig` under `peers_dir` |
| `cb` | Callback runs per id in this lifetime, capped at 2 |
| `cached` | `node_descriptor` |
| `disk` | The descriptor and `.sig` on disk |

#### Actions

**Daemon steps** (`DaemonStep`):

- `EnterSlot` covers `run` 330-341 together with the whole broadcast. `Send`
  delivers to at most one bound peer, or to none.
- `AddAndBind` covers `_listen_for_peers` up to the loop. It has three
  outcomes:
  - `_add_address` fails, so the handler returns;
  - bind fails after the address was added, so the outer `except` runs;
  - success.
- `Receive` is one `recvfrom` plus `_handle_peer_message`, which is
  `HandlePeerMessage`:
  - the early returns are `Ignored`;
  - a new id goes through `LearnPeer`: the writes, the callback, and then
    `TrackPeer`;
  - a write that fails midway is one of two fault disjuncts.
- `EndListen` closes the socket and removes the address. The removal may
  fail; that failure is only logged.
- `ListenAborted` is `select` raising on a socket that `stop()` closed.
- `Exit` is `while self.running` failing.

**Other actions**:

- `Stop` is `stop()`.
- `Crash` is the process being killed.
- `Restart` is a new process: `__init__` runs with empty `known_peers`, the
  descriptor is reloaded, and the loop restarts at `(-1, -1)`.
- `Rotate` is provisioning writing a new descriptor and signature.
- `Inject` is a datagram from outside.
- `Tick` advances the clock.

**Fairness.** The daemon's own step is weakly fair. It is one thread, and
every blocking call it makes is bounded: `select` 0.1 s, the callback 30 s,
and short `ip` invocations. The clock (`Tick`) is weakly fair too, because
wall time advances. No fairness is assumed for the environment or for
delivery. `loss` is a fault that drops a datagram on the way.

**No refinement is kept for the peer learner.** An abstract store whose
files only grow adds nothing that the invariants below do not already say.
Such a store also contradicts spec section 3, which bounds the persisted set
by `max_peers`. The code never deletes a peer file: `pop()` at line 315
only drops the id from `known_peers`. So `descFile` only grows, in the
model as in the code (see "Behaviours the model reaches" in section 3).
`NotifiedIds` maps the callback counters to the peers announced in the
current lifetime. It is used by the proofs of `RendezvousDaemon_peers`.

### `RendezvousHost.tla`

This module composes the daemons with `rendezvous-client` invocations on
the hosts in `ClientNodes`. The client and the daemon share `iface`, `disk`
and the receive sockets. The client's extra state is:

- `cpc`, where the command is;
- `ckey`, the slot it derived;
- `found`, the ids `discover` appended;
- `cruns`, the number of invocations.

| Action | Code |
|---|---|
| `ClientStart` | `get_epoch_slot`, derivation, and `add_address` ("exists" counts as success; a failure returns with no `finally`) |
| `ClientCast` | `broadcast_descriptor`'s `try` block. It reads the descriptor and the `.sig` from disk at that moment and makes a single send (`ClientSend`, which reaches at most one socket). |
| `ClientBind` | `socket()` and `bind()`. A failure goes straight to `finally`. |
| `ClientRecv` | One `recvfrom` of the discover loop. Short or truncated frames and bad JSON are skipped. A non-UTF-8 payload raises out of the loop. Every other descriptor is appended. |
| `ClientEndDiscover` | The discover timeout. |
| `ClientRemove` | `finally: remove_address`. It removes the address whoever added it. |
| `Upcoming` | `show_status`'s upcoming-slot arithmetic |

The steps of a started client invocation (`ClientRunStep`) are weakly fair
(`HostFairness`), because every blocking call they make is bounded.
`ClientStart` is not fair: nothing in the code makes a user run a command.

### `ConfigLoad.tla`

A line is abstracted to its kind and, for `key = value`, its key and value
text. `IntOf` is `int()`: it maps the texts it accepts to ints, and anything
else gives `ValueError`. `ParseLine` is one iteration of the loop of
`load_config`. `LoadLines` is what the whole loop computes, stated in closed
form:

- no key is added;
- a key that no line sets keeps its default;
- otherwise it takes the converted value of the last line that sets it;
- a non-int text on any line of an int key raises `ValueError`.

`MC_ConfigLoad`'s `ASSUME LoadLinesIsLoop` checks that `LoadLines` equals
the loop itself, `FoldLeft(ParseLine, defaults, file)`, for both sets of
defaults and every file of the `config` run. TLC evaluates it on every run
of that module. The closed form is what the proofs reason about. The
variables are the file and the two processes'
phases and configurations. The actions are `DaemonMain`, `ClientMain` and
the daemon's first `_get_epoch_slot` (`DaemonFirstSlot`), which raises
`ZeroDivisionError` on a zero `epoch_seconds` or `slots_per_epoch`.

### `SidecarRun.tla`

The target is fixed for a behaviour: which core checks hold, which selftest
modules are installed, and what each module reports (`pass`, `fail`,
`empty` for `{"tests": []}`, or `crash`). Every ssh call may time out and
return -1 (`TimedOut`, the fault `timeout`). SSH may never answer (`nossh`),
and then `main()` exits without writing. The actions are:

- `Start`, `WaitForSsh` and `CoreTests`;
- `ListSelftests`, the `ls` of the selftest directory;
- `RunModule` and `SaveResults`, the end of `run_all`;
- `Attest`, `generate-attestation.py`.

A result is the item it is about together with its `passed` flag.

### `MC_RendezvousDaemon.tla`

This module gives model values to the nodes and ids. It defines the
environment frames: `MCEnvFrames` for the learner runs and `MCMeshEnvFrames`
for two daemons.

### `RendezvousDaemon_proofs.tla`

`RendezvousDaemon_proofs.tla`, `RendezvousDaemon_self.tla`,
`RendezvousDaemon_peers.tla`, `RendezvousHost_proofs.tla`,
`SidecarRun_proofs.tla` and `ConfigLoad_proofs.tla` hold the TLAPS proofs (see section 4).
`MC_RendezvousHost.tla`, `MC_ConfigLoad.tla` and `MC_SidecarRun.tla` give
model values and small definitions (for `IntOf` and the core checks) to the
other modules.

## 3. Runs

Every daemon run except `host` (3 slots) uses 2 slots per epoch, `MaxRestarts = 1` and a receive
buffer of 1 datagram.

### Passing runs

**`learner`** (`MC_learner.cfg`): one daemon, foreign ids `p1` and `p2`,
`max_peers = 1`, faults `store` and `crash`. About 190k states.

It checks `TypeOK`, `CapacityBound`, `NoSelfLoop`,
`CallbackOncePerLifetime`, `KnownPeersPersisted`, `StopLeadsToExit` and
the action property `CallbackAfterStore`: a step that runs `peer_callback`
for a peer does so for a peer not in `known_peers`, after its `<id>.json`
and, when signed, its `<id>.json.sig` were written in full.

Why these bounds are enough:

- Two ids against a bound of one force the eviction path: add, overflow,
  `pop()` of either element, re-learning, and a second callback.
- The `store` fault covers the torn-write paths.
- A crash and a restart cover the loss of `known_peers` while the files
  stay on disk.
- Three clock values give two slot changes, so a stop can land in any phase
  of a slot.

**`mesh`** (`MC_mesh.cfg`): two daemons, descriptor versions up to 2, and
faults `add`, `bind`, `remove` and `crash`. About 1.4M states.

It checks `TypeOK` and `NoSelfLoop` while real frames travel between the
daemons, and datagrams may be lost. Replays of each node's own frame are
also injected, and descriptors are rotated.

**`host`** (`MC_host.cfg`): one daemon and two client invocations on its
host, with faults `add`, `bind` and `remove`. About 57k states.

It checks `HostTypeOK`, `NoSelfLoop` and `ClientCommandEnds`, the last
under `HostFairness`. It uses 3 slots per epoch. `status`'s look-ahead is
checked separately, by the violation run `status_upcoming_wrap` with 2
slots, and characterised for every slot count by `StatusUpcomingExact`. The
bounds are enough because:

- two invocations cover both commands;
- each command can meet the daemon in each phase of its slot;
- `MaxFound = 2` lets discover receive a descriptor twice.

**`config`** (`MC_config.cfg`): every file of up to two lines over the
value texts `""`, `"0"`, `"2"`, `"60"` and `"x"`, and every key of the
daemon plus an unknown one. This covers quoting-free values, non-int text
for an int key, a zero, and an overridden key. About 12k states.

It checks `TypeOK` and `SameSchedule`. `SameSchedule` says a client started
next to a running daemon reads the same `mesh_secret`, `epoch_seconds`,
`slots_per_epoch`, `interface` and `descriptor_path`.

**`sidecar`** (`MC_sidecar.cfg`): two core checks (standing for six
identical ones), two selftest modules under symmetry, two invocations, and
both faults. About 20k states.

It checks `TypeOK` and `AttestedCoreHealthy`: a signed `passed` verdict
implies every core check holds on the target, even when a check's ssh call
timed out.

### Violation runs

Each violation run checks one property that the spec states, and TLC finds
it violated. The findings are in `PROJECT.json`.

| Run | Property | Counterexample |
|---|---|---|
| `leak_on_stop` | `AddressReleased` | `stop()` during `select`. The exception path skips `_remove_address`. |
| `stale_signature_broadcast` | `SentSignatureMatches` | After a rotation, the daemon sends the cached old descriptor with the new signature read from disk. |
| `unchecked_node_id` | `PersistedIdsValid` | `../x` is used as a file name. |
| `client_removes_daemon_address` | `AddressHeldWhileListening` | A client command on the daemon's host removes, in its `finally`, the slot address the daemon is listening on. |
| `unvalidated_config` | `ConfigValidated` | `epoch_seconds = 0` is accepted, and the daemon dies of `ZeroDivisionError`. |
| `status_upcoming_wrap` | `StatusUpcomingMatches` | With 2 slots per epoch, at clock 1 (epoch 0, slot 1), `status` lists slot +3 as epoch 1 slot 0. The daemons will be in epoch 2 slot 0: the single wrap at `rendezvous-client.py` 237 is wrong when `slot + 3` spans two epochs. |
| `selftests_skipped` | `SelftestsCovered` | The `ls` of the selftest directory times out. That is recorded as "No selftest modules found" with passed True, and the run is signed as passed without its selftests. |

Behaviours the model reaches that no run is kept for:

- `bind()` failing after `_add_address` also leaks the address (line 230).
- A peer re-learned from an unsigned frame keeps an old `.sig`
  (`SigFileMatchesDescriptor`).
- A failing in-place `json.dump` leaves a torn file (`PeerFilesComplete`).
- `discover` lists a peer once per datagram (`DiscoverDeduped`).
- Peer files outlive eviction and restarts. `descFile` is never cleared,
  so more than `max_peers` peers stay persisted, against spec section 3.
- Two daemons entering a slot together each send before the other binds,
  so they miss each other in that slot (line 341). Spec section 1 promises
  no bounded-time discovery, and a bounded clock cannot show the miss
  repeating for ever, so no property is checked.
- A daemon started before its descriptor exists learns itself through a
  client `broadcast` (`NoSelfLoop` with `InitVersions = {0}`). This is
  why `SelfNeverLearned` assumes provisioning.

### Mutants

Every property of a passing run has a mutant in `PROJECT.json`. Each mutant
is a plausible bug in the mapped code, and each one makes its property fail:

- evicting before adding;
- evicting at `>=`;
- tracking a peer whose write failed;
- running the callback before the peer's files are written;
- dropping the own-id check;
- a loop that ignores `running`;
- deriving the address from the previous slot;
- a discover socket without a receive timeout;
- a parser that adds unknown keys;
- client defaults that drift from the daemon's;
- a timed-out core check counted as passed;
- running every known selftest module instead of the listed ones.

## 4. Proofs

### `RendezvousDaemon_proofs.tla`

The proofs use `ConstantsAssumption`: the set of ids is finite, and the
counts are naturals. They hold for every number of nodes, every id set and
every bound.

**`TypeCorrect`** proves `Spec => []TypeOK`. `TypeOK` is not inductive on
its own. `AddAndBind` adds `cur[n]` to the interface, and the type allows
`cur[n] = None`. The inductive invariant `TypeInv` therefore adds `CurKey`:
while a slot is being handled (`bind` or `listen`), `cur[n]` is a real slot
key. The proof has one step per action.

The lemmas are:

- `TrackPeerType`, `LearnPeerType` and `HandleType`, one case per
  disjunct of the handler;
- `SendType` and `OwnFrameType`.

**`CapacityBounded`** proves `Spec => []CapacityBound`. The inductive
invariant is `TypeInv /\ CapacityBound`.

The key lemma is `TrackPeerBound`. By `FS_AddElement`, adding an id grows
the set by at most one. If the set then exceeds `max_peers`, it had exactly
`max_peers + 1` elements, and `FS_RemoveElement` brings it back to
`max_peers`. `Restart` empties the set, and no other action touches it.

### `RendezvousDaemon_self.tla`

The theorem assumes `0 \notin InitVersions`: every daemon starts with its
descriptor on disk. Without that assumption `NoSelfLoop` fails: a daemon
started before its descriptor exists keeps node_id "unknown" and learns
its own descriptor once a client broadcasts it (section 3).

**`SelfNeverLearned`** proves `Spec => []NoSelfLoop`. `NoSelfLoop` alone is
not inductive. The self check compares with the cached descriptor's
node_id, and an unprovisioned daemon has none. The inductive invariant is
therefore `SelfInv == TypeInv /\ Provisioned /\ NoSelfLoop`, where
`Provisioned` says every node has a descriptor in memory and on disk.
`Restart` reloads from disk and `Rotate` only advances the version, so
`Provisioned` is preserved. Given `Provisioned`, a frame that `Ignored`
does not drop carries another node's id (`NotIgnoredId`).

The same module proves the frame lemmas about `LearnPeer` that
`RendezvousDaemon_peers` uses. `LearnPeerFrame` says a learn step changes
only the file and the counter of the frame's id. `OtherStepsUnchanged` says
the steps other than `Receive`, `Restart` and `Rotate` leave the files, the
counters and the descriptors alone.

### `RendezvousDaemon_peers.tla`

The proofs here use only `ConstantsAssumption` and hold for every capacity.
Each invariant is stated per node (`DedupAt(n)`, `PersistAt(n)`). A frame
lemma shows that a step that leaves a node's `known` and its counters or
files alone keeps the per-node invariant. The proof of a step then has one
case per disjunct of `LearnPeer`, plus `Restart` and a case for the rest.
`NewPeer` says that a frame `Ignored` lets through is a decoded frame of an
id outside `known_peers`. `TrackPeerEffect` says the add-then-pop grows
`known_peers` by at most that id, and by exactly that id while the bound is
not exceeded.

**`CallbackOnce`** proves `Spec => []CallbackOncePerLifetime`. The property
is not inductive: on its own it does not know that the callback counter of
an id not in `known_peers` is 0. The inductive invariant `DedupInv`
strengthens it, per node:

- `known_peers` is a subset of the peers announced in this lifetime
  (`NotifiedIds`);
- while at most `max_peers` were announced, the two sets are equal and
  every counter is at most 1.

A new peer is outside `known_peers`, hence (by equality) never announced,
so its counter goes from 0 to 1. The announced set is then exactly
`known_peers` plus the peer. That set is within the bound, so the pop does
not fire (`FS_Subset` relates the two cardinalities). Torn writes change
neither set, and `Restart` empties both. TLC checked `DedupInv` on `learner`
and `mesh` before the proof.

**`KnownPeersPersistedHolds`** proves `Spec => []KnownPeersPersisted`, with
`TypeInv /\ KnownPeersPersisted` as the inductive invariant:

- the record is written before `TrackPeer`;
- a torn write touches only an id outside `known_peers`, and leaves
  `known_peers` unchanged.

**`CallbackAfterStoreHolds`** proves the action property
`Spec => [][CallbackStep]_vars` from `TypeCorrect` alone.
`LearnPeerFrame` shows that only the counter of the frame's id can change.
It grows only on the success path, which has just written both files.

### `RendezvousHost_proofs.tla`

**`StatusUpcomingExact`** proves that `status`'s look-ahead is right at
every clock value if and only if `slots_per_epoch >= 3`:
`(\A t \in Nat : UpcomingRightAt(t)) <=> SlotsPerEpoch >= 3`.
`UpcomingRightAt(now)` is `StatusUpcomingMatches`. The only assumption is
`ConstantsAssumption`'s `SlotsPerEpoch \in Nat \ {0}`, which is what
`load_config` can give (`ConfigLoad`).

- `UpcomingRightWide` covers `S >= 3`. Write `t = q*S + r`. If `r + i < S`,
  the upcoming key is `(q, r+i)`. Otherwise it is `(q+1, r+i-S)`, with
  `r+i-S` in `0..S-1` because `i <= 3 <= S`. The uniqueness of quotient and
  remainder (`DivModUnique`) then identifies it with `Key(t + i)`.
- `UpcomingWrongNarrow` gives the counterexample for `S` in `{1, 2}`: at
  `t = S - 1`, slot +3 lies two epochs on, yet `status` names the next
  epoch. That is the code bug the run `status_upcoming_wrap` shows.

**`HostTypeCorrect`** proves `HostSpec => []HostTypeOK` for the
composition of the daemons and the clients. The inductive invariant is
`HostTypeOK /\ CurKey`:

- daemon steps reuse `NextTypeOK` of `RendezvousDaemon_proofs`;
- client steps touch only the interface, the receive buffers and the
  client's own variables;
- `DiskFrameType` shows that what `broadcast` reads from disk is a frame
  once a descriptor exists, which is the only case in which it sends.

### `SidecarRun_proofs.tla`

**`AttestationSound`** proves `Spec => []AttestedCoreHealthy` for every
set of core checks and modules, every invocation bound and every fault set.
The property is not inductive. The inductive invariant `AttestInv` carries
the verdict from the target through each artefact:

- `CoreFailRecorded`: once past the core checks, a core check that does not
  hold has left a failed result in `results`;
- `FileSound`: a results file that says passed vouches for every core check,
  because `SaveResults` takes the conjunction over all results;
- `AttestedCoreHealthy` itself, since `Attest` copies the file's flag;
- `RunsCounted`: past SSH, `runs >= 1`, so the file's run number is in range.

No assumption that check names and module names differ is needed, because
the failed core result stays in `results` whatever the modules report.
**`SidecarTypeCorrect`** is `Spec => []TypeOK` from the same invariant. TLC
checked `AttestInv` on `sidecar` before the proof.

### `ConfigLoad_proofs.tla`

**`SameScheduleHolds`** proves `Spec => []SameSchedule` for every file of
any length, every set of value texts and every `int()`. `SameSchedule`
alone is not inductive: it does not say where the two dictionaries came
from. The inductive invariant `LoadedInv` adds two facts:

- each program's dictionary is its `load_config` of the one file
  (`DaemonLoaded`, `ClientLoaded`);
- a program in the running phase did not raise.

`LoadConfigAgree` does the work. The client's defaults are the daemon's on
every client key (`DefaultsAgree`). The lines that set a key, and the value
they store, do not depend on the starting dictionary. So when neither load
raises, the two loads agree on the client's keys (`LoadAgree`).
`StartedPhase` says `main()` runs only with a dictionary that loaded.

**`ConfigTypeCorrect`** proves `Spec => []TypeOK` from the same invariant.
`LoadDomain` says a load that does not raise has exactly the keys of its
defaults. TLC checked `LoadedInv` on `config` before the proof.

**Left to TLC:**

- liveness (`StopLeadsToExit`, `ClientCommandEnds`): liveness under
  fairness is beyond TLAPS;
- that `LoadLines` is what the `ParseLine` loop computes
  (`LoadLinesIsLoop`). The loop is `FoldLeft`, whose recursion takes the SMT
  backend away from any module that reaches it. Proving the equality for
  every file would also need induction over sequences with an operator
  parameter, which the provers cannot instantiate. TLC checks it on every
  file of up to two lines over the run's keys and texts;
- every other invariant and action property of a passing run has a theorem
  above, so a run's instance and the theorem's "for every value of the
  constants" agree;
- the properties of the violation runs, which are refuted, not proved.
  `StatusUpcomingMatches` is the exception: `StatusUpcomingExact` proves
  the exact condition on `slots_per_epoch` under which it holds.

## 5. Not modelled

- **Address derivation** (HMAC-SHA256): a cryptographic function. It is
  represented by the slot key, which assumes the derivation is injective.
- **Floating-point slot arithmetic** (`_get_epoch_slot` 104). With
  `epoch_seconds = 1` and `slots_per_epoch = 3`, `now % 1 =
  0.9999999999999999` gives slot 3, a slot outside the epoch. Doubles need
  53-bit mantissas, beyond TLC's integers, so the model counts time in whole
  slots.
- **Feature selftests** (`selftest/test_*.py`): shell checks run on the
  target, with no state of their own. In `SidecarRun`, what they report is
  the `outcome` of a module.
- **`collect-evidence.py`**: a fixed list of read-only ssh commands whose
  output is written to a file. It decides nothing.
- **Signature verification.** The daemon never verifies a signature, so
  nothing models one. The Ed25519 signing of an attestation is left out,
  since `Attest` records what is signed.
- **A stale `test-results.json`.** When SSH never answers, `run-tests.py`
  exits without writing, and an older file would be signed. No code or
  document in the repository says which run an attestation must be of, so
  no property is claimed.
