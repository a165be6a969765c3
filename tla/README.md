# Velvet Fabric: TLA+ models, checks and proofs

Velvet Fabric builds an overlay of WireGuard Links. Each node runs `velvetd`. It
negotiates Link addresses with a peer over a TCP session (VFP), discovers direct
Links to nodes it can only reach through others, agrees with a peer on Links to
keep (durable agreements), supervises Links with ping and pong, and drives a Babel
daemon that routes over them. systemd restarts it when it fails, and a timer
removes what it left in the kernel when it stays broken.

This directory models the parts of that program whose correctness depends on the
order in which several actors move. Every definition is translated from the code;
`PROJECT.json` maps each one to its lines.

## 1. Inventory

| Part | State | Operations | Neighbours | What is hard |
|---|---|---|---|---|
| VFP session engine (`internal/vfp/engine`) | session FSM, static-Link FSM, pending commit, timers | OPEN, NODE_STATE, LINK_PROPOSE, LINK_ACCEPT, commit, operational messages | reader and writer goroutines; `Config.Accept`, `Commit`, `Operational` callbacks | two loops over one stream, commit and acceptance can fail apart |
| Durable agreements (`runtime/durable*.go`) | records in memory and on disk, operations, observations, checks, cooldowns | `tick`, `handleLink`, `observe`, `restoreAndCheck`, `acceptStatus`, deletion, restart | Link sessions, routed sessions, ping observations, operator | bilateral save with crashes, crossing proposals, stale answers |
| Dynamic Link engine (`runtime/dynamic*.go`) | Attempts, deferred cleanups, targets, evidence | dial, propose, accept, decline, probe, handoff, commit, recover | routed sessions, Link resources, probe sockets, supervisor | crossing Proposals, late timers and callbacks, locks released between two kernel steps |
| Link resources (`runtime/link_manager.go`) | generations by OwnerAlias, port lease, cleanup flag | own, removed, retry | dynamic engine, static Links | failed removal while the interface name is reused |
| Port pool (`runtime/ports.go`) | leases | bind, release, handoff | probe sockets, WireGuard | a late release against a new owner |
| Link supervision (`runtime/link_health.go`, `link_discovery.go`) | adjacency, last pong, negotiation workers | ping, pong, renegotiate, lost | engine, routes, Babel | pong deadline against a late answer |
| Policy (`runtime/dynamic_policy.go`, `policy_revision.go`) | revision on disk, cached policies | reserve, query, update, merge | UDP, restarts | revisions across crashes, reordered updates |
| Peer search (`internal/linkdiscovery`) | evidence store, round | exchange, try, agree, observe | the session of an Attempt, UDP probes | lockstep rounds, lost and late probes, budgets |
| Probe socket (`internal/vfp/probe`) | replay window | seal, open | search | duplicates, reordering, expiry |
| Recovery tracker (`internal/recovery`) | failure episode on disk | begin, progress, stop, failure, check | systemd, retirement | the episode spans restarts; three processes share the file |
| Daemon and reload (`cmd/velvetd`) | running generation, status | start, health tick, reload, rollback, stop | every runner part | failure between stop and start, a stop at any moment |
| Warm Links (`runtime/warm_links.go`) | receipts of the stopped generation | adopt, expire | reload, Link sessions | a receipt that outlives its Link |
| Babel supervision (`internal/babel`) | Link states, configuration file, service record, daemon process | `SetLinkState`, check, write, ensure, reload, stop | Link commits, systemd, retirement | the daemon outlives `velvetd`; updates coalesce; ambiguous reloads; pids are reused |
| Reconciler, Linux backend | none of its own | one idempotent pass of netlink calls | all | I/O |
| Codec, configuration, control socket | none | parse, encode | all | sequential |

What makes the modelled parts correct:

* session engine: both ends install the same Link or one installs none; an
  acceptance promises an installed Link; negotiation ends, on the first proposal
  both can use;
* durable agreements: a confirmation stands on the peer's stored record; an
  identifier has one set of terms; a pair that qualifies ends with one agreement;
* dynamic Links: crossing Proposals leave one operation; nothing an abandoned
  Attempt left behind touches its successor; no interface is orphaned; nobody
  transmits before the peer listens;
* Link supervision: a healthy Link is installed in states, kernel, Babel and receipt
  alike; forwarding outlives control loss; a receipt names a withdrawn Link only when it
  could be neither replaced nor removed; whatever fails, the Link comes up again, on the same addresses at both ends;
* policy: a revision names one decision for ever; caches only move to newer
  decisions; an identity has one loopback; after changes of mind and losses the two
  nodes come to terms;
* peer search: both sides reach one verdict; a path was proved in both directions in
  its own round; a search ends;
* Babel supervision: no Link change is lost; one daemon runs, active on what was
  rendered last; a stop ends it and nothing else (but for two windows, section 5);
* daemon and recovery: the deadline of a failure episode is neither postponed by
  restarts nor reached early; what a running daemon wrote is on record; ready is
  reported only for an installed generation; a daemon that stays down is retired.

`PROJECT.json` lists the components with what is modelled of each, and under
`hazards` the places in the code where these properties are at risk.

## 2. Modules

| Module | Models | Role |
|---|---|---|
| `LinkNegotiation` | `Engine.Run` and its FSMs at both ends of one session | core |
| `LinkAgreement` | what a session promises: at most one Link is ever installed | abstract specification |
| `MCLinkNegotiation` | proposals and session settings for TLC | model |
| `LinkNegotiationProofs` | theorems about `LinkNegotiation` | proofs |
| `DurableAgreement` | the durable managers of two nodes, their stores and sessions | core |
| `DurableAgreementProofs` | theorems about `DurableAgreement` | proofs |
| `DynamicLink` | the dynamic Link engines of two nodes, their sessions and kernels | core |
| `DynamicLinkProofs` | theorems about `DynamicLink` | proofs |
| `LinkSupervisor` | the supervisors of a configured Link at both nodes, its kernel state, Babel admission and warm receipt | core |
| `LinkSupervisorProofs` | theorems about `LinkSupervisor` | proofs |
| `PeerSearch` | the two sides of a UDP path search, their control session and probes | core |
| `MCPeerSearch` | endpoints and networks for TLC | model |
| `PeerSearchProofs` | theorems about `PeerSearch` | proofs |
| `BabelManager` | the manager of the Babel daemon, the daemon, its record and its stop | core |
| `MCBabelManager` | plans of a detached daemon and of a unit for TLC | model |
| `BabelManagerProofs` | theorems about `BabelManager` | proofs |
| `LinkPolicy` | policy revisions on disk, updates, queries and declines between two nodes | core |
| `PolicyRegister` | what the policy exchange promises: a register of numbered decisions | abstract specification |
| `LinkPolicyProofs` | theorems about `LinkPolicy` | proofs |
| `DaemonRecovery` | the `velvetd` process, its reloads, the recovery record and the recovery timer | core |
| `DaemonRecoveryProofs` | theorems about `DaemonRecovery` | proofs |

Definitions that start with a comment `Mutant` are deliberate mistakes. No action
uses them; they replace a definition to show that a property notices.

### LinkNegotiation

An endpoint's loop iteration is split where the peer can see it: a frame is read
and handled (`Handle*`), the pending commit is installed (`Commit`), the outbound
frame is written (`SendOutbound`). `phase`, the attempts used, the proposals seen
and the outstanding offer are the two FSMs; the wire is a sequence per direction.
A session is Link-bound, durable (its first message is a DURABLE_PROPOSE) or
routed. A proposal is an opaque value; `derive[e][i]` is what `DeriveProposal`
returns at attempt `i`, any function. `Config.Accept` asks the kernel whether the
addresses are free; in a setting with `drift` its answer is chosen anew for every
frame, and only a setting with `faults` loses connections or commits. The
code also closes a session whose counterproposal equals the proposal it answers;
`nextProposal` has already excluded that, so no action is needed. Frames a correct
peer never sends are outside; frames that arrive in the wrong phase are
`HandleDiscard`.

### DurableAgreement

Per node: the record in memory and the one on disk, the live operation, the
observation of the Link, the status check in flight, the cooldown after a deletion,
and whether the process and the Link are up. Two sessions may exist, one per
dialler. A save is write, rename, directory sync: `SaveFails` covers a failure
before the rename (disk unchanged) and after it (disk new, memory old).
`stored` is a history of what each disk has ever held.

Time is abstract: a session (10 s) ends before its operation expires (30 s), which
is shorter than the stability an observation needs. The bound of 128 records and
the `closed` flag are left out (shutdown is `Crash`; a configuration that drops the
record is a choice of `Restart`). A change of the peer's key deletes its record
like an operator does (`DeleteDurable`).

### DynamicLink

One action is one critical section under `resourceMu` and `mu`, one `Send`, or one
step of a worker. Each outbound session proposes once with a fresh operation
identifier, so sessions and operations share names. The interface of a pair has one
name; its alias tells generations apart, which is what `removeInterface` and
`RemoveDynamic` compare. `kern` is the kernel's interface, `owned` and `dirty` are
`links.resources` and its cleanup flags, `link` is the committed state.

A behaviour has timers or it has none (`budget.timers`, chosen initially from
`Timers`). With them they may fire at any moment, which includes firing late: a
response timer, a deferred cleanup or a session's close callback of an Attempt that
was replaced is still in the model and must do nothing. `Stop` on a timer that has
already fired is modelled by `late`. The rounds of a UDP search are one round, which
both sides must finish; why a search fails is left open. The tunnel carries the Link
negotiation (`CommitLink`) when both ends transmit for the same operation. The
deadline's epoch is not modelled: with free timers a stale deadline and a current
one are the same choice. `runProbe`'s error path sends END and then fails the Attempt;
that is one step (`ProbeFails`). A peer that learns of the END before the Attempt is gone
meets an Attempt that still probes, as it does when its own search ends first. Checked with
the two steps apart, both runs give the same verdict on twice the states (2.3 million and
257 thousand). Not modelled: stopping the engine, static and durable Links
to the same peer, port leases, retry budgets.

### LinkSupervisor

One action is one case of the `select` in `manageLink` with all it calls, one step of
the negotiation worker, or one packet. `sup` holds the locals of `manageLink`, `st`
is `Runner.states`, `bab` the admission list of Babel's manager, `warm` and `disk` the
receipt in memory and in its file. A worker passes through dialling, the open session,
and then installs as acceptor (before LINK_ACCEPT) or commits as proposer (after it);
`conn` says whether the two workers are still joined. The session is `LinkNegotiation`
in short: it settles on the first jointly available proposal, and after the first
proposal either side may be the acceptor. A write of LINK_ACCEPT to a connection that
is already lost may succeed.

`confirm` is two steps: the commit, and then the receipt (`run` is "confirm" in between,
where the process may end and the supervisor reads nothing). A failed kernel call leaves any
prefix of `Materialize`, and depending on where it happens the session fails or the
supervisor ends and `runLink` starts it again. `saveWarmLinks` may fail wherever it is
called; the file is then removed, or, when that fails too, keeps the older receipt
(`Saves`). A crash keeps kernel and file; the next process adopts the receipt when its
addresses are on the interface, and otherwise leaves it in the file.

A ping interval that ends without a pong costs a fault when the peer would have
answered: a round trip is short against ten seconds. A stale ping or pong has no
effect, because each challenge replaces the one before, and is not kept. The one-second
delay between negotiations, sessions for durable agreements (which only make a worker
busy), unnumbered Links and several Links to one peer are left out. `last`, `stale`
and `torn` are history: the adjacency committed and not withdrawn; the nodes whose file
holds a receipt that a process passed over at its start or that could be neither replaced
nor removed; and whether the last session ended on one side only or a stale receipt was
adopted. A pass of `maintainMaterialized` that finds nothing to repair is a stuttering
step. Another interface takes or frees the addresses of one proposal at a time.

### PeerSearch

Each node runs `RunPeer` as a program counter: infer, wait for candidates, probe,
collect reports, wait for the peer's path, observe, bind, hand off. `inbox` is the
session with the inbox it feeds, `pending` the barrier that came early, `arrivals` the
queue of the probe listener, which runs beside the search (`Arrive`). `net` keeps every
probe ever sent, so a probe may arrive never, late by a round, or again; `opened` is the
receiver's replay window. The five repeats of a probe are one packet.

What `Infer` proposes in each round and how the NATs rewrite a source are settings
(`env`). In a calm setting a window ends only when everything sent has arrived; that is
what `CalmConnects` needs and nothing else does. Messages that `wait` and
`collectRound` would refuse (`Misplaced`) have no action: `Lockstep` shows that two nodes
running this code never meet one. `Observe` is one step that adds to the store or does
not. `Deadline` is the operation's 30 seconds for a node whose peer is gone; `Cancel`
stands for the deadline at any other moment, a full queue, a failed send, a lost session.
`DynamicLink` contains this search as one opaque round; `OneVerdict`
is what justifies that.

### BabelManager

`SetLinkState` is two actions, the state under the lock and the notification after it.
`pc` walks through `runOnce`: prepare, check, write, the steps of `ensureService` (look at
the record and the socket, read the start time, first save, spawn, second save), status,
reload, and the `select`. A daemon is a pid with a start time; systemd or `ensureService`
starts it, it opens its socket later, and it may die at any time. `StopInstance` is look at
the record and the socket, read the start time, pin, verify, signal, remove. The pid is
free to be reused between any two of these steps, in particular between the socket's
credentials and /proc (`Identify`, `StopIdentify`). Digests are the configurations
themselves.

Nothing is assumed of when a detached daemon opens its socket: `velvetd` may run again
before. What a second daemon does when it finds the socket taken is not in this repository:
it gives up, or takes the path over and leaves the first one running without it ("deaf").
Two histories say where identity was lost: `overlooked` has the daemons that neither the
record nor the socket showed when `ensureService` or `StopInstance` looked, `mistaken` the
strangers whose start time was read for the socket's process.

A cancelled context is `Exit`. Plans that change the service or the executable (the
`StopInstance` that `ensureService` then calls first), and network namespaces, are left
out.

### LinkPolicy and PolicyRegister

One direction of the exchange: a publisher and a seeker. The publisher's start is the
read of the counter, the synced temporary file, the rename and the directory sync;
`file` is what processes see, `disk` what a power loss leaves. Its decision may change
at every start, its loopback too. The seeker has a target per loopback and a dial per
loopback. Datagrams are a set: delivered in any order, kept as a copy, or lost; the
DECLINE travels in its TCP session and may be read after its sender stopped. Budgets
and retention only delay, so a send or an eviction may happen at any time. With one
publisher, whether a target has an identity is a Boolean.

The identity of a target has four writers, each in its own critical section: a query of
the publisher's (`ReceiveAsk`), a session the publisher dialled (`CallBind`), the seeker's
own session (`Bind`, `bindPolicyPeer`), and `prepareOutbound`, which takes the lock again
and writes without a check. The publisher's queries and dials belong to the other direction
of the exchange: they may happen at any time its loopback is routed, their number is bounded
by `MaxFaults`, and the Link that such a dial may yield is left out. `linked` stands for an
accepted Proposal; that its Attempt yields a Link is the subject of `DynamicLink`.

`PolicyRegister` knows decisions with growing numbers and a cache per loopback that
learns a newer published decision or forgets. The mapping is the identity on the history
of published decisions and the policies of the targets.

### DaemonRecovery

`pc` is where the process is: off, starting its first runtime, up, in one of the
steps of a reload, recording the reloaded tables, or ended with `--recovery-record`
still to run (`post`). `rec` is the record on disk; each operation of `Tracker` is an
operator from the old record to the new, and a save may fail before or after its
rename. `checker` is the `--recovery-check` process, which holds the namespace lock
and the file lock while it retires. The namespace lock makes the check and the
daemon exclude each other (`Live`); the exit record waits for the file lock only.

A configuration is the set of routing tables it writes to, and the kernel is the set
of tables that hold the instance's routes. A runtime that ends during its first
reconciliation leaves any prefix of that pass: some wanted tables added, or all of
them and some stale ones not yet deleted. Routes that Babel owns and devices, which
retirement finds by their alias and not through the record, are left out. The node's
identity is fixed; a file with another UUID is one of the rejected ones.

A recorded time appears as its age, saturated at the duration it is compared with, so
behaviours are unbounded in time. The wall clock never jumps. `streak`, `sinceWell`
and `stopped` are history: the health this process recorded, the last moment that
excuses a failure, and how the last process obeyed a stop.

## 3. Runs

| Run | Bounds | What it shows |
|---|---|---|
| `negotiation` | 3 proposals, 3 attempts each; settings with resets, failed commits, early timeouts and drifting availability, and calm settings with every availability on both sides | `AcceptAfterInstall`, `OffersAlternateWithoutRepeat`, `LinkSessionEnds`, `ImplementsAgreement`; `ConvergesOnFirstJoint` of the calm settings |
| `durable_faults` | both nodes qualify and roam over 2 endpoints, 2 identifiers, 2 faults | `PeerStored` (`ConfirmedMeansPeerStored`, `SavedIsStored`), `TermsAgreed` (`FixedEndpointsImmutable`, `ConfirmedAgree`) |
| `durable_liveness` | 6 identifiers, at most 1 fault | `PromotionConverges` (behaviours without a fault), `AgreementRecovers` |
| `dynamic_faults` | each node dials once, timers free, 1 fault | `InterfacesOwned` (`AttemptOwnsInterface`, `NoLeak`), `TransmitAfterReady` |
| `dynamic_liveness` | each node dials once, no fault; timers free or none | `SettlesTogether` (timers free), `CalmLinkForms` (`DirectLinkForms`, `SmallerUUIDWins`: no timer fires) |
| `supervisor_faults` | 2 proposals, any availability, 2 faults (losses, broken sessions, failed kernel calls, failed saves with or without a failed removal, crashes, changes of availability) | `HealthyMeansLinked` (`HealthyInstalled`, `HealthyAgree`), `AdjacencyBacked` (`AdmittedStands`, `ReceiptStands`), `ForwardingKept`, `LinkRecovers` |
| `supervisor_converge` | as `supervisor_faults` | the first finding below |
| `daemon_recovery` | 2 configurations sharing no table, 2 namespaces, window 3, stable 2 (recovery-window and recovery-stable in ticks), 1 reload per process | `UpTablesRecorded`, `ReadyMeansInstalled`, `DeadlineNotExtended`, `RetireNeedsWindow`, `CompletedStopRetains`, `DeadDaemonRetired` |
| `daemon_stop` | 1 namespace, window 2, stable 1 | the second finding below |
| `peer_search` | 2 endpoints per node, 2 rounds, 6 networks, 1 failure; any loss, delay and duplication of probes | `OneVerdict`, `InStep` (`Lockstep`, `QueueBounded`), `PathsSound` (`PathIsLive`, `CalmConnects`), `SearchEnds` |
| `babel_manager` | 1 Link; a detached daemon with no configured interface, and a unit with one; 2 pids, 2 changes of Link states, 3 faults | `IdleIsUpToDate` (`NoLostUpdate`, `IdleMeansActive`), `DaemonAccounted` (`OneDaemon`, `StoppedMeansGone`), `OnlyDaemonSignalled`, `RoutingFollows` |
| `link_policy` | 2 loopbacks, largest revision 3, 2 ends of a publisher runtime, 1 fault or query or dial of the publisher's | `PublishedIsDurable`, `OneLoopback`, `ImplementsRegister`, `PolicyConverges` |

A name with others in parentheses is their conjunction. The runs of
`DynamicLink`, `LinkSupervisor`, `PeerSearch` and `BabelManager` also check the type
invariant `TypeOK`. `TypeOK` of the other modules, `Agreement` and
`EpisodeEndsOnlyWhenStable` are proved for all values of the constants (section 4) and
not run again.

Why the bounds are enough to be interesting. Three proposals and three attempts let
a negotiation run through counterproposals on both sides, attempts that derive alike, and exhaustion.
Two agreement identifiers allow a proposal and its counterproposal, or a proposal
from each node, with two faults between them (three identifiers, 1.9 million states,
give the same verdict in a longer run); the liveness run raises the identifiers until a
fault's recovery never runs out of them. A node at its soft limit, which accepts
proposals and makes none, is a setting of the same module (`Full`): with one such node
the safety properties hold as well (264 thousand states). One dial per node is what two crossing
Proposals need, and it already reaches every action of `DynamicLink`: a Link that
comes up, is lost, and is replaced by the Proposal of the other node.

Two proposals are what a replacement needs, and two faults are a change of
availability that causes one and a failure in the middle of it, or the failed save of a
receipt and the crash after it (787 thousand states).

Two rounds let a probe, a report or a barrier of the first meet the second; the
networks have two mutual paths, one, none, and the same candidates twice, so that a late
probe looks like a new one. Two pids let a stranger take the daemon's while a new daemon
runs under the other, or two daemons run at once; three faults are the exit of `velvetd`
after a launch, its next failure and the death of a daemon, or the exit, the death and the
reuse of the pid. With no configured interface the update channel holds one update,
and the second change finds it full. Revision 3 with two stops covers a counter that runs out and one
that does not; two loopbacks are what a move needs.

Window 3 and stable period 2 let a restart fall inside a healthy spell, inside an
episode and between the two; crashes, failed saves and restarts are not bounded in
`DaemonRecovery`, and a process reloads once because a second reload of the same
process starts from the state the first one ended in.

`DynamicLink` runs without deadlock checking: when both dials are spent the
modelled system has nothing left to do; `PeerSearch` ends and `BabelManager` may stop
for good. The other models never stop for good, or
stutter explicitly when a session is over.

Random simulation of `DurableAgreement` beyond these bounds (six faults, five
identifiers, two endpoints; 39 million states) found no violation of its invariants.

### Fairness

* `LinkNegotiation`: every loop of `Engine.Run` keeps running, the network delivers
  what was written to an open connection, and the phase timers fire. Nothing is
  assumed of commits succeeding or of the connection staying up.
* `DurableAgreement`: the manager's ticker runs, handlers run, an unanswered check or
  dial ends, a lost Link is re-established and a crashed node restarts. Faults are
  bounded in number, never assumed away.
* `DynamicLink`: goroutines and timers are scheduled and the cleanup retry runs.
  `DirectLinkForms` and `SmallerUUIDWins` speak of the behaviours in which no timeout
  elapses, which says that ten and thirty seconds are
  long compared to a message.
* `LinkSupervisor`: supervisors and workers keep running, Hello, ping and pong get
  through, a supervisor or a process that ended is started again. Faults are bounded
  in number.
* `PeerSearch`: each side's search keeps running (its timers fire, it reads its inbox).
  Nothing is assumed of probes.
* `BabelManager`: `Run` and its ticker run, senders are scheduled, systemd starts what is
  enabled and restarts `velvetd`, a daemon opens its socket, a stop that began goes on.
* `LinkPolicy`: `velvetd` is restarted and its start takes its course, scans tick, dials
  and sessions end, datagrams that are not lost arrive, retention runs out, and the route
  to the publisher's loopback settles. Stops and faults are bounded in number.
* `DaemonRecovery`: time passes, the systemd timer keeps firing while the check can
  run, and a cleanup that is tried again and again succeeds at last (strong fairness
  of `RetireDone`, the one assumption on the kernel). Nothing is assumed of the
  daemon or of the exit record.

## 4. Proofs

`LinkNegotiationProofs` proves, for every set of proposals, every bound on
counterproposals, every setting, with and without drift and faults:

* `TypeCorrect`: the type invariant, and that the attempt counters respect the bound;
* `TurnsAlternate`: the inductive invariant below;
* `AgreementHolds`: the two ends never install different Links;
* `AcceptAfterInstallHolds`: a LINK_ACCEPT in flight stands on an installed Link;
* `ImplementsAgreementHolds`: a session implements `LinkAgreement`;
* `OffersInvariant` and `OffersAlternateHolds`: offers alternate, and none is repeated;
* `ConvergesHolds`: two ends that derive alike, answer steadily and meet no fault
  install the first attempt free for both.

A LINK_ACCEPT does not say what it accepts, so agreement rests on turns. The
invariant says that of all the things that can decide the negotiation - a proposal
or an acceptance on the wire, an outbound one not yet written, a commit not yet
installed - at most one exists at a time (`TurnInv`), and that an acceptance
answers exactly the proposal its receiver has outstanding (`AcceptBacked`).
`Agreement` alone is not inductive: it does not exclude a second acceptance on its
way. The proof has one step per action; those that send or commit are the ones
where a turn passes. The assumptions are the named ones of `LinkNegotiation` on its
constants.

That no offer is repeated needs `OfferInv` on top of the turns: the two `seen` sets are
one list of offers, but for the newest offer, which its reader has not noted yet; and a
proposal not yet read is that newest one. It follows that between two such ends the
close on a repeated proposal in `handleProposal` is never taken: it answers a peer that
does not follow the protocol. Convergence adds `CalmInv`, for the settings the property
is about. Its data part says that `nextProposal` passes over an attempt only if it is
taken or was seen (`AttemptsSpent`), and that no offer but the newest is free for both
(`OffersOrdered`), so the attempt it offers is the first joint one or none is. Its
control part (`Course`) lists the twelve points of an undisturbed session, each with the
frames either end has yet to read, those about to be written included. Some frame is
under way at each of them until both have agreed, so neither end times out, discards a
frame or reads a close before its Link is installed. Either this holds or no attempt is
free for both: giving up is the only way off the course, and `nextProposal` gives up
only then.

`DaemonRecoveryProofs` proves, for every set of configurations and namespaces, every
window and stable period and any number of reloads, every safety property of the
`daemon_recovery` run and two more: `TypeCorrect`, `UpTablesRecordedHolds`,
`ReadyMeansInstalledHolds`, `DeadlineNotExtendedHolds`,
`EpisodeEndsOnlyWhenStableHolds`, `RetireNeedsWindowHolds`, `CompletedStopRetainsHolds`.
They rest on `RecordSound`, the invariant `RecoveryInv`: the checker retires only
while no daemon lives (`LockExclusive`); a live process has an open, unretired record
whose healthy age is its own streak (`RecordFollows`); what is ready is installed, and
but for the last step of a reload on record (`ReadyInstalled`); an open episode, be it
reconstructed from `LastProgress`, is no older than the last stable health or completed
stop (`EpisodeBounded`); a completed stop leaves the record closed until the operator
starts the unit (`StopStands`).
`RetireNeedsWindow` needs `EpisodeBounded` because the check reconstructs the start of
an episode from `LastProgress`, and `EpisodeBounded` needs `RecordFollows` because only
the process that recorded the health may close the episode. The field-by-field effect of each tracker
operation is a lemma of its own, so the steps never expand a record update.

`LinkPolicyProofs` proves, for every set of loopbacks, every largest revision and any
number of stops and faults: `TypesHold`, `DurablePublication`, `UniqueBinding`, and
`Refinement`, that the exchange implements `PolicyRegister`. They rest on `Invariance`.
The inductive invariant adds three parts to the checked ones. `Reserved` follows the
publisher's start: the synced counter is never above the visible one, a start that got
past the read has room for one more revision, and a runtime that is up holds a synced
revision above every decision published before it. `Carried` says that every decision in a
datagram, in a reply or in a cache was published. `PublishedIsDurable` needs `Reserved`,
because only there it is said that what is about to be published was synced. `OneLoopback` is not inductive by itself, because
`prepareOutbound` writes the identity without looking at other targets. `DialKeepsTarget`
says that its target still has the identity `bindPolicyPeer` gave it, so that the write
changes nothing; it holds because no target is evicted while it is dialled, and a restart
ends every dial. The
refinement needs `Carried`: a merge maps to `Learn`, which takes its decision from the
published ones, while a query, an eviction or a restart maps to `Forget` or a stutter.
The assumption is `PolicyAssumption` on the constants.

`LinkSupervisorProofs` proves, for any number of proposals and of faults, every safety
property of the `supervisor_faults` run: `TypeCorrect`, `HealthyIsLinked`,
`AdjacencyIsBacked` and `ForwardingIsKept`. They rest on `LinkInvariant`. Its first half
is about one node (`NodeInv`): a supervisor or process that ended leaves nothing behind
but kernel and receipt file (`OffIsClean`); what names addresses - the supervisor's
result, the receipt in memory, the worker that installed - names those of the state
(`OneLocal`, `WorkerSound`); a receipt on file that is not stale is the adjacency last committed
and, while a process runs, the one in memory (`FileSound`); a session that replaced the Link has withdrawn what
outlives it (`ChangedIsBare`). The second half is about the two sides: two workers that
are joined stand at matching steps of one session (`ConnJoins`), a commit follows the
peer's installation (`CommitIsLast`), and what the two nodes would come up with is the
same unless a session was torn or a stale receipt adopted (`SidesAgree`). `HealthyAgree` needs all of it: what a node
adopts after a crash is its receipt, so agreement has to be said of receipts, of results
and of installations in progress before it can be said of healthy Links.

`BabelManagerProofs` proves, for every finite set of Links, every set of pids and any
number of changes and faults, every safety property of the `babel_manager` run:
`TypeCorrect`, `IdleIsUpToDateHolds`, `DaemonAccountedHolds`, `OnlyDaemonSignalledHolds`.
The invariant (`ManagerInvariant`) identifies a process by its start time: start times are
unique, and a record has one of a stranger only if it was read for the socket's process
(`GensUnique`, `NamesSound`). A daemon counts unless it was overlooked: the one that counts
is the one on record, if that is alive, or the one `ensureService` has in hand, so that a
spawn finds none (`SpawnSound`), and the one `StopInstance` has in hand (`StopSound`), which
also says that the pinned process is the one whose start time was compared. What was
rendered is up to date or an update is queued or about to be; it is in the file once written
(`RunSound`). That at most one daemon counts needs `SpawnSound` through every failed save,
because a candidate in hand is lost with the iteration and must be found again, by the
record or the socket. That a signal finds no stranger but a mistaken one rests on
`GensUnique` and on the pin being taken before the start time is compared.

`DurableAgreementProofs` proves, for any number of identifiers, endpoints and faults and
any choice of qualified, full and passive nodes, every safety property of the
`durable_faults` run, `PeerStoredHolds` and `TermsAgreedHolds`, and `TypeCorrect`. Each of the
twenty-nine actions is first shown to have one of seven shapes (`Shapes`: a node learns
nothing, starts, dials, counters, accepts, fails to accept, confirms), and the invariant
is proved for the shapes. `FixedEndpointsImmutable` is inductive once `Named` says what
names terms: a step names what was named, or one new identifier that nothing used.
`ConfirmedMeansPeerStored` follows: a DURABLE_SAVED that matches the operation is about an
identifier the peer stored, hence about the same terms. `ConfirmedAgree` is far from
inductive. A session has one frame in flight (`OneFrame`), so a node that sent
DURABLE_SAVED either waits on that session or has given the operation up; so the two nodes
are never both about to accept a confirmation (`OneMatch`), not even on the two sessions
of crossing proposals; so a node that accepts one finds a peer that has confirmed the same
terms or nothing (`MatchSound`). What a node holds as confirmed must include its file,
because a restart loads it (`BeliefsAgree`).

`DynamicLinkProofs` proves, for any number of dials and of failures, with timers and
without, every safety property of the `dynamic_faults` run: `TypeCorrect`,
`InterfacesOwnedHolds`, `TransmitAfterReadyHolds`. They rest on `LinkInvariant`. What a
node holds is in one of three hands (`Held`): its Attempt (`AttemptHeld`), its deferred
cleanup (`CleanupHeld`) or the retry of a failed one (`Accounted`), and the committed state
follows the Attempt (`LinkHeld`). An alias tells generations apart only if no two
generations share one, which `InterfacesOwned` does not say: `Fresh` does. An operation is
new to its dialler until it prepares the Attempt, and to the peer until it has taken the
Proposal, which is the first frame of its session and is sent once. That is inductive
because a node has one session of its own at a time, and none while a cleanup is due
(`OneDial`). `TransmitAfterReady` rests on `Configured`: a worker past its first critical
section has configured the interface of the current Attempt, and a WG_READY in flight says
so. Every action is first shown to fit one description (`Moves`: what it may do to
resources, to the protocol of a session and to probing), and the parts of the invariant are
proved from that.

`PeerSearchProofs` proves, for any finite sets of endpoints, any candidates and NATs, any
number of rounds and of failures, every safety property of the `peer_search` run:
`TypeCorrect`, `OneVerdictHolds`, `InStepHolds`, `PathsSoundHolds`. They rest on
`SearchInvariant`, for which every action is first shown to have one of seventeen shapes
(`Does`). The control messages of a node are numbered in the order RunPeer sends them:
candidates of round r, its barrier, the candidates of the next round, and WG_READY after the
barrier that connected. `Line` says that what is on its way to a node is a run of
consecutive numbers that begins with the one it waits for and ends with the last one sent;
it is inductive because a node sends a message only after it took the peer's previous one.
`Line` also bounds where the peer can be, which is what the other parts need.
`MessagesSound` says what a message in flight still says of its sender, and `Verdicts` what
the verdict of a node says of its peer: `OneVerdict` alone does not say that a peer still at
the exchange will conclude the same (that its path mirrors, that it has no news either).
`Evidence` is about the probes: each was sent along a candidate in a round both nodes are in,
what is collected was opened in this round, each probe is reported once, and none that was
opened is lost before its round ends. It gives `PathIsLive` and, by an injection of queued
reports into probes sent, the bound on the queue. In a calm network it makes what a node
found equal to what the NATs allow (`Calm`); that both nodes choose the same of several is
the lemma `LeastMirrors` about `reciprocal`. `SearchAssumption` says of the endpoints that
they are finitely many numbers and no two nodes share one.

Every invariant a run checks is proved. Only model-checked: liveness everywhere, because
liveness under fairness is outside what the prover supports.

## 5. Findings

`supervisor_converge`: the protocol document says that when a session fails between
the two installations, ordinary negotiation must converge state again
(docs/protocol/VFP.md:811). The acceptor of a replacement has installed it and is done;
the proposer's session failed before its install request, so it keeps the old addresses
(or, after a crash, adopts them from its receipt). Both answer pings, which do not say
for which addresses; both stay healthy, and healthy supervisors say no Hello. They keep
different addresses until the Link fails for another reason. `HealthyAgree` states
the agreement that does hold: when the last session did not end on one side only, and no
node has adopted a receipt that an earlier process passed over, two healthy supervisors
agree.

`daemon_stop`: README.md:566 says intentional stops do not start a retirement
deadline. A stop that reaches `velvetd` while a runtime is starting makes `startRunner`
return the cancelled context's error; the process ends without `Tracker.Stop`, the
record stays running, and after the window the timer retires the stopped instance.

Remarks: behaviours met while modelling that no run reports.

* docs/protocol/VFP.md:1462 says concurrent opposite durable proposals are serialized by
  the lower UUID; `handleLink` applies the tie-break only to proposals with different
  identifiers. After a lost final confirmation both nodes may retry the same identifier,
  adopt each other's session and treat the SAVED on their own as stale. The terms are the
  same, so `ConfirmedAgree` and `AgreementRecovers` hold; the confirmations wait for a
  retry that does not coincide, and `PromotionConverges` speaks of behaviours without a
  fault.
* README.md:564 says the timer removes the instance's kernel resources. `Begin` after a
  completed stop starts a fresh record and forgets the tables whose routes that stop
  retained. If the configuration changed and the new process ends before its first
  reconciliation deleted the stale routes, a later retirement leaves them.
* `prepareWarmLinks` skips a receipt whose addresses are not on the interface and leaves it
  in the file until the next save. If a failed install puts those addresses back, or the
  process ends after a commit and before its receipt (link_health.go:197 and 212), a later
  process may adopt the old receipt after all, while the peer has come up on other addresses
  in between. So it is when a withdrawal can neither save the file nor remove it
  (warm_links.go:271-276: "Do not leave an older receipt eligible after a failed withdrawal
  write"). `stale` keeps track of such receipts.
* internal/babel/service.go:80 says that socket credentials recover the identity of a daemon
  when `velvetd` crashed between spawn and record, and README.md:367 speaks of one
  independent Babel daemon. When `velvetd` runs again before that daemon has opened its
  socket, neither record nor socket shows it: `ensureService` launches a second one, or
  `StopInstance` removes the record and the daemon goes on. `DaemonAccounted` states what
  holds otherwise. If the second daemon takes the socket over, the record may name either;
  a record of a daemon without a socket is believed, and `Run` retries for as long as it
  lives (`Misled` in `RoutingFollows`).
* The same comment says that identity is never inferred from a recycled pid alone, and
  service.go:210 that the saved generation is verified before signalling. The pid from the
  socket (118, 206) and its start time (119, 207) are two reads: when the daemon ends and its
  pid is reused in between, the stranger's start time goes on record. `ensureService` then
  takes the stranger for the daemon, and `StopInstance` signals it. `OnlyDaemonSignalled`
  states that this is the only way.
* A status answer ABSENT from before a Link recovered may delete the agreement confirmed
  since (`durable_recovery.go:246`); a deletion that fails after its rename leaves a record
  in memory that is gone after a restart; a node that does not qualify keeps a confirmed
  agreement its peer has deleted for as long as the Link stays healthy.
* When the answer to a Babel reload is lost after the daemon reloaded, `runOnce` restores
  the previous file: until the next iteration the daemon runs on a configuration that is
  not in its file. The first save of `ensureService` may overwrite the record that
  `ExecService` of a unit just wrote; the socket restores it. A detached daemon launched by
  a process that ended before recording it, followed by a change of the plan to a unit,
  is not on record when the unit starts.

## 6. Plan

Done: session engine, durable agreements, dynamic Link Attempts, peer search, Link
policy, Link supervision and warm receipts of configured Links, Babel supervision, daemon
and recovery, and the proofs about the session engine, the policy exchange, the daemon,
Link supervision, the Babel manager, durable agreements, dynamic Links and peer search.
Left:

* Abstract specification of a durable agreement (a register two nodes hold), and
   `DurableAgreement` shown to implement it.

### Not modelled

* Message codec, configuration parsing, control socket, netlink backend, reconciler:
  sequential or pure I/O; their outcomes appear as choices of the models above.
* UDP port pool: one map under one mutex; what its users do with leases appears in
  `DynamicLink` as generations of an interface.
* Endpoint inference: pure classification of measurements; `PeerSearch` takes its
  proposals as a setting. `linkdiscovery.Run` (`search.go`) simulates both sides in one
  process and is used by tests only.
* Observer leases and the observer's side of a measurement; capacity over many peers;
  several Links to one peer.
