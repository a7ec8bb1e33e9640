# Verification of herdr-mesh

TLA+ models of the parts of herdr-mesh that decide what is true: what was asked
for, what was done on another computer, and what may be said about it after
crashes, lost messages and reconnects.  TLC checks the models on small
instances, TLAPS proves the most important results for every instance.
Source paths below are relative to `src/src/internal/`.

## The system

One **coordinator** (`server/`) and any number of **nodes** (`node/`) are joined
by one bidirectional gRPC stream per node.  Controllers (command line, dashboard,
MCP server) call the coordinator.  Both sides keep a SQLite journal (`state/`);
everything else is lost when a process ends.  A node carries out commands against
the local Herdr program (`herdr/`, `herdrsession/`), whose effects cannot be
rolled back and cannot always be observed.  On each computer a managed daemon
(`meshlocal/`) runs the roles; commands of the user install, stop and destroy it
(`onboard/`) and edit the tailnet's policy (`setup/`, `deinitnet/`).

| Component | State | Operations | What must hold |
|---|---|---|---|
| Command journal (`state/commands.go`) | a record per command: request, status, detail, audit trail | find, create, dispatch, reject, finish, expire, lose, recover | one key, one command; a decision stands; trails stay within their capacity |
| Node journal (`state/node_journal.go`) | an entry per claimed command: intent or result, delivered | claim, complete, pending, acknowledge, recover | an effect is never repeated; after a crash nothing is claimed that is not known |
| Admission and dispatch (`server/commands.go`) | the entry's outbound queue | SubmitCommand, prepareCommand, finishCommand | dispatch is committed before it is sent |
| Streams (`server/server.go`, `server/fleet.go`) | current entry per node, heartbeats, queues | begin, supersede, end, tick, prune, restore | one current stream; commands of a lost node are settled |
| Node session (`node/node.go`, `node/commands.go`) | worker queues, results to replay | handshake, receive, execute, complete, replay, acknowledge | every stored result reaches the coordinator |
| Project registry (`server/projects.go`, `state/projects.go`) | registration and generation per project, stored outcome, readiness of this stream | register, send, acknowledge, adopt | shown as applied only if the node is bound to it now |
| Node project cache (`node/projects.go`, `state/node_projects.go`) | last seen generation, latest and latest successful outcome | restore, save, apply, acknowledge, resolve | a mutation uses the binding it was admitted for |
| Managed bindings (`projects/managed.go`) | checkout and worktree root per project | Apply, RestoreOwnership, AdoptLegacy | no two projects in one place; a filled root keeps its owner |
| Agent lifecycle (`server/lifecycle.go`, `node/lifecycle.go`, `state/lifecycle*.go`, `herdr/lifecycle*.go`) | staged receipts of starts and stops, fences | admit, claim, pin, intend, act, record, progress, reconcile, recover | no effect twice, none denied; rivals stay apart |
| Named agents (`app/managed_commands.go`, `state/named_agent.go`) | a ledger of requests per computer; names at the coordinator | start, stop, repeat, resolve | a name is started once, as first asked |
| Agent queries (`server/agents.go`, `node/agents.go`, `herdr/agent_query.go`) | waiting calls, tombstones, queries at work | query, answer, cancel, expire | answers go to their questions and are of the right server |
| Native sessions (`herdrsession/manager.go`, `node/sessions.go`) | the remembered start; discovery and trees | Status, Ensure, observe | one start at a time; a tree belongs to its label |
| Topology (`herdr/observe.go`) | subscription, hints, numbered states | subscribe, snapshot, publish, forward | the coordinator's picture is right when the node rests |
| Watching and following (`fleetwatch/`, `server/watch.go`, `control/watch.go`, `control/follow.go`) | subscriptions, last snapshot, gap; pinned agent | read, emit, renew, retry; poll | fresh, or said not to be; one agent |
| Store (`state/store.go`, `state/schema.go`, `state/identity.go`, `server/persistence*.go`) | database, schema version, identity, bindings | open, migrate, transaction, retry | an answer says what was committed; it can be opened again |
| Backup (`state/maintenance*.go`) | role and file locks, copy, manifest | inspect, back up, verify | a verified backup was a state of the role |
| Managed daemon and its commands (`meshlocal/`, `onboard/`) | configuration, guards, destroy record | init, start, stop, shutdown, destroy, run | destroy can be resumed and nothing comes back |
| Tailnet policy and devices (`setup/`, `deinitnet/`, `onboard/policy_recovery.go`) | markers and receipts of an update, keys | preview, update, reconcile, remove, delete | nobody else's change is lost; receipts are true |

What makes this hard: both processes crash between any two commits; a stream
breaks on one side long before the other side notices; a node's clock differs
from the coordinator's; a node's workers run beside its receive loop; the
coordinator's deadline tick races the node's answer; the native effect itself
may have happened although nobody saw the reply; native servers and agents are
replaced behind everybody's back; and the tailnet's policy is edited by others.

## Modules

Components interact in two ways that the models keep: over the stream (messages
in flight are lost with it) and through the journals (each transaction is one
step).

### Commands

* **CommandJournal** - the coordinator's records as pure operators: which
  transitions and outcomes are valid, and what dispatch, rejection, result, expiry,
  loss and recovery make of a record.  `validCommandTransition`,
  `validCommandOutcome`, `FinishCommand` and the others keep the names of
  `state/commands.go`.
* **NodeJournal** - the node's entries: intent, result, recovery of interrupted
  intents to *indeterminate*, replay, acknowledgement.
* **CommandDelivery** - the state machine that composes the two journals with the
  stream and the workers.  Coordinator: `SubmitCommand`, `PrepareRejected`,
  `PrepareCommand`, `finishCommand`, `ExpireCommands`, `BeginSession`,
  `EndSession`, `CoordinatorCrash`, `CoordinatorRestart`.  Node: `NodeStart`,
  `OpenStream`, `Registered`, `ReceiveCommand`, `Claim`, the `Execute...` outcomes,
  `CompleteCommand`, `AbandonCommand`, `SendResult`, `ReplayResult`, `ReceiveAck`,
  `CloseSession`, `SessionClosed`, `NodeCrash`.
* **CommandContract** - the abstract specification: what a controller may rely on.
  `CommandDelivery!ImplementsContract` is the refinement, with `told` read off the
  record's status and the ghost variables `runs` and `applied` for the native
  requests and their effects.

### Projects

* **ManagedProjects** - the node's cache of bindings as pure operators over an
  abstract filesystem (where links lead, which checkouts are there, which roots
  exist and are full).  `Refusals` gives the codes with which `apply` may refuse.
* **ProjectSync** - registration, delivery, application and acknowledgement of
  projects, and the way of a mutation from admission to the binding a worker uses.
  `SaveProjectConfig`, `ApplyBinding` and `SaveProjectAck` are the three steps of
  `applyProject` between which the process or the session may end.

### Agents

* **LifecycleReceipt** - the receipt of a start or stop as pure operators: what may
  follow what in it, which conclusion it supports (`protocol/lifecycle.go`), and
  which commands rival each other (`state/lifecycle.go`).
* **AgentLifecycle** - starts, stops and controls from the coordinator's record to
  the native effects: `Submit` behind the coordinator's fence, `Dispatch`,
  `Expire`, `StreamEnds`, `SaveCommandProgress`, `FinishCommand`; at the node
  `Claim` behind its own fence, `PinAgentCommand`, then per stage `Intend`,
  `Effect` and `Record` with a checkpoint that may fail, `Finish`, the steps of a
  control, `NodeCrashes` with recovery, and `NativeRestart`.
* **ManagedRequests** - `agent start` and `agent stop` of the managed command line
  for one name, on several computers: the ledger file that is written before each
  of the three commands of a start (`Persist`, `FinishWrite`, torn files included),
  its repetition, the resolution of the name, and what the coordinator and the node
  make of the requests.
* **NativeSessions** - the manager's `Ensure` with the start it remembers
  (`EnsureCheck`, `EnsureStart`, `EnsureWait`) and the observer of sessions
  (`Discover`, `ApplyDiscovery`, `ReadTree`, `LabelTree`, `ApplyUpdate`).
* **AgentQueries** - extends NativeSessions with queries: the waiting calls and
  tombstones of the coordinator, cancellation, the bounded queues, and the node's
  `Resolve`, `Read`, `Verify` around the native server.
* **AgentFollow** - a follower: `Lookup` pins the agent, a query looks, reads and
  looks again (`GetBefore`, `ReadText`, `GetAfter`), results and gaps are shown.

### The fleet's view

* **FleetSessions** - the coordinator's fleet store under the Connect handlers of
  several streams.  A handler's way is `Connect` (Hello read, time read),
  `BeginWaits`, `BeginGivesUp`, `BeginRefused`, `Begin` or `BeginFails` (the outcomes
  of `beginSession`), then `Heartbeat`, `PrepareCommand`, `finishCommand`,
  `PrepareOther`, `Send`, `SendReturns`, and `Return` and `End`.  Around the handlers:
  `SubmitCommand`, `List`, `ExpireCommands`, a storage failure at every write, a
  breaking transport, `Stop` and `Start` of the process, and `Tick`.  It uses the
  records of `CommandJournal` and adds their times.
* **HerdrObserver** - the node's topology: subscription, hints, snapshots, numbered
  states, heartbeats, and the picture the coordinator keeps.
* **FleetWatch** - the subscriptions of `WatchNodes`: a handler reads, compares,
  emits and waits; the command line shows snapshots and gaps, renews its stream and
  tries again.  A handler whose client is gone keeps its slot until it notices.

### The host

* **StoreOperations** - opening (identity, lock, pre-creation, the migrations in one
  transaction, import, loading) by several processes, and operations of callers of an open
  store: gate, transaction, cancellation anywhere, commit that may succeed and
  report an error, certified failure, and the one retry of `persistCoordinator`.
* **RoleBackup** - a backup between the locks, the copy, the second reading, the
  manifest and its verification, next to a current runtime and an old process that
  knows no locks.
* **TailnetPolicy** - the policy part of init, the setup command with its enrollment
  keys, the removal of the policy and of the device, and the recovery of an update
  whose outcome is not known.  Other people edit the policy between any two steps.
* **ManagedHost** - extends it with the daemon and the commands init, start, stop
  and destroy on one state directory.  Every step of destroy (record, preflight,
  stop, device, policy, the parts of the purge) is an action of its own, and every
  process may die between two.

### Proofs and instances

* **CommandJournalProofs**, **CommandDeliveryProofs**, **ProjectSyncProofs**,
  **AgentLifecycleProofs**, **NodeServicesProofs**, **FleetSessionsProofs**,
  **NodeViewProofs**, **HostProofs** - see Proofs.
* **MCCommandDelivery**, **MCProjectSync**, **MCFleetSessions**, **MCFleetView**,
  **MCAgentLifecycle**, **MCNodeServices**, **MCHost** - the instances for TLC.  Where
  an instance holds several machines that share no state, a variable `part` (or a
  constraint) makes one of them move in each behaviour; the others stay as they
  began.

Definitions named `...Certain`, `...InPlace`, `...Now` and the like, each under a
comment that starts with "Mutant", are deliberately wrong variants of the
definition that follows.  Nothing uses them; replacing a definition by its variant
must make the property named for it in PROJECT.json fail.

## Runs

| Run | Instance | What it shows |
|---|---|---|
| `delivery_project` | three command ids, two of them attempts with one key, the third a rival mutation of the same project; two streams; queues of one | `AtMostOnce`, `HonestOutcome`, `NoConflict`, `AcknowledgedAgrees`, `ProjectQuarantine`, `DecisionsStand`, refinement of `CommandContract` |
| `delivery_mixed` | a probe and a session ensure, node journal of one entry, with fairness | the inductive invariant `SafetyInv`, `TrailBounded`, and that commands settle (`Settles`) and results are delivered (`Delivered`) |
| `sync_links` | one project registered through a link or directly, the link moving, a checkout coming and going; two generations, three streams, one mutation, with fairness | `ReadyMeansBound`, `BindingKept`, `GenerationsAgree`, `Answered` |
| `sync_roots` | two projects with two checkouts and two roots, one adopted from a policy file; two generations, two streams, one mutation | `NoFault`, `RootsApart`, `OwnershipSurvives` |
| `sync_identity` | as `sync_links`, one generation | a *violation*: `IdentityStands`, see Findings |
| `fleet_takeover` | *takeover*: two nodes, room for one, three streams, three units of time with a retention of one. *commands*: one node, two streams, two commands, a queue of one, storage failures, restarts. *topology*: three changes, three states per stream, two streams. *fleet*: two watchers, two slots. *agent*: two terminals, two sessions, two texts, two failures | `OneSender`, `ServingIsCurrent`, `LimitIsNoFailure`; `NoneStranded`, `ConnectedIsServed`; `PictureCurrent`; `WatchersTold`; `FollowsOne` |
| `fleet_waiting` | one node, three streams, or two and a command, with fairness | `TakeoverEnds` |
| `fleet_clock` | one node, two streams, one command | a *violation*: `OnlyStorageStops`, see Findings |
| `agent_lifecycle` | *lifecycle*: pairs of two starts, a start and a control of its agent, two controls, a control and a stop; one stream that breaks, two native servers. *requests*: two operators on one or two computers, three commands | `EffectsRemembered`, `HonestLifecycle`, `Apart`, `Reconcilable`; `StartedOnce` |
| `node_services` | two ensures, or the observer, or two queries; two processes, two incarnations; one place for tombstones, queries at work and results | `OneStart`, `TreeLabelled`, `FreshAnswer`, `AnswersMatched` |
| `host` | *host*: two commands at a time, three in all, two daemons launched, one crash. *confirmed*: four commands of two, init and destroy only, two daemons launched, no crash, each purge run to its end at once. *tailnet*: two commands, another person's edit. *openings*: three starts of two processes over databases of every version. *callers*: two callers, two calls. *backup*: three begun, two writes | `DestroySafe`; `PolicyHonest`; `StoreHonest`; `BackupIsSnapshot` |
| `host_destroy` | *confirmed* alone | a *violation*: `RecoveryRetained`, see Findings |

The longest runs take two to four minutes on two cores (`delivery_project`,
`delivery_mixed`, `sync_links`, `sync_roots`, `fleet_takeover`, `fleet_waiting`,
`agent_lifecycle`, `node_services`, `host`), the others a minute or less.

### What the properties of agents and host say

* `EffectsRemembered`: no native effect of a start or stop happens twice; the journal
  never says *not attempted* of one that happened nor confirms one that did not.
  `HonestLifecycle`: the same of what is concluded at the end, at both sides.
  `Apart`: two rival commands that the node let through to one native server are
  never open at once.  `Reconcilable`: the coordinator refuses nothing the node reports.
* `StartedOnce`: however often and wherever a start by name is repeated, the agent is
  started once, as first asked, and a stop is for the pane that start made.
* `OneStart`: no second native server is started next to a slow one.  `TreeLabelled`
  and `FreshAnswer`: trees and answers are of the server they are labelled with or
  pinned to.  `AnswersMatched`: a waiting call gets one answer, so that the fleet's
  lock is never held while a channel is full, and a late answer ends a stream only
  when its tombstone had to make room.
* `PolicyHonest`: no change of others is lost, receipts name policies that were live,
  removal has removed, keys do not leak silently.  `DestroySafe`: a
  destroy record that says its device is removed is true, always; the enrolled device
  stays named until it is gone, and no daemon runs on a destroyed installation, *until*
  two destroys overlap or a daemon runs on an unlinked guard file.  The variable `raced`
  remembers the first time one of these two happened (`Overlap`, `Unseen`); what is lost
  then is under Findings.  `RecoveryRetained` is the second part without the exception.
  `StoreHonest`: an operation happens at most once over its retry and exactly once if
  it reports success; a database with a committed schema passes its inspection, with its
  tables and its one-to-one bindings.  It does not say that every file can be opened:
  the one that was created and has no schema yet is excepted by name, see Observations.
  `BackupIsSnapshot`: what
  verifies was the role at one moment.

### Bounds

* Streams per node: two let a command, a result or a registration of one session
  meet the next one; `sync_links` has three because a changed identity needs
  an outcome from each of three sessions.  Crashes are limited only by the streams,
  except on the host, where one crash at any step is followed by a complete rerun.
* Command ids: two attempts at one key and one rival are the smallest instance in
  which deduplication and the project's quarantine meet.  The two attempts are
  symmetric.  That run checks no liveness property.
* Lifecycle commands rival each other in pairs (the fence looks at two commands at a
  time), so the run takes each pair of kinds rather than all commands at once.
* Capacities are 1 or 2, so full queues and full journals happen.
* Generations: two, the smallest number with a stale one.  The code's limit is
  2^64 - 1, at which registration is refused just as at the model's.
* Native servers and terminals: two, the smallest number with a replacement.
* The fleet has room for one node where two connect, and the clock runs past the
  retention, so refusals and expiry happen.  Three streams of one node are the
  smallest number with two that wait for a third.
* Two watchers and two slots: one watcher with a lingering handler leaves the other
  without a slot.
* Commands on the host: three in all, two at a time: init, a destroy that is
  interrupted or waits, and one more.  Four, of which two destroy, are the smallest
  number in which a destroy meets an installation made after the one it looked up; the
  part *confirmed* has them, with purges that run to their end, which leaves the wait
  for the user as the only way to overlap.  No property holds because of these bounds:
  what `DestroySafe` says is proved for any number of commands, and in the runs some
  behaviours have `raced` set.
* The proofs hold for every value of the constants that satisfies the named
  assumptions.

### Fairness

`CommandDelivery` assumes weak fairness of the coordinator's restart (whoever runs
it starts it again), of its clock and its tick, and of the two session loops: each ready
message is taken eventually, since Go's `select` chooses at random among ready cases
and every handler is bounded by timeouts.  Nothing is assumed of submissions,
crashes, disconnects or reconnects; `Delivered` and `Answered` are conditional on a
session that stays up.  `ProjectSync` assumes the same of its loops.

`FleetSessions` assumes that goroutines run and the lock is granted: a waiter that can
go on does, a handler whose entry is closed or whose transport is gone leaves its loop
and reaches `end`, and a Send on a stream that is gone returns.  A Send on a live stream
may block for ever.  The 10 s bound of `beginSession` is not assumed to fire, so that
`TakeoverEnds` speaks of the hand-over and not of the timeout.

The other modules state safety only.  Their runs do not check for deadlock: commands
end, bounds are used up, and a follower or watcher may stop for good.

### Abstractions worth knowing

* A call that changes nothing is a stuttering step.  Authorization, peer
  verification and readiness are choices of the environment.
* In `CommandDelivery` messages of a stream are sets, so one command may overtake
  another; the model allows more than the code.  In `ProjectSync`, where order
  matters, streams are sequences.
* A message on a stream that only one side still believes in is lost at once.
* Deadlines: the coordinator's clock decides when a command is due; the node
  decides by its own clock, independently.  Elsewhere a timeout may fire at any time.
* `ProjectSync` leaves out the capacities for projects (one total, one per node),
  nodes without the project capability, the failure of the coordinator's peer check
  (it ends the session, which `CloseSession` may do at any time), and storage errors.
* `FleetSessions` numbers streams in the order in which their Hello was read.  Its
  `Tick` holds the clock while a wait in `beginSession` (at most 10 s), a silent stream
  (at most the heartbeat deadline of 1 min) or the Send of a stream that is gone would
  last longer than the retention of an offline node (15 min).  A failed write leaves
  nothing behind, except that `beginLocked` saves the new view before it loses the
  node's commands.
* Directories and roots of the model are distinct and do not contain one another; a
  directory that goes away comes back as itself; roots are never removed.
* `AgentLifecycle` takes the last check of the native session and the native request
  that follows as one step (`Effect`, `SendControl`).  The code has nothing that makes
  them one: its comments concede that a server or an agent may be replaced in between
  (`herdr/lifecycle.go:126`, `herdr/agent.go:30`).  The properties say nothing of effects
  on such a replacement.
* In `AgentQueries` a query may be sent after its deadline (the code looks at the time
  once more, `server/agents.go:135`), so there are more late answers than in the code.
  Every query is pinned to an incarnation; those of the default session, which may have
  none, are not modelled.
* When `Status` fails after a tree was read, `NativeSessions` shows nothing new, as when
  the label does not fit.
* In `AgentLifecycle` a native precondition that is refused (a busy or changed agent,
  a missing workspace) is one nondeterministic refusal, and queues never fill; full
  queues are in `CommandDelivery`.
* `HerdrObserver` and `FleetWatch` count changes instead of comparing trees, so a
  tree that changes and changes back is two changes; the code would not send it
  again, and then nothing new is to be shown.
* The applies that were ever saved are kept in a sequence, each with a flag that says
  whether its files are still there; numbers stand for the names of previews, which are
  not used again.  Files of the policy are written only while the directory exists.
* A policy is the set of its mesh and foreign entries; its text, comments and order
  are not kept.  A lost request may still take effect, at once or later.  Nobody
  else deletes the managed device.
* The store's guards against foreign, damaged or legacy databases are left out, and
  so are the contents of rows.  `deinitnet.PreparePolicy` and `onboard`'s
  `readOwnedPolicy` are used by tests only.

## Findings

**The identity of a generation can change** (`sync_identity`,
`state/projects.go:302`).  `projectAckConflict` compares a successful outcome with
the *latest* outcome only.  A comment on it says that successful identities at the
same revision must not change, and `SaveProjectAck` says that changed same-revision
applied identities are conflicts.  TLC's counterexample: a project registered
through a link is applied in one directory; the node reconnects while that checkout
is unavailable and stores an invalid outcome; the link is pointed elsewhere and a
third session applies the project there, at the same generation.  Node
and coordinator both accept it.  Without the invalid outcome in between, the same
change is refused (and ends the node until the project is registered anew), which is
what `sync_links` exercises in `RefuseProjectAck` and `refuseAcknowledgement`.

`BindingKept` nevertheless holds: a mutation is admitted and resolved within one
stream, and on one stream the identity cannot change.

**A stale time stops the coordinator** (`fleet_clock`, `server/server.go:264`).
Connect reads the time before `beginSession` takes the fleet's lock.  TLC's
counterexample: the transport of a node's stream is gone and its handler has not come
to `end` yet; a new stream of the node reads the time and waits for the lock; a
controller, which holds it, submits a command to the old entry; the new stream then
loses the command with its older time.  `validateCommandRecord` refuses an audit trail
that runs backwards, `loseCommands` takes the refusal for a storage failure, and the
coordinator stops.  The operator guide lists what stops it, and this is not in the list.
A restart recovers.  Reading the time under the lock would remove the case.

**A destroy confirmed late deletes another installation** (`host_destroy`,
`onboard/shutdown.go:94`).  `shutdown --destroy` finds the installation's device, then
asks the user, and then takes `onboarding.lock`.  TLC's counterexample: while one waits
for its answer, another destroys the installation completely, init makes a new one of
the same configuration, and its daemon enrolls a device.  The first command gets its
answer and the lock.  It compares the configuration, which names no device
(`meshlocal/config.go:22`); finds no destroy record and writes one for the old device;
deletes that device, which succeeds because it is gone; and purges the new installation.
The new device is still enrolled and nothing on the host names it.  The message for this
case exists ("managed configuration changed before teardown; nothing was destroyed"),
and the operator guide says that `--destroy` removes the exact device and then deletes
the state.  Looking the device up under the lock, or comparing it there, would remove
the case.

Two more ways lead to the same loss.  TLC finds both with larger bounds than a run's, and
`raced` stands for them as well.

* *The lock goes before the purge ends.*  The first walk of the purge spares only
  `role-state.lock`, `config.json` and `destroy.json` (`meshlocal/teardown.go:366`; the
  comment above it says that locks survive a partial purge), so it deletes
  `onboarding.lock`, and the deferred removal of a command may remove the lock of a later
  one.  A second `--destroy` takes the lock during the purge of the first, reads the
  record that says the device was removed, and is slow; init makes a new installation
  and a daemon runs; the second then saves the stale record over it and may purge it
  (four commands).
* *The guard loses its name.*  A daemon opens the role-state file after the purge has let
  go of it and before the purge removes it, and looks at the configuration when another
  init has made a new one.  The next destroy sees only the file by that name and does not
  stop this daemon, which enrolls a device during the purge (five commands, two daemons,
  and no two destroys at once).  Preparing the role's state creates the directory again.

### Observations

Met while modelling; no document or test says otherwise clearly enough to call them
findings, and the properties are stated so that they hold beside them.

* Two streams of a node that are in `beginSession` together take the lock in any
  order; if the newer is first, the older closes it (`server/fleet.go:294`).  The
  node reconnects once more.
* With all watch slots in use, a watcher that renews its stream may find its own old
  handler still holding its slot, be refused and end (`control/watch.go:70`,
  `fleetwatch/watch.go:54`).  `FleetWatch` reaches this.
* A name whose session or workspace command failed or expired, whose session or
  project changed between two attempts, or whose ledger file is torn, cannot be
  started again on that computer: the kept key leads to the same command
  (`app/managed_commands.go:537`).
* `reconcilePendingPolicy` refuses when the proposal equals what was there before and
  the receipt is already written, although the update is complete
  (`onboard/policy_recovery.go:56`), and when two applies were saved.
* An update found "provably absent" (`onboard/policy_recovery.go:18`) may still land
  afterwards if its request was only slow.
* A crash between the pre-creation of the database and its first schema commit, or a
  failure of that commit, leaves a file that every later open refuses, when it is empty
  (`state/store.go:150`) and otherwise for its version 0 (`state/schema.go:102`).  The code
  refuses on purpose ("refusing to initialize or reset it"), and nobody has stored
  anything by then, but the file has to be removed by hand.  `StoreHonest` names this
  case (`Blank`), and says that nobody is past the schema on it.

## Proofs

`CommandDeliveryProofs` proves `Spec => []SafetyInv` (theorem `Safety`) for every set
of commands, keys and projects and all capacities, and from it `TypeCorrect`,
`AtMostOnceHolds`, `HonestOutcomeHolds`, `NoConflictHolds`,
`AcknowledgedAgreesHolds` and `TrailBoundedHolds`.  It also proves
the two action properties (`ProjectQuarantineHolds`, `DecisionsStandHolds`) and
that the delivery path implements its contract (`ContractHolds`).  The assumptions
are `RequestAssumption` (each id has one request; exactly project mutations name a
project) and `CapacityAssumption` (capacities are naturals); TLC evaluates both.

None of the properties is inductive.  `SafetyInv` adds where the single copy of a
command can be and what is true of it there:

* `CommandInv(c)`, by cases on the node's entry of `c`.  No entry (`AbsentInv`):
  nothing was requested, and the only result around is the refusal of a full
  journal.  An intent (`IntentInv`): the coordinator has no final answer and no
  message about `c` exists.  A result (`ResultInv`): it is honest, every
  copy of it in flight is equal to it, and the record is in doubt or agrees.
* `Untouched` and `InTransit` say that a command exists at one place before it is
  claimed: without them a second copy could be claimed after a restart.
* `TrailInv` ties the length of the trail to the status; `KeyInv` gives one record
  per key; `FenceInv` one unresolved mutation per project; `StreamInv` says that a
  node between sessions holds only its journal.

The proof goes action by action; `CommandFrame` disposes of the commands an action
does not touch, `CommandDegrades` of expiry, loss and recovery, `FinishOutcome` of
an incoming result.  The refinement proof maps submissions to `Admit`, executions to
`Act`, every other coordinator step to `Report`, and the rest to stuttering.

`FleetSessionsProofs` proves `Spec => []FleetInv` (theorem `FleetSafety`) for all sets
of nodes and commands, every number of streams, all limits and every retention, and
from it type correctness and the five invariants of `fleet_takeover` about streams and commands.  The
assumptions are `TargetAssumption` and `FleetAssumption` (a target per command; the
bounds are naturals).  `FleetInv` consists of `TypeOK`, two of the properties
themselves and what they need:

* `EntryInv` - an entry is a stream of its node that got past `beginSession`;
* `ServeInv` - a handler in its loop is the node's entry or has been closed, and a Send
  in progress belongs to the entry.  This is what `OneSender` follows from, and it
  would be lost if an entry with a Send could be pruned;
* `TimeInv` - which is why it is not: waits, streams and their Sends are younger than
  the retention (`ExpiredIdle`);
* `RowInv` - memory and table know the same nodes while storage works, so the limit
  of the one is met before that of the other;
* `QueueInv` - queues are finite, so that the capacity can be counted.

The proofs have one lemma per part and one step per action.  `BeginFrame` says what all
unsuccessful outcomes of `beginLocked` have in common; `RecordsSettle`
(`CommandJournalProofs`) that loss, expiry and recovery leave no record active.

`NodeViewProofs` proves `ObserveSpec => []PictureCurrent` (`PictureIsCurrent`) and
`FollowSpec => []FollowsOne` (`FollowsOneAgent`).  For the first, `ObserveInv` says what
has been published and not yet shown: the channel holds at most the last state
(`ChannelInv`); what the observer holds is the topology unless an event or a hint says
otherwise, and what it rests on has been published (`SnapshotInv`); the states on the
wire have increasing numbers above the picture's, and the last of them, or else the
picture, is what the session forwarded last (`WireInv`).  For the second, the two looks
and the text of a query are ordered by the terminals of the pane (`QueryInv`), so equal
looks enclose a text of the same terminal; all that was followed is the pinned target
(`TargetInv`); and the output ends with the last result or the gap after it
(`OutputInv`).

It also proves `WatchSpec => []WatchersTold` (`AllWatchersTold`).  Watchers
share only the fleet, which grows, and the slots, so the invariant is one about a single
watcher's handler, stream and command line (`Told`): what is shown, what is on its way
and what was sent last are in the order of the fleet (`Ordered`), what was sent last is
shown or last on its way (`Latest`), and only a client that receives has a stream
(`Attached`).  `OneWatcher` reduces every step to the watcher that takes it.

The assumptions of these three are that the values that stand for nothing are none of
the others (`UnknownAssumption`, `FailureAssumption`, `SnapshotAssumption`).

`ProjectSyncProofs` proves the four invariants and the action property of the two
passing `sync` runs, from three invariants that build on each other:

* `SyncInv` speaks of generations only, and of no directory.  A stream brings a
  project's generations in rising order, each with the registration the coordinator has
  or had (`ToNodeOk`), and what was answered on the current stream is either of an older
  generation than the saved one or the outcome of the node's session (`Answers`).
  `GenerationsAgreeAlways` follows.  `GenerationsAgree` itself says nothing of messages
  under way, and a message is what would break it.
* `CacheInv`: a binding is the one last applied, the one about to be acknowledged, or
  one adopted from the policy file; bindings are apart.  `BindingKeptAlways`,
  `ReadyMeansBoundAlways` and `RootsApartAlways` follow; a mutation under way is of the
  binding because it was admitted for an answer of this stream.
* `PlaceInv`: a success names the directories its registration leads to, so that no two
  successes of one generation differ.  It needs links that stay where they are: the
  hypothesis `Still` of `NoFaultAlways` says that each path has one target.  Without it
  the statement is false, which is what `sync_links` lets happen
  (`refuseAcknowledgement`).  `sync_roots` satisfies `Still`.

`OwnershipSurvivesAlways` needs `CacheInv` for the state before the step.  The property
names the checkout the project had as well as the new one: `apply` takes a project's old
binding into account (`projects/managed.go`), and the proof does not go through, nor
should it, when only the new one is free.  `ConfigAssumption` and `PlacesAssumption` say
what registrations are.

`AgentLifecycleProofs` proves the four invariants of starts, stops and controls from
`LifecycleInv`, which consists per command of what the journal's receipt shows of the
effects that happened (`EntryOk`), how far the coordinator's record lags behind it
(`RecordOk`), and what the worker may rely on at each step between the two hooks around
an effect (`WorkOk`); progress under way is an earlier state of the receipt
(`ProgressOk`).  Lemmas on receipts say that an event changes the outcome of its own
stage only, so evidence is followed event by event.

From `LifecycleInv` it further proves that conclusions stand (`ConclusionsStandAlways`: a
final record and a finished journal entry are never written again) and that the life of
starts, stops and controls implements `CommandContract` (`AgentContractHolds`), as
delivery does.  `AgentContract` names the refinement mapping: `told` is what the
coordinator's record says (`AnswerOf`), a command has been requested once any of its
effects happened, and is reached once all of them did; only a start, which consists of
several effects, may be refused after a request.  Submissions map to `Admit`, an effect on
the native server to `Act`, and what the coordinator writes to `Report`: `Later` is the
order in which a status may change, and `HonestLifecycle` is what makes a report allowed.
No run checks these two as properties; TLC checked both on the instance of
`agent_lifecycle` before they were proved.

The module also proves `RequestsSpec =>
[]StartedOnce` from `RequestsInv`: every file of a ledger is `Founded` on the receipts
of the earlier stages, and a key that is not in a ledger yet is nobody else's
(`KeyFresh`), which is what the coordinator's deduplication needs.

`NodeServicesProofs` proves the invariants of sessions and queries, with all parts
active at once where the run takes them one at a time.  `ManagerInv`: a process that
still boots is the remembered one.  `ObserverInv`: incarnations only grow, so a tree is
at least as young as the look before it, and the look after it bounds it from above.
`QueriesInv`: a query is at one place at most on its way (`Placed`), somebody
knows of it there (`Known`), and what is answered is from its target (`Pinned`).

`HostProofs` proves the host's four invariants.

* `BackupInv`: contents are numbers that rise, so what the second pass finds as the
  first left it was there when the second pass began (`Between`), and the database is
  still because of its lock (`DatabaseLocked`).
* `StoreInv`: what a transaction may make of the database (`Evolves`), who may be
  where while the lock or the gate is held (`ProcOk`, `GateOk`), and how attempts and
  commits are counted (`CallOk`).  `OpenableForGood` adds what the invariant alone cannot
  say: a database that can be opened never becomes one that cannot, in particular it
  does not go back to the file without a schema.
* `HostInv`, for `PolicyHonestAlways`.  What a command read last, and every update still
  under way, is of the live version or an older one, and one of the live version changes
  nothing but mesh entries (`Current`): this is why a conditional update that arrives
  late loses nobody's change.  An apply belongs to one command until it is recorded, and
  its number is recorded only after its proposal lived (`ApplyOk`).  A removal succeeds
  only after the policy was seen or made clean (`RemovalOk`).  The commands of the host
  are part of the invariant, because a plan made before the device is removed is carried
  out after it, and must still be the one made (`Fits`).
* For `DestroySafeAlways`, two invariants.  `ClaimInv` holds in every behaviour: a device
  that was recorded as removed, on disk or in the memory of a command, is off the
  tailnet and stays off, whoever holds the record (`ClaimOk`, `RecordOfDevice`).
  `RaceInv` is `TeardownInv` as long as neither race has happened (`~raced`).
  `TeardownInv`: the record on disk is the one the destroying
  command holds in memory, and from the stop of the daemon to the end of the purge none
  runs (`RecordFits`); the device that the network state names may be missing from the
  tailnet, or on its way out by a late deletion, only while a record names it and no
  daemon runs (`DeviceOk`); and each stage of the purge comes after the one that made it
  safe, the deletion of the device first (`ErasingOk`).  A command that waits for its
  user while another one destroys is in: `Overlap` begins when it still waits and the
  other one purges.  Crashes, reruns, lost and late deletions, setups, plain shutdowns
  and policy commands of others are all in.  The proof uses that a step after which
  `raced` is false leads to a state without `Overlap` and `Unseen`.

The assumptions (`BoundAssumption`, `LifecycleAssumption`, `RequestAssumption`,
`NoneAssumption`, `QueryAssumption`, `BackupAssumption`, `StoreAssumption`,
`PolicyAssumption`, `HostAssumption`) say that bounds are naturals and that values which
stand for nothing are none of the others.  Each invariant was first checked by TLC on the instance of its
run.

Not proved: the liveness properties `Settles`, `Delivered`, `Answered` and
`TakeoverEnds`, since fairness and ENABLED are beyond the prover; and `IdentityStands`,
`OnlyStorageStops` and `RecoveryRetained`, which are violated.

## Plan

1. *(done)* Command delivery: journals, stream, workers, contract, proofs.
2. *(done)* Managed projects: bindings, registration, acknowledgement, mutations.
3. *(done)* The fleet: takeover, draining, pruning, restoring, stale times, topology,
   watchers; proofs.
4. *(done)* Agents: receipts, lifecycle, fences, names, sessions, queries, following.
5. *(done)* The host: store, backup, policy, daemon and destruction.
6. *(done)* Proofs of the invariants of projects, agents, sessions, queries, store,
   backup and policy.
7. *(done)* Proofs of `DestroySafe`, with what it leaves open stated in it, and that agents' commands implement what `CommandContract` promises.
8. To model: what a restarting node and the reconnect delay add to `FleetSessions`;
   the local proxy of the managed daemon.

## Not modelled

* The embedded Tailscale transport (`transport/`): its streams are the ordered,
  breakable channels of the models.
* Installation scripts and the bootstrap of a node on another computer; the Windows
  service; launching on each operating system; prompts.
* The dashboard and the MCP server, and the commands that make one call each and
  format the answer.
* The parsing of Herdr's protocol and of policy files, path checks of operating
  systems, SQL, size limits of payloads, and generated code.
* The delay between two attempts to connect (`node/node.go:710`), which is capped
  before it can overflow and decides nothing.
