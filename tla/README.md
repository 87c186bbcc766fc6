# Verification of the CityVerse on-prem backend

TLA+ models of the control core of `src/backend/onprem` (the Python backend that runs 5G
scenario rounds on a free5GC cluster), checked with TLC and, where a module has a `...Proofs`
companion, proved with TLAPS.

## 1. The system

A *scenario request* asks for a number of UEs, traffic and optionally an adaptive (AI) policy.
The backend executes at most one request at a time as a *round*: it reserves the round in a
SQLite ledger, allocates UEs through a generation store, measures traffic windows, optionally
lets agents install QER rules in between, and then cleans up and proves from native observations
that nothing of the round is left before the ledger releases it. Requests that arrive meanwhile
wait in a durable FIFO.

| Component | State it keeps | Operations | Interacts with |
| --- | --- | --- | --- |
| Writer gate `storage/writer_gate.py` | per path: owner thread, FIFO of tickets; weak registry | `writer_slot`, `enter` | every ledger writer takes it |
| Round ledger `storage/rounds.py`, `current_state.py` | rounds in ordinal order: stage, outcome, cleanup status, actions, release flag | `reserve`, `update`, `complete`, batches, maintenance, intent leases | coordinator, queue, batches |
| Coordinator `scenarios/coordinator.py` | one asyncio task, a cancel flag | `start`, `cancel`, `recover`, `close` | ledger, resources, traffic, agents |
| UE store and controller `runtime/ue.py` | generations (desired UEs), reconciliation status | `request`, `reconcile` | coordinator, operator, cluster |
| Runtime resources `runtime/round_resources.py` | none | baseline, stop, release proofs | cluster observation |
| Scenario queue `storage/scenario_queue.py`, dispatcher `application/scenario_queue.py` | submissions and their states | `enqueue`, `transition`, `recover_dispatches`, `tick`, `dispatch` | coordinator, ledger |
| Scenario service, lifespan `application/*.py` | application lock, shutdown flag | submit, cancel, set UEs, startup, shutdown | all of the above |
| Reservation index, live projections `storage/reservation_index.py`, `live_state.py` | derived rows kept by SQL triggers | `pending`, `read` | ledger |
| Callback receiver `storage/callbacks.py` | registered actions, notifications, fence | `register`, `receive` | PCF |
| Intent traffic leases `scenarios/intent_traffic.py`, ledger methods | lease row, drain row | renew, finish, drain, confirm | intents, coordinator |
| Held reservations, population `runtime/ue_reservation.py`, `runtime/population.py` | held identities, population journal | reserve, consume, release, mark_write | UE store, intents |
| Traffic batches `traffic/*.py` | shard journal, detached workers | reserve, dispatch, recover, finish | ledger, UE pods |
| Agents and QER policy `agents/`, `policy/` | graph checkpoint, owned rules | cycles, apply, restore | PCF/SMF, coordinator |
| Service intents `intents/` | intents, operations, leases on resources | the intent lifecycle | scenario service, UE store |
| Traffic manager `traffic_manager/` (Go) | traffic processes by token | start, stop, collect | traffic batches |

Hard behaviours: SQLite writers are threads; the coordinator is an asyncio task whose every
commit and native call is awaited, so cancellation, shutdown and process death fall between any
two of them; the outcome of an interrupted native write is unknown; release is inferred from
observations that may be late; the queue and the ledger are updated by different commits.
`PROJECT.json` lists each hazard at its line with the properties that cover it.

## 2. Modules

```
RoundOwnership            abstract: one owner, one outcome, release last
   ^ implemented by          ^ composed into
RoundCoordinator          ScenarioQueue          WriterGate          ReservationIndex
   RoundCoordinatorProofs    ScenarioQueueProofs    WriterGateProofs    ReservationIndexProofs
   MCRoundCoordinator        MCScenarioQueue        MCWriterGate        MCReservationIndex
   MCRoundCoordinatorLive

IntentOperation           IntentTraffic          FleetPopulation     TrafficBatch
   IntentOperationProofs     IntentTrafficProofs    FleetPopulationProofs  TrafficBatchProofs
   MCIntentOperation         MCIntentTraffic        MCFleetPopulation      MCTrafficBatch
```

The lower row refines what the upper one leaves whole. `IntentOperation` has the journals of the
service intents and takes an intent's traffic as one step; `IntentTraffic` has the phases of that
step against the ledger and the coordinator task; `FleetPopulation` has the devices of the round
that such a lease holds; `TrafficBatch` has one measurement window of a round.


### WriterGate
A critical section under `WriterGate.condition` is one step. `registry` is the weak
`_registry` entry of the path, `ref[t]` the strong reference in the frame of `writer_slot`,
`owner[g]` and `waiters[g]` the attributes of gate object `g`. A waiting thread is `asleep`
(inside `Condition.wait`) or `runnable` (notified, or its wait timed out, and still to take the
lock again). `Enter*`, `Admit`, `Recheck`, `Deadline`, `Interrupt` are the paths through `enter`;
`GateFor` and `Drop` create and collect gate objects. Time is a flag per thread (`expired`) that
may be set at any moment.

### RoundOwnership
The promise of the ledger to its clients, with one variable. `RoundCoordinator` implements it
(`OwnershipKept`); `ScenarioQueue` uses its `Reserve`, `Decide` and `Release` as the coordinator's
visible steps.

### RoundCoordinator
Durable state: `rounds` (ledger) and `gens` (generation store). World: `native`, the generation
whose UEs run; `rules`, `traffic`, the round whose QER rules are installed and whose detached
workers run. Volatile: `proc`, `task` (the program counter of `self._task`), `cancelled`.
Each label of `task` names the await at which the task stands:

| `task` | code in `scenarios/coordinator.py` |
| --- | --- |
| begin, journal, request, accept | `_execute`: stage commit, action commit, `resources.allocate`, acceptance commit |
| establish | `_established` polling |
| baseline, result, hold | `_measure`, adaptive cycles, `_hold_configuration` |
| finish, pass | outcome commits of `_execute` |
| fail | `_record_execution_failure` |
| recover | `_recover` |
| clean, restore, quiesce, decide, stop, accept_stop | `_cleanup` in order |
| unwritten, prove, complete, blocked | proof of an unwritten allocation, proof loop, `ledger.complete`, blocked handler |
| fixture | fixture closeout after release |

`Faults` lets every commit, native call and observation fail, before or after its effect where
the call has one. `Crash`, `Shutdown`/`Exit`, `Restart` may happen at any point. A generation
records who wrote it (`writer`), which the code does not store: it is a history variable that
`WrittenOnce`, `ReleasedOwnsNothing` and `ResidentFleetKept` read and no guard does. In the code
`created < requestedAt` decides whether an unrecorded allocation was written; the model compares
generation ids (`Gen <= alloc.since`), which order the same two events.

Left out: rounds under an intent-traffic lease (their drain, renewal and population), rounds
of zero UEs, the archived policy stages, `establishing_pdu` (not told apart from `registering`),
the identities of single UEs, the sequence compare-and-swap of `update` (one writer here), and
maintenance transitions. `Start` asks for a finished task because the dispatcher's
`execution_drained` does; the intent path that does not is in IntentTraffic. The commits that
`start` makes after the reservation (capacity trial, spatial resolution, group oracle) may fail
and leave a round without a task, which `spawned` says. A stop by an operator needs every UE of
the current generation to be seen (`StopAllowed`), registered or not: `native` is the generation
that was launched. `faulty` is chosen
once, in `Init`: a behaviour either may have faults anywhere or has none, so that one run can
judge both what holds under faults and what needs healthy reads.

### ScenarioQueue
`submissions` is the table in ordinal order; `lock` and `step` are the dispatch in progress
under the application admission lock, `ledger`, `phase`, `task`, `cancelled` the round as the
queue sees it. `Begin`, `Started`/`StartRaises`, `BindStarted`, `ResolveRefused` are the commits
of `dispatch`; `Reconcile` is `recover_dispatches`, which the lifespan runs before it serves
(`Serve`). `phase` stands for what `lifecycle` derives from the round's stage and progress.
`faulty` is as in RoundCoordinator. Left out: graceful shutdown (in RoundCoordinator),
maintenance, the policy-clear gate of `tick` (a pure delay), the display states derived from a
released round.

### ReservationIndex
`rounds` is the table as the maintenance predicate sees it: `Verdict` gives `clear`, `pending` or
`error` for a snapshot under a parser policy, standing for `maintenance_pending` after
`decode_reservation_snapshot`. `index` are the committed tables, `work` the open transaction's.
`BeginIndexed`, `Decode`, `FinishIndexed` are `pending`; `BeginHistory`, `FinishHistory` its fallback
`original`; `Reserve`, `Replay`, `Rollback` the ends of `RoundLedger.reserve`. The writer fence makes
the transaction atomic for the tables, but not for the interpreter's policy, which `ChangePolicy`
changes at any step. `held` is a history variable: the policies of this transaction. The model
assumes that a policy is not left and restored within one transaction; `pending` compares only its
first and last policy and would record verdicts of the one in between.

### IntentTraffic
The formal round of one intent, and the two durable sides that end it. On the ledger's side:
`lease` (the intent-traffic row and its drain permit), `round`, `other` (a public round reserved
afterwards) and the coordinator task, whose labels follow `_hold_configuration`, the renewal in
its two commits, the restoration it waits for and `_cleanup`. On the owner's side: `intent`,
`resource` (the `intent_traffic_resources` row), `start` and `ops` (the start and the release
operations with the phases policies, drain, infrastructure, finish), `closing` (`fleet_closing`)
and `holder` (the lease on the intent's scope); `starter` and `owner` are the tasks of the
service between their awaits. A release commits the fence (`Close`), the scope (`Acquire`) and
its first cursor (`BeginPolicy`) one after the other, and closes the fleet once more before
`policy_restoration_complete` (`SettlePolicy`) and before the drain. A start ends `done`, or in
`recovery` with an uncertain write, and then every release stays blocked. The sides share no
transaction, every commit is a step, and `Crash` forgets both sides' tasks. `clock` is the
revision up to which contracts have expired. `Legacy` starts from a ledger that an older release
left, whose lease is finished but whose UEs run.
Left out: the evidence of `owned_drain` (its verdict is the step), measurements, the journal of
the UE stop (RoundCoordinator), the restoration cursor (IntentOperation).

### IntentOperation
Any number of operations as concurrent tasks. An operation record has its `status`, the actions
applied (`receipts`), the one dispatched and not yet confirmed (`pending`), what it has still to
restore (`cursor`) and the item on its way (`fence`). A reconcile operation goes `plan`, and for
each action `apply` (the fence is looked at), `contract`, `journal`, `write`, `record`, then
`verify`, `complete`, `claim`, `satisfy`, `free` (`_formal_execute`, `_await_installation`,
`_formal_postcheck`); or it turns to its compensation and publishes the failure (`publish`), which
the closing fleet of another intent refuses: a resumed task then keeps its leases, another one
restores once more what it remembers to have written. A release goes `close`,
`read`, `acquire`, `undo`, `restore`, `confirm` (`_release`, `_restore_batch`), then drops the
policies, finishes, expires the intent and reopens the fleet. `native` says which operation's
write a resource shows, so a restoration that is missing or belongs to another is seen. `sent` and
`overtaken` are history variables. Left out: compilation and planning (a plan is any set of
resources), policies shared by several intents, session preparation.

### TrafficBatch
The supervisors of a window are shell scripts in the Pods that meet the host only in files: `dir`
is the directory of each token, `proc` and `child` the supervisor and its iperf3, `cancel` the
cancellation command in the Pod, `stray` one that the host has given up and that runs on beside
the next (one per worker; what it does is what any cancellation does: reserve, mark, signal,
close). A command under `control.lock` is one step; between the
supervisor's `Make`, `Own`, `Fork`, `RecordChild`, `Ready` and the sender's `Launch`, `Send`
anything may happen: a lost or delayed start, a kill, a cancellation. On the host `thread` follows
`run_shard` (servers, readiness, clients, barrier, release, collect, two sweeps; `Refuse` is a
native preflight that fails, with nothing started and nothing swept), `verdict` is the outcome of
`BatchReleaseBarrier`, `window` the `traffic_window` actions in the ledger, and `RecoverWindow`
and `MarkVerified` the cleanup of the coordinator after a restart. Left out: the detached
execution (`traffic/worker.py`), the single-shard path, the arithmetic of the evidence.

### FleetPopulation
Three durable records about the same devices: the generation store with its hold (`gen`, `hold`,
`handle`), the population journal (`pop`: births, issued and quarantined subscriber slots,
tombstones, the change in progress and the writes dispatched for it) and the ledger (`rec`, the
checkpoints of each population operation; `snap`, the published population). `pc` is where the
adapter's call stands, which holds the measurement lock where `Locked` says so; the controller
reconciles on its own; `flight` are native calls that were issued and may be lost. `admitted` and
`policy` stand for the capacity, admission and policy ports. `release` is the full release of the
intent: it freezes the change and takes its policies and every admission back (`FreezeChange`,
`UndoChange`), commits the fence that closes the fleet (`CloseFleet`) and restores the policies
(`RestorePolicies`), all under the adapter's lock and not the measurement lock, while the round
may still be measuring; the drain follows. The cleanup of the round quiesces what is left of
the change, stops the fleet and confirms its absence. Left out: several slices and sessions,
session replacement, the evidence behind a readback.

## 3. Runs

| Run | Instance | Shows |
| --- | --- | --- |
| writer_gate | 4 writers, 2 gates, 2 waiters | exclusion, exact bounded queue, no lost wake-up, FIFO, every waiter is answered |
| round_coordinator | 2 rounds, faults, 2 crashes, 4 generations, 1 operator request | what a released round left, single writes, the resident fleet, nothing started while cleaning, refinement of RoundOwnership |
| round_live | 2 rounds, with and without faults, 1 crash | a cancelled round comes to rest; with healthy reads an ended round is released |
| round_restart | 1 round, no faults, 1 crash | expected violation, see section 6 |
| scenario_queue | 3 submissions, with and without faults, 2 crashes | queue and ledger agree, FIFO, no overlap; without faults the queue drains |
| reservation_index | 3 rounds, 4 kinds of snapshot, 2 policies | the indexed check answers as the full scan |
| intent_traffic | 2 revisions, 2 releases, a following public round, a legacy round, 1 mishap | the order policies, UEs, infrastructure; who may renew; nothing relaunched; expired traffic ends |
| intent_traffic_overlap | 1 revision, 3 releases, no mishap | expected violation, see section 6 |
| intent_operation | 2 intents, 1 resource, 3 operations, 1 mishap | every write is journalled and guarded until restored, one writer, no second dispatch |
| traffic_batch | 2 shards (4 workers), 1 mishap | closed tokens are silent, cleaned-up windows closed, one epoch, published whole |
| fleet_population | 2 starts, 2 changes of at most 1 new device, 3 Pod indices, 4 generations, 2 holds, 1 restart | writes not repeated, subscribers not reused, devices covered, population published as committed, holds exclusive |
| fleet_population_later | 2 starts, 1 change, no restart | expected violation, see section 6 |

**Bounds.** Four writers with two places in the queue reach the refused writer, the withdrawn
middle ticket and a queue that refills; two gate objects are as many as the weak registry could
ever confuse. Two rounds are what "previous" and "next" need, and four generations let both of
them launch and stop a fleet (five with an operator's request in between); two crashes let one
hit a recovery. Three rounds let the index hold a skipped, a decoded and a stopping one; each policy
has a snapshot only it rejects. Three submissions give a running, a heading and an overtaking one.
Two releases are what overlaps, and the third that the violation run adds is the retry
(`TrafficEnds` says nothing of the behaviours that would need a third, `Exhausted`); two
revisions let a renewal and an expiry of the older contract meet. Three operations are a plan, a
second plan of another intent and a release; one resource is enough for them to collide (two
resources with two operations and two mishaps were checked as well, and the proofs are for any
number). Two shards are the fewest that a barrier can tell apart. Two changes let the second one
reuse what the first left; one added device each, next to the launched one, gives an arriving, a
staying and a departing device. `MaxGen`, `MaxCrash`, `MaxOperator`, `MaxMishap` and the like only
cap counters; a mishap is any of the failures its module lists, at any point. Where a configuration says `CHECK_DEADLOCK FALSE`,
the requests and bounds are used up and the backend is idle.

**Fairness.** WriterGate: a notified thread gets the lock and a transaction ends; no deadline is
assumed to pass. RoundCoordinator: the event loop schedules the task, the controller's loop
reconciles, detached workers end with their bounded window, a stopping process exits and the
supervisor restarts it. The proof loop's deadline is read from a monotonic clock between
attempts, so it passes however often an attempt is possible in between: strong fairness. No
fairness is assumed of faults, crashes, operators or cancellation, except in `RetrySpec`, where
the operator repeats the cancellation of a blocked round (the documented procedure).
ScenarioQueue: the dispatcher wakes at least every second, awaits return, the coordinator works,
the process is restarted. IntentTraffic: time passes, tasks go on, UEs that were told to stop
stop, the monitor releases an expired contract and resumes a blocked release every few seconds,
and an operator repeats a release that failed or was left behind (`Due`; the monitor passes over
an expired intent whose latest operation is a blocked release of an earlier revision,
`service.py:886`). FleetPopulation (only for the run that expects a violation): calls and windows end and
the cleanup retries (`CleansUp`).

**Mutants.** Each property of a passing run is broken by one named bug in the code's definition
(operators commented "A bug"), listed in `PROJECT.json`.

## 4. Proofs

`...Proofs` modules extend the module they prove about; TLC first checked every invariant used.
All theorems hold for every value of the constants that satisfies the named assumption, which
only types the constants.

**WriterGateProofs** (`GateAssumption`). `MutualExclusion`, `QueueExact`, `NoLostWakeup`,
`AdmittedInOrder` for any number of threads, gate objects and places in the queue.
Exclusion is not inductive: two threads may exclude each other on two different gates. The
invariant adds `References` (a thread inside `enter` or the transaction holds the gate the
registry names), `Owners` (an owned gate is the registered one and its owner is inside) and `Retired` (an
unregistered gate has no tickets), so that a new gate object is made only when the old one has no
user. `RemoveAtProperties` says what withdrawing a ticket does to a queue of distinct tickets;
`WithdrawIInv` treats the four ways out of the queue at once.

**RoundCoordinatorProofs** (`CoordinatorAssumption`). `SingleOwner`, and `Refinement`: the
coordinator implements `RoundOwnership`. The argument goes through `LedgerStep`: whatever an action
does to stores, world and task, it leaves the ledger alone, appends an undecided round when all
are released, rewrites the newest unreleased one without touching a decided outcome, or releases
it once decided. `StepShape` proves this action by action, needing only that a working task has a
round to work on (`Working`, part of `SingleOwner`); the invariant is `TypeOK /\ SingleOwner`.
`ReservedRefines`, `RewrittenRefines` and `ClosedRefines` map the three kinds of step to `Reserve`,
`Decide` (or a stutter) and `Release`. No fairness and no bound on crashes, generations or requests
is used.

**ReservationIndexProofs** (`IndexAssumption`). `IndexAgrees` and `AnswerMatchesScan` for any
history, policies and verdicts. The strengthening (`Untrusted`, `Policies`, `WorkAgrees`,
`Scanning`) says what an open scan knows: a round it will not decode any more was clear under a
policy of this transaction, because `Decode` saw it or because its entry was clear when the
transaction began and the recorded policy was in force.

**RoundCoordinatorProofs**, second part. `WrittenOnce`, `ReleasedOwnsNothing`,
`NoWorkAfterCleaning` and `ResidentFleetKept`, for any requests, faults, crashes and operator writes. None is
inductive: whether a second launch is possible depends on where the task stands and on what the
record of the newest round says. The invariant has three parts. `Recorded` ties the generation
store to the record: a launch was journalled before it was written, is the recorded generation as
soon as one is recorded, and a stop comes after it. `Paced` says what each label of `task` may
assume of the record, and that it executes only before the cleaning stage. `Proved` says what the
cleanup has seen and what stays true until the release is committed, although the cluster goes on
reconciling. Most steps are quiet (`Quietly`): they leave what the store and the record say of each
other; the six that are not have a lemma each. `StepStarts` lists who may start workers or rules
and who writes the store; the two action properties follow from it.

**ScenarioQueueProofs**. `NoHiddenRound`, `StartedInOrder`, `NoOverlap`. The admission lock
protects the head of the queue from the moment it is taken to the last commit of the dispatch
(`LockHeld`), so everything before the head has been started or withdrawn; `ReservedLater` says
that rounds are reserved in the order of the submissions, which is what lets a reconciliation
after a crash bind the right round.

**IntentOperationProofs** (`OperationAssumption`). All five properties of the run, for any intents,
resources, operations and mishaps, by three invariants, each on top of the one before.

- `IInv`. The restoration cursor of an operation is filled once, before
  anything was dispatched, from what it has leased (`Fresh`, `Untouched`, `Planned`); the fence is
  the one item of it that may be on its way (`Cursor`); the leases are given back when it is empty
  (`Settled`), and a failure is published with nothing left to restore (`Spent`). A crash resumes an
  operation with its cursor and its fence, never from its receipts.
- `SInv` (`Journalled`, `OneWriter`, `NoReplay`). Journalling before the write is not enough, since a restoration puts back
  what another operation wrote: an item must say of what it wrote over that it is of an operation
  that has ended and still has it in its journal (`Traced`), and whatever a release reads or
  restores must be of an operation that never writes again (`Known`). `Roled` and `Leasing` say
  which labels go with which status, and that an operation leases its intent as long as it leases
  anything. What an operation has on the network is in its journal, so the failure it publishes
  with an empty one has nothing there (`Cleaned`): the second dispatch of a refused publication
  finds nothing to change. The proof is by `SoundStep` (of the operation that moves), `SoundApart` (of the others)
  and `SoundCrash`.
- `FInv` (`Guarded`, `ReleasedMeansRestored`). Both are about operations that follow one another on
  a resource over its whole history, of which the state keeps nothing but the items. The invariant
  says that, unless a release was overtaken, there *are* ranks of the operations, given out at their
  acquisitions, and a threshold for every intent, raised when a release of it completes, such that
  what stands on the network ranks above the threshold of its intent (`Standing`), a plan ranks
  above what it writes over and that carries the intent's policy (`Above`), an item leads to lower
  ranks of the same intent (`Chained`), a plan gives back its leases with everything claimed or
  restored (`Ended`), and a release has in its cursor whatever was written above the threshold and
  is not restored yet (`Cleared`). What a release reads is the rows after the last completed release
  (`Newer`), by submission and not by rank; `Dated` and `Retired` order the revisions, so that no
  plan writes for an intent that was released after it looked at the contract. `Shift` names the ranks after a step:
  the next rank for an acquisition, a new threshold for a completed release, the same otherwise.
  The model has no history variable; TLC checked the invariant beforehand on a copy that carries
  the ranks and thresholds along.

**FleetPopulationProofs** (`PopulationAssumption`). All safety properties of its run, for any
owners, operations, devices, generations, holds and crashes, by four invariants, each on top of the
ones before.

- `Journal` (`DispatchedOnce`, `Quarantined`, `HoldExclusive`). An index is issued once, its slot is
  in quarantine for as long as the journal lives, and a journal of the present generation has every
  write that was sent for its devices; a write already marked is read, not sent again.
- `Cover` (`Covered`). The adapter and the driver share no transaction. The phase of an operation in
  the ledger bounds the state of its change in the journal, and where the call of the adapter stands
  says which of the two was written last; together they say which devices each port has served, so
  a device is created after its admission and withdrawn before its removal. `Calm` adds that a
  release, which takes admissions back, has first ended the adapter's call and every creation.
- `Publishing` (`PublishedProved`). The published population is the journal's, or the one before the
  commit of the operation under way, whichever of the two commits a crash fell between; until a
  release closes the fleet, a measured device without policy is one that this operation removes.

**IntentTrafficProofs** (`IntentTrafficAssumption`). All safety properties of the run
(`PolicyBeforeStop`, `GoneStaysGone`, `OneOpenRound`, `NeverReactivated`, `NeverRelaunched`) for any
number of revisions, releases and mishaps, with or without a legacy round. The coordinator and the
releases share no transaction, so the invariant says what each may conclude from its own position:
a release past its policies has restored them and says so in its record (`Journal`); a lease is
drained only then, and a coordinator past the start of its cleanup works under a lease that is
drained or released (`PolicyFirst`); a task in setup has a lease that no proof has closed
(`SetupOpen`), which is why UEs journalled as gone cannot come back (`GoneForGood`); a public round
has the one task to itself (`OtherAlone`).

**TrafficBatchProofs** (`BatchAssumption`). All five properties of the run, for any finite set of
shards. A token's directory is made once, by the worker or by the command that cancels it, and
files are only added, by whichever command (`TokenKept`); a worker is started once and after the
reservation (`StartedOnce`); the barrier precedes every release (`Barrier`); a shard without an error was
measured and swept (`Measured`).

Out of the prover's reach and left to TLC: liveness and ENABLED, and what a recursive definition
computes for every input (no module here has one).

## 5. Only model-checked, not modelled

Liveness stays with TLC (`WaiterAnswered`, `CancelSettles`, `EventuallyReleased`, `QueueDrains`,
`TrafficEnds`): it needs ENABLED and fairness, which the prover does not have. Every safety property
of the passing runs is a theorem; the three violations are TLC's. The type invariants of the modules
with proofs are theorems, and the runs repeat only that of IntentTraffic.

Not modelled, and why:

- **Group QER policy and the adaptive graph** (`policy/`, `agents/`): the graph is a language model
  between validators; the rules it installs are `rules` in RoundCoordinator. The journal of the
  provider is of the kind IntentOperation has (dispatch, confirm, restore).
- **Native controllers of the intents** (`upf_controller.py`, `application_controller.py`,
  `resource_adapters.py`): sequences of kubectl calls whose verdict is the step of the actuator.
- **Detached supervisors** (`traffic/worker.py`) and the **Go traffic manager**: the workers that
  survive the backend are one variable (`traffic`) of RoundCoordinator, which ends on its own.
- **Rest of the UE controller**: exceptional recovery of single UEs, identities.
- **Callback receiver, live projections, evidence, capacity, API, frontend, images, scripts**:
  inputs, read models and I/O without control state of the rounds.
- **Maintenance and validation fixtures**: operator procedures around a released round.

## 6. Findings

**A restart that cannot clean up.** `RestartCleansUp` (run round_restart) states README.md:144, "Restart first recovers or cleans up
the old round". TLC refutes it: an ordinary round that borrows no resident fleet and crashes
before it journals its allocation has no generation, no lease and no allocation action, and
`round_release_proof` accepts none of that (`release.fleet_identity_changed`,
`runtime/round_resources.py:820`). Nothing was written, yet every restart and cancellation
ends blocked and the round keeps the ledger reserved. `EventuallyReleased` names the exception
(`NeverAllocated`) and holds for all other rounds whose writes are known.

**Two releases lock each other out.** `RetryFinishes` (run intent_traffic_overlap) states
intents/README.md:81, "a retry only finishes traffic cleanup". `begin_fleet_closing` commits before
`acquire` (`intents/service.py:2094` and `2115`), so two releases of one intent can hold one of the
two locks each: the first is blocked by the fence of the second, the second ended stale on the
scope of the first, and `reconcile` resumes only the holder of the scope. No retry ends this, and
no other intent is admitted meanwhile.

**A later formal fleet cannot be stopped.** `UnchangedFleetStops` (run fleet_population_later)
states that every formal traffic lease drains its UEs (intents/README.md:84). The population
journal is never cleared; the cleanup of a later fleet whose population nobody changed meets the
journal of the earlier one and raises `foreign_population_lease` (`runtime/population.py:207`) at
every retry.

Seen while modelling, and part of the models as they are (no property claims otherwise):

- `service.py:1929/1138` and `2081/2087`: the final status is committed before the leases are given
  back and only queued and running operations are scheduled after a restart, so a crash in
  between keeps the leases for ever; every later operation of the intent ends stale. `Guarded` holds:
  it leaks safety margins, not writes.
- `service.py:2096`: a release reads what its intent owns before it leases the scopes; an operation
  that ends in between is not restored. `overtaken` marks such behaviours, and `Guarded` and
  `ReleasedMeansRestored` exclude them.
- `TrafficEnds` is about behaviours without five dead ends, each of which the model has:
  - a release ends with the fence or the scope, and nothing resumes it (`Stranded`): it stopped
    between the fence, the scope and the first cursor (`service.py:2094`, `2115`, `2160`), where
    nothing is journalled yet and every other release is refused; or between its final status and
    the reopening of the fleet (`2081`, `2087`); or the intent was revised while it was blocked;
  - a start that ended in `recovery_required` (`service.py:1009`) counts as outstanding
    (`repository.py:196`) and blocks every release while the traffic runs;
  - a release that finds no traffic row overtakes a start that is not confirmed and expires the
    intent while its traffic starts (`service.py:2056`, `Overtaken`);
  - once a public round follows the formal one, the resource of an intent can no longer be cleared
    through it (`integration.py:827`);
  - the bound leaves no release operation to ask for (`Exhausted`; of the model, not of the code).
- `service.py:992`: a failure is published before the leases are given back. Where the closing fleet
  of another intent refuses it, the handler of that refusal dispatches the restoration of what it
  remembers a second time, against "Dispatch restoration once" (`service.py:807`). Nothing is left
  to restore then, so nothing changes: `NoReplay` says so of that second dispatch.
- A compensation that is resumed gives its leases back without looking at `pending_action`
  (`service.py:985`), or keeps them when the publication is refused. A crash before the cursor
  exists keeps the leases (fail-closed).
- A TERM between the fork and the recording of the child leaves a listener that `closed` does not
  know and that ends with its own timeout; a TERM in the EXIT trap ends the supervisor before it
  closed its token, and a supervisor killed before `ready` is written keeps its token in
  quarantine for ever (fail-closed). A cancellation that meets a token closed since it marked it
  answers with an error, because the records are gone; the next one finds the marker. `ClosedMeansSilent` is therefore about senders.
- `scenarios/population.py:509`: the phase `withdrawn` is in no set of resumable phases, so an
  operation that fails between that checkpoint and `retire_pending` waits for the release of its
  fleet. A crash between the controller's reservation and the checkpoint `held` is refused likewise.
- A policy port that fails while it withdraws gives the measurement lock back, and the next window
  may send for a departing device without policy; `PublishedProved` allows exactly these.
- A release takes the adapter's lock and not the measurement lock (`service.py:2160`, `coordinator.py:992`):
  between the fence and the drain a window that is running, or the last one a renewed turn of the
  hold begins, measures devices whose policy is being removed. `PublishedProved` says nothing of the
  measured devices then.
- The failure cleanup does not take the adapter's lock: a change reserved after the quiesce blocks
  the stop until somebody resolves it.

## 7. Plan

Done: the writer gate, the round with its refinement of RoundOwnership, the queue, the reservation
index, the intent operations, the intent traffic, the sharded measurement, the fleet population;
proofs of every safety property the runs check.

Next, in this order:

1. Theorems about what bounds the exceptions: that `overtaken` is only set by a release whose
   reading an ending operation outdated, and that a population operation that ended left no port
   behind.
2. GroupQer: owned rule mutation, restore, unknown outcomes; refining `rules` of RoundCoordinator.
3. The detached supervisors and the Go traffic manager, refining `traffic` of RoundCoordinator.
4. Exceptional recovery of single UEs; the callback receiver.
