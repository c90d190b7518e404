# A verification project for lucius

lucius (package `src/lucius`) runs engineering work without supervision: it keeps
persistent workflows with a backlog of work items, picks the next item over all
projects, has it executed by a model provider, blocks or completes it, waits for
resources and decisions over days, and hands finished work to a controlled
integration. This directory holds TLA+ modules of the parts that decide *what runs,
when, on whose authority, and what is remembered of it*, the TLC configurations that
check them, and the theorems about all of them that TLAPS proves for every instance.

Paths below are relative to `src/lucius/` in the repository, which is
`src/src/lucius/` in PROJECT.json.

## The system

| component | code | state it keeps | operations |
|---|---|---|---|
| work queue | `pilots/queue.py` | per workflow: backlog of items (state, version, run generation, block checkpoints), active task, ledgers of completed and pending ids | select, start (scoped, global, held selection), block, block a failed dispatch, repair, resolve, complete |
| persistent workflows | `pilots/workflows.py` | lifecycle state, plan, checkpoints with git heads | create, attach plan, progress, checkpoint, validate resume |
| dispatcher | `runtime/dispatcher.py` | none of its own; reads rows and the audit trail | select and start over all projects |
| runtime loop | `runtime/service.py` | the run in progress | run: plan, dispatch, pre-check, execute, complete or block |
| mission supervisor | `runtime/mission.py` | mission status and counters, wait records | record, clear, re-evaluate, recover, interrupt, reconcile |
| execution router, providers | `runtime/router.py`, `runtime/ollama.py`, `runtime/schema_constraints.py`, `runtime/deterministic_acceptance.py`, `runtime/provider_quality.py` | the execution in progress, files of a worktree, execution rows | evaluate, select, invoke, retry, fail over, restore, judge, record |
| model gateway | `models/` | provider and profile rows, execution rows, id counters | route, execute, fall back |
| integration | `integration/service.py` | the canonical working tree while a patch is applied | apply, verify, roll back, close |
| controlled commit | `integration/controlled_commit.py` | commit records | propose, stage, verify, commit, verify, record |
| night shift | `night_shift/supervisor.py` | counters of a shift, snapshots | cycles of run, integrate, commit; contain failures |
| continuation, feeder, portfolio | `runtime/continuation.py`, `runtime/feeder.py`, `portfolio/` | session budgets; what is queued already | run sessions, feed work, rest |
| shift scripts | `scripts/run_shift_10*.py`, `scripts/watchdog_shift_10j_to_10l.py` | processes, a state file, a checkpoint log | wait for one shift, launch the next |
| boot recovery | `scripts/lucius_boot_recovery.py`, `runtime/recovery.py` | none of its own | look after a reboot, refuse |
| tasks and policy, projects | `tasks/`, `projects/service.py` | task status, contract, runs; project status, repositories | create, contract, ready, start, block, fail, complete, cancel |
| planning, freeze | `planning/`, `pilots/freeze.py` | plans with their links, freezes | plan, replan, reject, freeze |
| memory, learning | `memory/`, `learning/` | memories, learning candidates | create, validate, supersede, flag, promote, capture |
| backlog provisioning | `pilots/provisioning.py`, `pilots/controlled_mutation_provisioning.py` | none of its own | check a specification and write all of its rows |
| persistence | `persistence/`, `runtime/launcher.py` | one SQLite store, a write lock, id counters | sessions that commit or roll back |
| evaluation, retrieval, audit, registry documents | directories of those names | records and documents | see `components` in PROJECT.json |

How they interact: everything shares the rows of one SQLite store. A run of the loop
calls the dispatcher, the queue, the router and the task service inside *one* session
that is committed when the run returns and rolled back when it raises
(`runtime/launcher.py:311-324`). The command line calls single queue operations, each
in a session of its own under the store write lock. The mission supervisor writes item
states directly into the same backlogs, beside the queue. The night shift calls the
loop, then integration, which closes the workflow the loop declared complete, then the
controlled commit, all in one session over a checkout that people also use. The travel
shift repeats sessions that each ask the mission, the feeder and the loop, in a process
that a watchdog starts. Provisioning writes tasks, plans, freezes and
workflows in one transaction under the store write lock.

What is hard here, and is the reason for the properties:

* **Evidence held between calls.** A global selection, a checkpoint id and an item
  version are read in one call and used in a later one, with anything in between.
* **Summaries kept beside what they summarise.** The active task, the two ledgers, the
  task status, the workflow state and the mission status are all derived from the
  backlog at some moments and written down.
* **Writers past the queue.** The supervisor and the plan preparation change states
  the queue thinks it owns.
* **Failure in the middle.** Pre-checks, providers and processes fail between the
  handoff of an item and its end.
* **Order and fairness.** One item is chosen out of many with ties, unknown priorities
  and a limit on consecutive handoffs.
* **Two kinds of store.** Rows roll back, files and git commits do not: after a crash,
  a failed attempt or a lost session they disagree.
* **Checks of what others change.** Checkouts, indexes, process tables and keys are
  looked at first and acted on later, with people and other processes in between.
* **Time.** Waits expire while a mission is interrupted or its process is down.

`hazards` in PROJECT.json lists each of these at its line with the properties that
cover it, or says why none does yet.

## Modules

```
ExecutionSlot          what the queue promises, abstractly
    ^ implemented by
WorkQueue              pilots/queue.py, and what workflows.py does underneath
    ^ extended by            ^ extended by
RuntimeLoop            DurableMission
dispatcher + run       runtime/mission.py

CanonicalPromotion     night shift + integration + controlled commit, over git

ModelGateway           models/
    ^ extended by
ExecutionRouter        router + Ollama provider, over the same rows

TravelShift            continuation + feeder + portfolio, over the database
    ^ extended by
ShiftHandoff           the scripts that start it

TaskLedger             tasks/, projects/service.py
    ^ extended by
KnowledgeLedger        memory/, learning/
    ^ extended by
PlanLedger             planning/, pilots/freeze.py
    ^ extended by
BacklogProvisioning    both provisioners, under the store lock
```

`WorkQueue`, `RuntimeLoop`, `DurableMission`, `CanonicalPromotion`, `ExecutionRouter`,
`ShiftHandoff` and `BacklogProvisioning` each have a module `..._proofs` that extends
them with the theorems; those of `RuntimeLoop` and `DurableMission` also extend
`WorkQueue_proofs` and use its lemmas.


**WorkQueue.** One TLA+ step per service call, since a call runs in one session.
`state`, `version`, `generation`, `current` and `checkpoints` are the fields of the
items; `lifecycle`, `active`, `completedIds` and `pendingIds` those of the workflow.
`pick` and `ticket` are what is *not* in the database: the `GlobalQueueSelection` a
caller holds (`TakePick`, used by `StartPick`) and the checkpoint id with the version
an operator read (`TakeTicket`, used by `ResolveBlocker` and `RepairBlockedItem`).
Both survive their use and may be replayed. A call that the code refuses changes
nothing and has no action. `StartNext` is `start_next`, `StartPick` is
`start_selected_global_item` with both of its validations (`start_global_next` is
`TakePick` followed at once by `StartPick`), `BlockRunningItem`,
`BlockDispatchSelectedItem`, `CompleteItem` are the calls of those names. Inside the
actions, `SetState` is the state change that advances the version, `RecordBlock` what
both block calls write, `Recount` the recomputation of the ledgers. An item's
priority, order, identity and dependencies do not change and are CONSTANTS; items
stored without a valid state are `Legacy` and read as `UNPARSED`.
`BlockDispatchSelectedItem` has no lifecycle check in the code and none here, but is
called only by the runtime loop on an item it has just looked at: its guard says so.

**ExecutionSlot.** Each workflow has one slot; an item takes it when it is free and
its dependencies are done, releases it when blocked, and once done never takes it
again. `WorkQueue` implements it with `slot <- active` and `done <-` the COMPLETED
items.

**RuntimeLoop** EXTENDS WorkQueue with the task status, the plan, the last handoffs of
the audit trail (`recent`), the run (`loop`) and the committed rows (`saved`).
`BeginRun` is the plan preparation with the reconciliation of complete workflows,
`Dispatch` the dispatcher's `start_next`, then `PreDispatchFails` or
`PreDispatchPasses`, then `ExecutionCompletes` or `ExecutionBlocks`; `StopUnselected`
is the loop's end without a selection, blocking an item the dispatcher excluded for a
critical reason; `EndRun` commits and `Crash` restores `saved`. The contract, evidence, freeze
and worktree checks and the router's outcome are nondeterministic: every order of
outcomes is explored. Operators act between runs, through the queue's own operations,
`attach_plan`, and the task service.

**DurableMission** EXTENDS WorkQueue with the wait records, the mission row and a
clock in minutes. Every operation writes waits and item states (`Write`, without
version, checkpoint or active task, as `_update_item_state` does) and ends in
`Reconciled`, which is `reconcile_mission_state`. A restart loses nothing that was
committed and appears as `Recover`. Runs and operators use the queue in between
(`UseQueue`).

**CanonicalPromotion.** `log`, `index`, `work` are the canonical repository,
`candidate` the worktree of a workflow, `baseline` its frozen commit; `rows` is the
session (workflow states and commit records) and `saved` what was committed of it.
`job` says which service is in progress, at which step, and what it holds in memory;
`shift` is the supervisor's result. A step is a group of git calls that read or write
one thing: `CandidatePreflight`, `WriteFile`, `ObserveApplied`, `AcceptAndClose`,
`RestorePath` of `integrate`; `BuildManifest`, `RecheckState`, `StagePaths`,
`VerifyStaged`, `CreateCommit`, `InspectCommit` of `commit`; `CaptureSnapshots`,
`Promote`, `ProveContained` of the supervisor. Between any two of them a person may
write, stage or commit (`EditorWrites`, `EditorStages`, `EditorCommits`) or the process
may die (`Crash`): rows come back to `saved`, files stay. Integration and commit are also
called directly, as library callers and tests do.

**ModelGateway** and **ExecutionRouter** share the table `executions` and the id
`counter` (`next_id`, which also looks at the rows). The gateway tries a profile and
then its fallbacks. The router's `job` goes through evaluation of each provider,
selection, and then per attempt: workspace validation, the model call, the writes, the
scope check, acceptance, restore, structural repair (`EnforceFile`) and judgement.
`tree` says for each file of the worktree which provider call changed it last, and how.
`SessionRollsBack` loses the rows, not the files.

**TravelShift.** `rows` are the committed rows, `tx` the session in progress with its
own copy: the first write of a session takes the lock of the database file and its
commit gives it back. A workflow here has one item, as the feeder makes them; `seen`
and `proc` remember who fed it and what that process had read. The feeder and the
portfolio sort what they offer and take it from the front: `Listings` and `Portfolios`
are the orders that their sort keys allow, `Batches` the batches these come to, and an
action takes one of them. **ShiftHandoff** adds
the clock, the endurance shift with its log, the watchdogs and their state file.
People start watchdogs, any number of them, and nothing keeps two apart. What a watchdog
saw and when it acts are two steps; a look for which `ps` fails counts as nothing seen,
as in the code, and a gate that cannot read its evidence fails. The three
statuses of a watchdog at work are one, since nothing reads them as different, and a first look that
finds a shift is not a step. A reboot ends every process and leaves the rows, the log and the
file; nobody acts after it but people (see the boot recovery below).

**TaskLedger, KnowledgeLedger, PlanLedger, BacklogProvisioning** are one state with one
action per service call. `tasks` holds a task with the contract that is rewritten in
place; `validated` is a history of what `mark_ready` found complete. `memories` and
`candidates` are the two tables of knowledge; a memory remembers the candidate it was
promoted from, as the code does in `source_reference`. `plans` carry what planning was
shown. `prov` is how far a provisioning command is: `Begin` takes the store lock,
`Check` reads the checkouts and the existing rows, `Provision` is the transaction,
`Abandoned` every way to end without it.

The **MC** modules give the constants their values.

Definitions named `Mut...` stand before the definition they deviate from and are used
by no action. They are the plausible bugs that each property is tried against: with the
definition replaced by its `Mut...` form, TLC finds the property violated.

## Runs

| run | checks | instance | distinct states |
|---|---|---|---|
| queue | `TypeOK`, `ActiveTaskIsRunning`, `BlockedByCurrentCheckpoint`, `EveryRunIsAccountedFor`, `StartedAfterDependencies`, `LedgerIsExact`, `StaleEvidenceStaysStale`, `CompletedStaysCompleted`, `ImplementsExecutionSlot` | 2 workflows, 4 items, one dependency; versions up to 4, 2 block checkpoints | 740,291 |
| queue_mixed | `SelectionIsDetermined` | 6 items: unknown priority, no state, dependency across workflows, ties | 44,631 |
| runtime | `RuntimeTypeOK`, `OneJobAtATime`, `RunStrandsNothing`, `DoneMeansAllCompleted`, `RunReturns` | 2 projects, 3 items, 2 tasks a run, operators and crashes | 436,358 |
| runtime_fair | `NoThirdHandoffInARow` | 2 projects, 6 items, 3 tasks a run | 215,187 |
| runtime_closed | `ClosedStaysClosed` is violated | as runtime, without operators | |
| mission | `MissionTypeOK`, `RunningIsActive`, `CompletedMissionHasNoLooseEnds`, `WaitingItemHasAWait`, `PausedUntilWorkIsReady`, `SleepersWake` | 1 workflow, 2 items, 2 waits, 3 minutes | 267,828 |
| mission_authority | `AuthorityIsImmutable` is violated | as mission | |
| mission_repeat | `WakingRepeatsNothing` is violated | as mission | |
| promotion | `PromotionTypeOK`, `RecordedCommitIsVerified`, `OneCommitPerFreeze`, `FailedIntegrationRestores`, `CleanShiftHidesNothing` | 2 workflows, 4 paths, 2 shifts or calls, 2 edits by a person, crashes | 1,338,569 |
| routing | `RoutingTypeOK`, `CompletionIsOwnWork`, `UnattendedStaysInProfile`, `EveryCallHasItsRow` | 2 providers, 2 files, 2 out of 4 kinds of requests, 1 retry, 1 failover, 1 gateway call, 1 preview | 5,211,879 |
| travel | `HandoffTypeOK`, `EntryFedOnce`, `RestIsJustified`, `HandoffIsEarned`, `SecondShiftOnlyByRace` | 2 shift processes, 2 watchdogs, 1 entry, 2 launches | 3,642,441 |
| governance | `ProvisionedWholeAndOnce`, `LineageIsForward`, `WorkIsBacked`, `ClientKnowledgeStays` | 2 provisioning processes, 3 specifications, 3 starting ledgers, 4 calls | 468,881 |

What they show. *queue*: no sequence of calls, with selections and tickets replayed
at any later time, separates the active task from the RUNNING item or the ledgers from
the backlog, starts an item before what it depends on, or accepts evidence it once had
to refuse; that two items of a workflow never run at once follows from
`ActiveTaskIsRunning`. *queue_mixed*: the choice of the next item is a function of the
backlog, not of the order of rows.
*runtime*: a run handles one job at a time even with paused workflows in its scope,
leaves no item RUNNING behind it on any outcome or crash, declares a task done only
when all of its backlog is, and returns. *runtime_fair*: the consecutive-handoff limit
holds over several runs and crashes. *mission*: the supervisor's writes past the queue
never make two items run, no waiting item is orphaned, no expiry is missed, an
interruption is kept. *promotion*: wherever two edits of a person fall,
a recorded commit is exactly the authorised, accepted change on the frozen baseline;
a crash between git and the store never leads to a second commit of the same work; a
failed integration puts back all that the person did not touch; and a shift that ends
cleanly leaves no commit without a record and no change it did not find. *routing*: a
completed mutation is the work of the call that is reported, although timeouts, failed
restores and lost sessions leave files behind; and every provider call has one row.
*travel*: an entry is fed again only in the two ways the invariant names, a resting
session reports the truth about its rows, a travel shift is launched only on endurance
that was run, unless a gate found no line of its log, and a second one only by a watchdog
that did not see the first: it had looked before that was launched, or its look had failed.
*governance*: a backlog is there whole or not at all under kills and concurrent callers,
plans form forward chains, no task rests on a dependency that is not complete, and what
is learned of a client reaches no plan of another project.

**Bounds.** `MaxVersion` 4 lets an item be started, blocked, resumed and started again
(each advances the version by one), which is the shortest sequence in which evidence
of the first round meets the second; `MaxCheckpoints` 2 gives two blocks, of one item
or of two. In the runtime, `MaxVersion` 5 and 3 checkpoints leave a second run room
after a first one that blocked, and `RunHasRoom` begins a run only where the bounds
cannot cut it off, so that `RunReturns` is not an effect of a bound. Six items and
three tasks a run give every order of handoffs around the limit of two. Two waits are
enough for a second wait on the same item, and the clock's three instants for
"not yet", "due" and "overdue". `BlockKinds` has one member because no rule of the
queue tells blocking states apart; the runtime uses WAITING_HUMAN beside it.

In the promotion, `MaxCalls` 2 gives a shift after one that crashed or a direct call
after it, and `MaxEdits` 2 a change of the tree and one of the index, or a stage and a
commit, which is what it takes to slip something in between a check and the use of
what was checked. One workflow changes a file and adds one, the other adds one and may
not be committed, and a person keeps untracked notes. In the routing, two providers,
one retry and one failover give every path through the attempts of one request, and the
second request meets what the first left; `Requests` has a supervised
mutation with a repairable contract, the same with a refused scope, an unattended mutation
that needs evidence, and an unattended read-only one with a contract. In the travel run
`InitialMax` and `SessionMax` are 1 and 2 instead of 10 and 5, and `MaxCycles` 2; one entry
whose status is chosen anew at each reading stands for a backlog; there is no gate of
the registry in this instance, so the portfolio offers entries only. `MinDuration`
and `MaxClock` are 2, and the endurance shift may be restarted before the clock has come
to its bound: half of the time may go by while the machine is down, or over two processes.
Two launches are a race of the two watchdogs, or a launch after a shift that died. In the governance run
the starting ledgers are those that earlier calls leave (two drafts with a dependency,
a task waiting for its documentation, a ready task), so that four calls reach the ends
of the life cycles; five calls of tasks, plans and provisioning without the knowledge
services were checked as well. One of the specifications fails in its second key.

The processes of a kind (shifts, watchdogs, provisioning commands) are alike in the travel
and governance runs, and their sets are symmetric there; no temporal property is checked in them. No other run uses symmetry:
items, providers and paths differ by priority, order or number.
Deadlock is not checked: a queue with everything completed stops, and so does a
model at its bounds.

**Fairness.** `RuntimeSpec` has weak fairness of the loop's own steps: once `run` has
been called, the process goes on executing statements, and every call in it returns
or raises (a router that never answers is outside this module). Nothing makes a run
begin, an operator act, or a process survive. `MissionSpec` has weak fairness of the
clock and of `Recover`: every session begins with a recovery of its mission
(`runtime/continuation.py`), and sessions are started over and over
(`scripts/run_shift_10l_travel_mode.py`). The other
specifications have safety properties only and state no fairness.

### Where code and documents disagree

* `runtime_closed`: a CLOSED workflow is reopened. Every run reconciles the complete
  workflows in its scope and sets them to COMPLETED_PENDING_INTEGRATION
  (`runtime/service.py:463`), whatever state they had.
* `mission_authority`: an expired resource wait makes its item READY although an
  uncleared authority wait holds it in BLOCKED_AUTHORITY (`runtime/mission.py:252`).
* `mission_repeat`: the same line makes an item READY again that was completed while
  the wait was open.

Observations without a run of their own, met while modelling and kept out of the
properties, or in the form of what a property leaves open.

*Queue and mission.*
The requirement "item_version matches checkpoint
item_version" that block checkpoints carry (`pilots/queue.py:220-224`) can never hold:
the checkpoint stores the version before the state change that advances it; no code
evaluates it. Because the supervisor does not advance versions, a resume ticket
that had gone stale can match again once a wait puts its item back into a blocked
state; `StaleEvidenceStaysStale` holds of the queue alone. A run prepares a plan for a
PAUSED workflow too, which ends the pause (`runtime/adapters.py:80`). A failed
`validate_resume` leaves a workflow executable (`pilots/workflows.py:232`).

*Promotion.*
A crash after the files of an integration are written leaves changes in the canonical
tree that make every later attempt refuse (PREEXISTING_TRACKED_CHANGES). A write that
raises an OSError leaves `integrate` without its rollback. The first completed item of a
workflow with several ends the shift with a hard stop, since the workflow is not
complete. The checks of a controlled commit are strong against well-timed edits, not
proof: the check of the last step is after git's own commit and compares the result, so
that what slips in is found and not recorded; with one workflow and one shift,
`RecordedCommitIsVerified` survives any four edits and falls to five that restore every
observation in time.

*Routing.*
A `timeout_seconds` of 0 is evaluated as the profile's default and then replaced by the
provider's own (`runtime/router.py:785`, `0 or provider.timeout_seconds`), so
`UnattendedStaysInProfile` leaves it out. A structural repair is written after
deterministic acceptance, so that what is accepted is not what is kept; it may also write
for a read-only request and outside the authorised paths. Failures found by the router's
own gates, after the provider has returned, leave the worktree changed, and later
mutations fail as "not clean", where
`docs/phases/PHASE_1_30_QUALIFIED_AUTONOMOUS_LOCAL_MUTATION.md:45` says "deterministic
safety or acceptance failure restores the isolated workspace". The eligibility
of a provider with a derived timeout depends on the order of provider ids. A preview uses
up an execution id.

*Travel.*
The portfolio is never asked when no backlog entry is READY (`runtime/feeder.py:249`),
and it bypasses the regression guard. One call may feed an entry twice, by the portfolio
and then by the feeder, when the entry names provenance references
(`runtime/feeder.py:265-272`): `EntryFedOnce` allows this case and the race of two
shifts, and nothing else, although
`docs/architecture/BOUNDED_CONTINUATION_AND_DYNAMIC_FEEDER.md:56` says of a task that
exists in any state that "it is never re-ingested". A session that spends its last cycle on clearing waits or on
feeding ends BUDGET_EXHAUSTED and sleeps although work is READY. A session whose mission
waits for a person reports IDLE (`runtime/continuation.py:285`), and an item an operator
left RUNNING makes every session IDLE.

*Handoff.*
The boot recovery launches nothing on a database this program creates: it selects a column
`mission_metadata` (`runtime/recovery.py:238`) that the schema names `metadata`
(`persistence/orm.py:708`), and answers RECOVERY_BLOCKED to the error (247-255), although
`docs/shift_10m_boot_recovery.md:18-20` promises that it recovers the watchdog or the
shift. Its credit of clock time (244-246) would fail too, on timestamps that SQLite stores
without an offset. `tests/unit/test_shift_10m_boot_recovery.py` makes a table of its
own, which has that column and offsets. The gate of the watchdog, in contrast, does credit clock
time when the log has no line (`scripts/run_shift_10l_travel_mode.py:128-135`), and
`HandoffIsEarned` allows it. Nothing keeps two watchdogs from looking at the process table and
both launching, and a failing `ps` counts as no shift
(`scripts/watchdog_shift_10j_to_10l.py:73-89`); `SecondShiftOnlyByRace` says that nothing
else leads to two shifts.

*Governance.*
Blocking a running task and starting it again leaves two RUNNING runs, and `fail_task`
may end the run of another task. A contract is rewritten in place with version 1, so the
version that a freeze names hides changes. Controlled tasks are born READY and never
have their dependencies looked at. `replan` of a rejected plan overwrites the rejection,
and a rejected or superseded plan can be frozen. A second controlled provisioning over
the same project and repository always fails on `uq_repository_project_location`. Each
provisioner looks for its own marker only, so one identifier may be used once by each.
The plan that the runtime prepares covers a criterion "AC-1", while contracts number
"AC-001". A rejected learning candidate can be validated again and promoted any number
of times; a superseded memory can be validated again; supersession circles of three are
not refused, where `docs/phases/PHASE_1_7_MEMORY_V0_1.md:205` lists "circular supersession
prevention". The firewall looks at the project that the caller names: a candidate of no
project that cites a client's memory as its source is GLOBAL_SAFE and can be promoted,
so `ClientKnowledgeStays` is about the project of the candidate.

## Proofs

Every safety property that a run checks is a theorem: the run shows it on a small
instance, the theorem for every set of workflows, items, providers, entries and
processes and every bound that satisfies the named assumptions of the modules, and has
no other hypothesis.

**The queue.** `WorkQueue_proofs`:

| theorem | states |
|---|---|
| `TypeCorrect` | `[]TypeOK` |
| `ActiveTask` | `[](ActiveTaskIsRunning /\ OneRunningPerWorkflow)` |
| `Dependencies` | `[]StartedAfterDependencies` |
| `Ledger` | `[]LedgerIsExact` |
| `CompletedIsFinal` | `CompletedStaysCompleted` |
| `Checkpoints` | `[]BlockedByCurrentCheckpoint` |
| `StaleEvidence` | `StaleEvidenceStaysStale` |
| `Selection` | `[]SelectionIsDetermined` |
| `Accounting` | `[]EveryRunIsAccountedFor` |
| `Refinement` | `ImplementsExecutionSlot` |
| `SelectionIsUnique` | no two items are both the next selection |

The assumptions say that every item has a workflow, a priority, dependencies among the
items and an order; that identities differ (the queue refuses a backlog with duplicate
ids); and that callers block with states the queue calls blocking.

The eleven actions change rows in only five ways: an eligible item of a
workflow with nothing running is started, an item that is running or eligible is
blocked, a blocked item is resolved, a blocked item is repaired, and an item that is
running or resumable is completed. `StepCases` shows that every step is one of these or leaves the
rows alone; this is where the checks on selections, held picks and tickets are used.
Every invariant is then shown to survive the five cases.

* `ActiveTaskIsRunning` is inductive item by item (`ActiveIffRunning`): an item is
  RUNNING exactly when it is its workflow's active task, and active tasks belong to
  their workflow. `OneRunningPerWorkflow` alone is not inductive, and follows.
* `LedgerIsExact` needs `NothingFailed`: no queue operation makes an item FAILED, so
  that the pending ledger stays the complement of the completed one.
* `StaleEvidenceStaysStale` rests on `VersionStampsTheRow` (versions never decrease,
  and a step that keeps an item's version keeps its state and current checkpoint) and on
  `EvidenceIsPast` (evidence never names a version of the future). A refused ticket at
  the current version is refused because of a row that this version pins down; at an
  older version it can never match again.
* `Selection` takes the least of the eligible items key by key (`LeastItem`,
  `FirstExists`), so no induction over the backlog is needed.
* `Accounting` counts the checkpoints of an item by a set that grows by the new one
  (`RunsCountable`), case by case of an item's state (`Accounted`).
* `Refinement` uses `ActiveIffRunning` and `StartedAfterDependencies`: starting is
  `Acquire`, blocking is `Release` (or a stutter when the item did not run), completing
  is `Finish`, and everything else stutters.

**The runtime loop.** `RuntimeLoop_proofs`:

| theorem | states |
|---|---|
| `RuntimeTypeCorrect` | `[]RuntimeTypeOK` |
| `OneJob` | `[]OneJobAtATime` |
| `NothingStranded` | `[]RunStrandsNothing` |
| `Aggregate` | `[]DoneMeansAllCompleted` |
| `FairHandoff` | `NoThirdHandoffInARow` |
| `QueueKeepsItsPromises` | the queue's invariants hold under the loop and its crashes |
| `CommittedForward` | `CommittedRowsAdvance`: what is committed only moves forward |

Every step of a run or of an operator is a `RowStep` of the queue, except a crash, which
brings the rows back to `saved` (`RuntimeStepCases`). So each invariant is kept of two
states at once: of the rows (`RowsSound`), and of the committed rows (`SavedSound`),
which is the same module instantiated with the fields of `saved` for the rows
(`Before`). `CrashRestores` is then one line of argument: after a crash the rows are
what `Before` was about. `OneJobAtATime` and `RunStrandsNothing` need `RunHoldsItem`:
the item a run holds is RUNNING, and whatever else runs is out of scope and ran before.
`FairHandoff` is an action property of the dispatch alone, since nothing else takes an
item in hand (`OnlyDispatchTakes`); two handoffs in a row to one project exclude that
project unless no other has work as urgent (`ExhaustedWaits`).

`CompletedStaysCompleted` is true of the queue alone: a crash takes completed work back.
What holds of the loop is the same promise about the committed rows, and `CommittedForward`
proves it: versions never decrease and identify a row, and work committed as completed
is never run again. Its invariant is `RunIsAhead`: the rows of a run are those that it
would fall back to, or later ones.

**The mission supervisor.** `DurableMission_proofs`:

| theorem | states |
|---|---|
| `MissionTypeCorrect` | `[]MissionTypeOK` |
| `RunningStaysActive` | `[]RunningIsActive` |
| `NoOrphans` | `[]WaitingItemHasAWait` |
| `CompletionIsFinal` | `[]CompletedMissionHasNoLooseEnds` |
| `PauseIsKept` | `PausedUntilWorkIsReady` |

`CountAssumption` says that a backlog is finite, which the counters of the mission need.
A step records a wait, clears some, reconciles, or uses the queue (`MissionStepCases`).
Of the queue's `ActiveIffRunning` only one half survives the supervisor's writes:
what is RUNNING is active, not the converse. `WaitingItemHasAWait` is not inductive: its
open wait must also be of the class that brings the item's state (`HeldByAWait`), and
the queue neither enters nor leaves the two resource waits. The last two are
properties of single reconciliations: a step that changes a row a status depends on
recomputes the status.

**The promotion.** `CanonicalPromotion_proofs`:

| theorem | states |
|---|---|
| `PromotionTypeCorrect` | `[]PromotionTypeOK` |
| `CommittedOnce` | `[]OneCommitPerFreeze` |
| `RecordsAreVerified` | `[]RecordedCommitIsVerified` |
| `FailureRestores` | `FailedIntegrationRestores` |
| `CleanShift` | `CleanShiftHidesNothing` |

They hold for any number of calls, crashes and edits of a person. The work is to say
what a call in progress has established and what an edit can take away from it.
`Promised` does this for a commit, step by step: `Chosen` (the changes are there and
covered), `Passed` (what was observed was accepted, but for what was touched since),
`Present` (the call's own commit is in the branch and is the one inspected), `AllVerified`
for the records, committed or not. `CommittedOnce` rests on `NotYetCommitted`: after the
last reading of the head, nothing of the workflow is above the baseline, and a commit of
the workflow can only be above it (`History`). `Restored` says which paths a
rollback still owes, and `Open` what a shift that has not failed has accounted for.

The first attempt at `RecordsAreVerified` failed for a good reason. A person can change
a file after it was accepted and put it back before each later look, so that every
comparison finds what it expects; the property as it then stood survived four edits in
TLC and falls to five. `RecordedCommitIsVerified` therefore excepts from acceptance the
files that the editor touched during the call (`touched`), and nothing else of it.

**The routing.** `ExecutionRouter_proofs`:

| theorem | states |
|---|---|
| `RoutingTypeCorrect` | `[]RoutingTypeOK` |
| `OwnWork` | `[]CompletionIsOwnWork` |
| `UnattendedBounded` | `[]UnattendedStaysInProfile` |
| `CallsHaveRows` | `[]EveryCallHasItsRow` |

They are for any finite sets of providers and profiles. The sorts of the code are stated
as what they return, a set of sorted enumerations (`InOrder`), and the key is total, so
that it is one.

* `NextIdIsTheCounter`: `next_id` looks at the counter and at the rows. In every session
  the counter is ahead of the rows (`RowsTyped`), so the rows never decide.
* `OwnWork`: the model is asked about a clean worktree, its edits stay within the scope,
  and after the scope check every changed file was changed by this very call
  (`WorkIsOwn`); only a completed result is left with such a tree.
* `UnattendedBounded`: once a provider is eligible the timeout of the request is a
  number that every eligible profile allows (`WithinProfiles`), and the order contains
  eligible providers only. The proof needs that registered timeouts are positive
  (`Registration`): a default of 0 seconds would be read as "no timeout". The
  package builds its provider with 300 seconds and qualifies it with 60
  (`runtime/ollama.py:122`, `runtime/qualification.py:62`); only a caller who asks for a
  provider with a timeout of 0 is outside the theorem.
* `CallsHaveRows`: rows of one request are failures but for the last, each under another
  provider or a higher attempt than the ones before (`TablesInOrder`), in the session and in the committed
  table; the calls are as many as the rows plus the one not yet recorded (`RouterRows`).

**The travel shift and its watchdogs.** `ShiftHandoff_proofs`:

| theorem | states |
|---|---|
| `HandoffTypeCorrect` | `[]HandoffTypeOK` |
| `FedOnceOnly` | `[]EntryFedOnce` |
| `RestJustified` | `[]RestIsJustified` |
| `LaunchIsEarned` | `[]HandoffIsEarned` |
| `OneOwner` | `[]SecondShiftOnlyByRace` |

They assume that a backlog and a registry are finite and that ranks differ.

* `FedOnceOnly` needs three things (`FeedKept`): the promise also of the session's own
  copy `tx.rows`, so that a commit steps from one promise to the same promise; that what
  the session has added is its own; and that a process between reading the keys and
  feeding has fed nothing since. A batch names a source once for each feeder
  (`ListingOnce`) and never one whose key was read (`BatchFresh`).
* `RestIsJustified` is inductive with types alone: a step that lets a process rest looks
  at the rows it commits (`RestNow`), and other processes cannot write meanwhile.
* `LaunchIsEarned`: an alive shift and a watchdog that has passed its gate each claim that
  the time is up. Only the gate makes such a claim, and one once earned stays earned
  through deaths and reboots (`EarnedKept`); the type invariant carries the fact it
  needs, that the log never shows more time than one endurance process ran.
* `OneOwner`: a watchdog about to launch that could look has seen every launch up to its look,
  whose shifts were all over, and one that could not knows of none (`OwnerKept`). A second
  shift therefore means a launch in between or a failed look, for any number of
  watchdogs, shift processes and launches.

**The ledgers.** `BacklogProvisioning_proofs` proves the four invariants of the governance run for any
number of tasks, plans, memories, specifications and processes:

| theorem | states |
|---|---|
| `LedgerBacked` | `[]WorkIsBacked` |
| `LineageForward` | `[]LineageIsForward` |
| `ClientsFirewalled` | `[]ClientKnowledgeStays` |
| `WholeAndOnce` | `[]ProvisionedWholeAndOnce` |

They assume what the modules name as assumptions: the inputs have their types, the
ledgers that earlier calls have left are backed (`LedgerAssumption`), This, NoProject
and the Clients differ, Nobody is no process. The bounds play no part.

Rows are rewritten one at a time or appended, so each ledger has a small
set of shapes of steps, and what a row may point to is kept by all of them (`RowsKept`,
`MemoriesKept`, `CandidatesKept`).

* `WorkIsBacked` survives a rewritten row because no call leaves COMPLETE (`Rewrites`),
  and mark_ready adds only dependencies that are COMPLETE and not the task itself.
* `ClientKnowledgeStays` is not inductive: it says nothing of a memory no plan used yet.
  `KnowledgeInv` adds that a candidate is classified by its project, and that a memory
  promoted from a client's candidate is still that client's (`Attributed`), since
  promotion to GLOBAL refuses PRIVATE; planning then refuses every client's memory.
* `LineageIsForward` needs that a version is no larger than the place of its row, which
  gives the maximum that `NextVersion` takes (`MaxOfBounded`), and that plans have tasks
  that exist, so that a provisioned task has no plan before its first.
* `ProvisionedWholeAndOnce` needs the lock: a command that has begun holds it
  (`LockHeld`), so a command that passed its checks still has no workflow of its
  specification before it when it writes (`CheckedIsNew`).

**Only model-checked.** Liveness is out of this prover's reach, as is ENABLED: `RunReturns`
and `SleepersWake` are TLC's alone. So are the three runs that refute a document: a
counterexample is their proof.

## What is not modelled

`components` in PROJECT.json gives the reason for every part. In short: the release gate,
provenance, evaluation and benchmarks are scoring rules over the text of documents that
append their results; the boot recovery only refuses, as said under *Handoff* above;
retrieval is text ranking, evidence and audit are append-only;
prompts, JSON parsing and the scripted adapter are input and output around the router.

Within the modelled parts: texts, timestamps, substeps and reports; the order of audit
events other than the handoffs; malformed rows other than items without a valid state
(duplicate ids and active tasks that name no item make the code raise); the project,
repository and plan-freeze checks of the dispatcher, which are the one flag `planned`;
`record_checkpoint`, `validate_resume` and free use of `update_progress`, which no
operation of the package calls between queue calls; environment checks of the launcher
and the supervisor that only refuse; a person who launches the travel shift by hand or
forces the watchdog to evaluate at once (`--force-eval`); and the store of a launcher session
that runs beside a locked command, which depends on the isolation mode of the SQLite
driver: transactions are taken as serialisable throughout.

## What is left to do

* An abstract serial store that provisioning and the gateway's id counter implement.
* An abstract lease that the shift scripts implement but for the race of two watchdogs.
* A travel instance with gates of the registry, once the portfolio's own order is bounded.
