---------------------------- MODULE RuntimeLoop ----------------------------
(***************************************************************************)
(* The native runtime loop over the work queue: the dispatcher             *)
(* (src/lucius/runtime/dispatcher.py) that starts one item at a time over  *)
(* all projects, and ExecutionRuntimeLoopService.run                       *)
(* (src/lucius/runtime/service.py) that checks, executes and then          *)
(* completes or blocks it, until max_tasks or nothing is left.             *)
(*                                                                         *)
(* One run is one database transaction: the store has a single writer, and *)
(* the session is committed when the run returns and rolled back when it   *)
(* raises or its process dies.  So operators act between runs only, and a  *)
(* crash brings back the rows as they were when the run began.             *)
(***************************************************************************)
EXTENDS WorkQueue

CONSTANTS
    projOf,         \* the project of a workflow
    projectRank,    \* the rank of its scheduling priority, 0 first
    MaxTasks,       \* config.max_tasks of a run
    OperatorActs    \* bound: do operators act on the queue between runs

Projects == {projOf[w] : w \in Workflows}
consecutive_project_limit == 2

ASSUME ProjectAssumption ==
    /\ projectRank \in [Projects -> 0..3]
    /\ MaxTasks \in Nat \ {0}
    /\ OperatorActs \in BOOLEAN

VARIABLES
    taskStatus,     \* per workflow: status of the task it is bound to
    planned,        \* per workflow: plan_id and plan_freeze_id are set
    recent,         \* projects of the last handoffs in the audit trail
    loop,           \* the run in progress
    saved           \* the committed rows while a run is in progress

\* READY for execution; BLOCKED for every other status TaskService sets;
\* DONE for COMPLETE and DOCUMENTATION_PENDING, set by the reconciliation.
TaskStatus == {"READY", "BLOCKED", "DONE"}
Phase == {"off", "select", "dispatched", "executing", "stop"}
Off == [phase |-> "off", scope |-> {}, item |-> NoItem, taken |-> 0]

\* Everything a session rolls back: the queue rows, task, plan and audit trail.
Rows == [state |-> state, version |-> version, generation |-> generation,
         current |-> current, checkpoints |-> checkpoints, lifecycle |-> lifecycle,
         active |-> active, completedIds |-> completedIds, pendingIds |-> pendingIds,
         taskStatus |-> taskStatus, planned |-> planned, recent |-> recent]
NoRows == [none |-> TRUE]
runtimeVars == <<vars, taskStatus, planned, recent, loop, saved>>
held == <<pick, ticket>>

----------------------------------------------------------------------------
(* Dispatcher: eligibility and order.                                      *)

\* Unlike the queue, the dispatcher counts a completed item with an unknown
\* priority, and ranks an item with one as NORMAL instead of excluding it.
DependenciesUnresolved(i) ==
    \E d \in deps[i] : wfOf[d] # wfOf[i] \/ state[d] # "COMPLETED"

CriticalReason(w) == taskStatus[w] # "READY" \/ ~planned[w]

DispatchEligible(i) ==
    LET w == wfOf[i]
    IN  /\ Executable(w)
        /\ ~CriticalReason(w)
        /\ InState(i, ELIGIBLE_STATES)
        /\ ~DependenciesUnresolved(i)
        /\ state[i] = "READY_TO_RESUME" => current[i] # 0

InScope(i, scope) == wfOf[i] \in scope
Candidates(scope) == {i \in Items : InScope(i, scope) /\ DispatchEligible(i)}

MutExhausted(p, scope) ==
    /\ Len(recent) > consecutive_project_limit
    /\ \A k \in 1..Len(recent) : recent[k] = p
    /\ \E i \in Candidates(scope) : projOf[wfOf[i]] # p
\* The project handed over twice in a row, deferred when another has work.
Exhausted(p, scope) ==
    /\ Len(recent) = consecutive_project_limit
    /\ \A k \in 1..Len(recent) : recent[k] = p
    /\ \E i \in Candidates(scope) : projOf[wfOf[i]] # p

CandidateKey(i, scope) ==
    LET p == projOf[wfOf[i]]
    IN  <<PRIORITY_RANK[priority[i]],
          IF Exhausted(p, scope) /\ priority[i] # "CRITICAL" THEN 1 ELSE 0,
          projectRank[p], StateClassRank(i), createdOrder[i], identity[i]>>
DispatchLess(s, t) == \E k \in 1..6 : s[k] < t[k] /\ \A l \in 1..(k-1) : s[l] = t[l]

MutNothingRunning(scope) == \A w \in scope : Executable(w) => Running(w) = {}
\* select_next: RUNNING items count in every workflow of the scope, whatever
\* its lifecycle state.
NothingRunning(scope) == \A w \in scope : Running(w) = {}
DispatchSelect(scope, i) ==
    /\ NothingRunning(scope)
    /\ i \in Candidates(scope)
    /\ \A j \in Candidates(scope) \ {i} :
           DispatchLess(CandidateKey(i, scope), CandidateKey(j, scope))

\* _first_dispatch_fail_closed_evaluation: an item that is not blocked and
\* has its dependencies, excluded for a critical reason.
FailsClosed(scope, i) ==
    /\ InScope(i, scope)
    /\ InState(i, ELIGIBLE_STATES)
    /\ ~DependenciesUnresolved(i)
    /\ CriticalReason(wfOf[i])

----------------------------------------------------------------------------
(* _workflow_successfully_completed, and the reconciliation that follows.  *)

MutSuccessfullyCompleted(w) == active[w] = NoItem /\ pendingIds[w] = {}
SuccessfullyCompleted(w) ==
    /\ active[w] = NoItem
    /\ \A i \in ItemsOf(w) : state[i] = "COMPLETED"
    /\ completedIds[w] = ItemsOf(w)
    /\ pendingIds[w] = {}

\* Bound: a run begins only where the bounds of the queue leave it room to end.
RunHasRoom ==
    /\ Len(checkpoints) + MaxTasks <= MaxCheckpoints
    /\ \A i \in Items : InState(i, ELIGIBLE_STATES) => version[i] + 2 <= MaxVersion

(* A run begins: _prepare_workflow_plans over every workflow in scope.     *)
BeginRun(scope) ==
    /\ loop = Off
    /\ RunHasRoom
    /\ saved' = Rows
    /\ loop' = [Off EXCEPT !.phase = "select", !.scope = scope]
    /\ lifecycle' = [w \in Workflows |->
            IF w \in scope /\ SuccessfullyCompleted(w) THEN "COMPLETED_PENDING_INTEGRATION"
            ELSE IF \/ w \notin scope
                    \/ lifecycle[w] = "COMPLETED_PENDING_INTEGRATION"
                    \/ planned[w]
                 THEN lifecycle[w] ELSE "PLAN_READY"]
    /\ planned' = [w \in Workflows |->
            planned[w] \/ /\ w \in scope
                          /\ lifecycle'[w] # "COMPLETED_PENDING_INTEGRATION"]
    /\ taskStatus' = [w \in Workflows |->
            IF w \in scope /\ SuccessfullyCompleted(w) THEN "DONE" ELSE taskStatus[w]]
    /\ UNCHANGED <<itemVars, active, ledgerVars, held, recent>>

\* The handoff joins the audit trail, of which the last ones are read back.
MutRemember(p) == recent' = Append(recent, p)
Remember(p) ==
    LET r == Append(recent, p)
    IN  recent' = IF Len(r) > consecutive_project_limit THEN Tail(r) ELSE r

(* MultiProjectDispatcher.start_next                                       *)
Dispatch(i) ==
    /\ loop.phase = "select"
    /\ loop.taken < MaxTasks
    /\ DispatchSelect(loop.scope, i)
    /\ MarkStarted(i)
    /\ Remember(projOf[wfOf[i]])
    /\ loop' = [loop EXCEPT !.phase = "dispatched", !.item = i, !.taken = @ + 1]
    /\ UNCHANGED <<held, taskStatus, planned, saved>>

(* Nothing was selected: the run stops, after blocking the first item the  *)
(* dispatcher excluded for a critical reason, if nothing runs.             *)
StopUnselected ==
    /\ loop.phase = "select"
    /\ loop.taken < MaxTasks
    /\ ~NothingRunning(loop.scope) \/ Candidates(loop.scope) = {}
    /\ loop' = [loop EXCEPT !.phase = "stop", !.item = NoItem]
    /\ IF NothingRunning(loop.scope) /\ \E i \in Items : FailsClosed(loop.scope, i)
       THEN \E i \in Items : /\ FailsClosed(loop.scope, i)
                             /\ RecordBlock(i, "WAITING_HUMAN")
       ELSE UNCHANGED queueVars
    /\ UNCHANGED <<held, taskStatus, planned, recent, saved>>

MutPreDispatchFails ==
    /\ loop.phase = "dispatched"
    /\ loop' = [loop EXCEPT !.phase = "stop"]
    /\ UNCHANGED <<vars, taskStatus, planned, recent, saved>>
(* _pre_dispatch_release_error looks at contract, evidence, freeze and     *)
(* worktree, which this module does not keep: it may fail or succeed.      *)
PreDispatchFails ==
    /\ loop.phase = "dispatched"
    /\ state[loop.item] = "RUNNING"
    /\ RecordBlock(loop.item, "WAITING_HUMAN")
    /\ loop' = [loop EXCEPT !.phase = "stop"]
    /\ UNCHANGED <<held, taskStatus, planned, recent, saved>>

PreDispatchPasses ==
    /\ loop.phase = "dispatched"
    /\ state[loop.item] = "RUNNING"
    /\ loop' = [loop EXCEPT !.phase = "executing"]
    /\ UNCHANGED <<vars, taskStatus, planned, recent, saved>>

(* The router returned COMPLETED: complete_item, then the reconciliation.  *)
ExecutionCompletes ==
    LET w == wfOf[loop.item]
    IN  /\ loop.phase = "executing"
        /\ loop' = [loop EXCEPT !.phase = "select"]
        /\ MarkCompleted(loop.item)
        /\ IF SuccessfullyCompleted(w)'
           THEN /\ lifecycle' = [lifecycle EXCEPT ![w] = "COMPLETED_PENDING_INTEGRATION"]
                /\ taskStatus' = [taskStatus EXCEPT ![w] = "DONE"]
           ELSE UNCHANGED <<lifecycle, taskStatus>>
        /\ UNCHANGED <<held, planned, recent, saved>>

MutExecutionBlocks ==
    /\ loop.phase = "executing"
    /\ loop' = [loop EXCEPT !.phase = "dispatched"]
    /\ UNCHANGED <<vars, taskStatus, planned, recent, saved>>
(* Any other outcome, a raised exception included: FAILED and ESCALATED    *)
(* wait for a human, BLOCKED for something external.  Whether the run goes *)
(* on depends on stop_on_block and on the class of the failure.            *)
ExecutionBlocks ==
    /\ loop.phase = "executing"
    /\ state[loop.item] = "RUNNING"
    /\ \E outcome \in {"ESCALATED", "FAILED", "BLOCKED"}, stop_on_block \in BOOLEAN,
          local \in BOOLEAN :
        /\ RecordBlock(loop.item, IF outcome = "BLOCKED" THEN "WAITING_EXTERNAL"
                                                         ELSE "WAITING_HUMAN")
        /\ loop' = [loop EXCEPT !.phase =
                IF \/ stop_on_block
                   \/ outcome = "ESCALATED"
                   \/ outcome = "FAILED" /\ ~local
                THEN "stop" ELSE "select"]
    /\ UNCHANGED <<held, taskStatus, planned, recent, saved>>

(* The run returns and its session is committed.                           *)
EndRun ==
    /\ \/ loop.phase = "stop"
       \/ loop.phase = "select" /\ loop.taken = MaxTasks
    /\ loop' = Off
    /\ saved' = NoRows
    /\ UNCHANGED <<vars, taskStatus, planned, recent>>

\* The rows that are the backlog, the workflow and what hangs on it.
RestoreBacklog ==
    /\ state' = saved.state /\ version' = saved.version
    /\ generation' = saved.generation /\ current' = saved.current
    /\ lifecycle' = saved.lifecycle /\ active' = saved.active
    /\ completedIds' = saved.completedIds /\ pendingIds' = saved.pendingIds
    /\ taskStatus' = saved.taskStatus /\ planned' = saved.planned
    /\ recent' = saved.recent

(* The process dies or an exception escapes: the session is rolled back.   *)
Crash ==
    /\ loop # Off
    /\ RestoreBacklog
    /\ checkpoints' = saved.checkpoints
    /\ loop' = Off
    /\ saved' = NoRows
    /\ UNCHANGED held

----------------------------------------------------------------------------
(* Between runs.                                                           *)

\* Operators use the queue through its own operations.
OperatorOnQueue ==
    /\ OperatorActs
    /\ \/ \E w \in Workflows : StartNext(w) \/ Pause(w)
       \/ \E i \in Items : BlockRunningItem(i) \/ CompleteItem(i) \/ TakeTicket(i)
       \/ ResolveBlocker
    /\ UNCHANGED <<taskStatus, planned>>

\* attach_plan, by an operator: a new plan for work accepted or paused.
OperatorAttachesPlan(w) ==
    /\ OperatorActs
    /\ lifecycle[w] \in {"OBJECTIVE_ACCEPTED", "PAUSED"}
    /\ AttachPlan(w)
    /\ planned' = [planned EXCEPT ![w] = TRUE]
    /\ UNCHANGED taskStatus

\* TaskService moves the task in and out of READY (block_task, mark_ready).
TaskMoves(w) ==
    /\ taskStatus[w] \in {"READY", "BLOCKED"}
    /\ taskStatus' = [taskStatus EXCEPT ![w] = IF @ = "READY" THEN "BLOCKED" ELSE "READY"]
    /\ UNCHANGED <<vars, planned>>

\* A successful canonical integration closes the workflow.
IntegrationCloses(w) ==
    /\ lifecycle[w] = "COMPLETED_PENDING_INTEGRATION"
    /\ lifecycle' = [lifecycle EXCEPT ![w] = "CLOSED"]
    /\ UNCHANGED <<itemVars, active, ledgerVars, held, taskStatus, planned>>

BetweenRuns ==
    /\ loop = Off
    /\ \/ OperatorOnQueue
       \/ \E w \in Workflows :
            OperatorAttachesPlan(w) \/ TaskMoves(w) \/ IntegrationCloses(w)
    /\ UNCHANGED <<recent, loop, saved>>

RuntimeInit ==
    /\ Init
    /\ taskStatus = [w \in Workflows |-> "READY"]
    /\ planned = [w \in Workflows |-> FALSE]
    /\ recent = <<>>
    /\ loop = Off
    /\ saved = NoRows

LoopStep ==
    \/ \E i \in Items : Dispatch(i)
    \/ StopUnselected
    \/ PreDispatchFails
    \/ PreDispatchPasses
    \/ ExecutionCompletes
    \/ ExecutionBlocks
    \/ EndRun

RuntimeNext ==
    \/ \E scope \in Scopes : BeginRun(scope)
    \/ LoopStep
    \/ Crash
    \/ BetweenRuns

\* A run that has begun keeps executing statements until it returns.
RuntimeSpec == RuntimeInit /\ [][RuntimeNext]_runtimeVars /\ WF_runtimeVars(LoopStep)
----------------------------------------------------------------------------
(* Type correctness of the rows the runtime adds and of the run itself.    *)
RuntimeTypeOK ==
    /\ TypeOK
    /\ taskStatus \in [Workflows -> TaskStatus]
    /\ planned \in [Workflows -> BOOLEAN]
    /\ recent \in Seq(Projects) /\ Len(recent) <= consecutive_project_limit
    /\ loop \in [phase : Phase, scope : Scopes \cup {{}},
                  item : Items \cup {NoItem}, taken : 0..MaxTasks]

(* The dispatcher executes no more than one job at a time: while a run     *)
(* holds an item, that item is the only RUNNING one in its scope, in       *)
(* workflows of every lifecycle state and whoever started items before.    *)
OneJobAtATime ==
    loop.phase \in {"dispatched", "executing"} =>
        UNION {Running(w) : w \in loop.scope} = {loop.item}

(* A run leaves nothing behind: once it is past an item, whatever is       *)
(* RUNNING was RUNNING before the run began, so that neither an outcome    *)
(* nor a crash strands an item the run started.                            *)
RunStrandsNothing ==
    loop.phase \in {"select", "stop"} =>
        \A i \in Items : state[i] = "RUNNING" => saved.state[i] = "RUNNING"

(* The aggregate agrees with its parts: a task is DONE, and a workflow is  *)
(* handed to integration or closed, only when every item of its backlog is *)
(* COMPLETED, its ledgers say so and no task is active.                    *)
DoneMeansAllCompleted ==
    \A w \in Workflows :
        taskStatus[w] = "DONE" \/ lifecycle[w] \in {"COMPLETED_PENDING_INTEGRATION", "CLOSED"}
            => /\ \A i \in ItemsOf(w) : state[i] = "COMPLETED"
               /\ completedIds[w] = ItemsOf(w) /\ pendingIds[w] = {}
               /\ active[w] = NoItem

(* Fairness of the dispatcher: a third handoff in a row to one project     *)
(* happens only for CRITICAL work, or when no other project has eligible   *)
(* work of the same or a higher priority.                                  *)
NoThirdHandoffInARow ==
    [][ \A i \in Items :
            /\ loop.phase = "select" /\ loop'.phase = "dispatched" /\ loop'.item = i
            /\ recent = <<projOf[wfOf[i]], projOf[wfOf[i]]>>
            /\ priority[i] # "CRITICAL"
            => \A j \in Candidates(loop.scope) :
                    \/ projOf[wfOf[j]] = projOf[wfOf[i]]
                    \/ PRIORITY_RANK[priority[j]] > PRIORITY_RANK[priority[i]]
      ]_runtimeVars

(* A run that has begun returns: the loop neither waits for ever on an     *)
(* item nor goes round without taking one.                                 *)
RunReturns == loop # Off ~> loop = Off

(* PHASE_1_17A_..._READINESS.md:199: "CLOSED: the objective has been       *)
(* completed, rejected, or explicitly stopped".  No run, operator or crash *)
(* brings a workflow back from there.                                      *)
ClosedStaysClosed ==
    [][ \A w \in Workflows :
            lifecycle[w] = "CLOSED" => lifecycle'[w] = "CLOSED" ]_runtimeVars
=============================================================================
