------------------------- MODULE RuntimeLoop_proofs -------------------------
(***************************************************************************)
(* Proofs about the native runtime loop, for every backlog, every scope    *)
(* and every bound.  A step of a run changes the queue rows in one of the  *)
(* ways the queue itself does (RowStep of WorkQueue_proofs), or it is a    *)
(* crash and brings back the rows the run began with.  So each invariant   *)
(* is kept of the rows and of the committed rows in `saved` together.      *)
(***************************************************************************)
EXTENDS RuntimeLoop, WorkQueue_proofs

(* The same module, read of the rows that were committed when the run      *)
(* began: what a rollback brings back.                                     *)
Before == INSTANCE RuntimeLoop WITH
    state <- saved.state, version <- saved.version,
    generation <- saved.generation, current <- saved.current,
    checkpoints <- saved.checkpoints, lifecycle <- saved.lifecycle,
    active <- saved.active, completedIds <- saved.completedIds,
    pendingIds <- saved.pendingIds, taskStatus <- saved.taskStatus,
    planned <- saved.planned, recent <- saved.recent

InRun == loop # Off

(* While a run holds an item, the item is in its scope and RUNNING, and    *)
(* whatever else is RUNNING is out of scope and was so before the run.     *)
RunHoldsItem ==
    loop.phase \in {"dispatched", "executing"} =>
        /\ loop.item \in Items
        /\ wfOf[loop.item] \in loop.scope
        /\ state[loop.item] = "RUNNING"
        /\ \A i \in Items : state[i] = "RUNNING" /\ i # loop.item =>
               wfOf[i] \notin loop.scope /\ saved.state[i] = "RUNNING"

----------------------------------------------------------------------------
(* How a step of the runtime changes the queue rows.                       *)

(* Every step but a crash changes the rows the way the queue does: a       *)
(* dispatch is a start, an outcome is a block or a completion.             *)
LEMMA RuntimeStepCases ==
    ASSUME RuntimeTypeOK, RunHoldsItem, [RuntimeNext]_runtimeVars
    PROVE  RowStep \/ Crash
<1> USE BacklogAssumption, CallerAssumption
<1> TypeOK
  BY DEF RuntimeTypeOK
<1>w. "WAITING_HUMAN" \in BLOCKED_STATES /\ "WAITING_EXTERNAL" \in BLOCKED_STATES
  BY DEF BLOCKED_STATES
<1>1. CASE UNCHANGED runtimeVars
  BY <1>1 DEF RowStep, Rests, runtimeVars, vars, queueVars, itemVars, ledgerVars
<1>2. ASSUME NEW scope \in Scopes, BeginRun(scope) PROVE RowStep
  BY <1>2 DEF BeginRun, RowStep, Rests
<1>3. ASSUME NEW i \in Items, Dispatch(i) PROVE RowStep
  <2>1. Running(wfOf[i]) = {} /\ DispatchEligible(i)
    BY <1>3 DEF Dispatch, DispatchSelect, Candidates, InScope, NothingRunning
  <2>2. Starts(i)
    BY <1>3, <2>1 DEF Dispatch, DispatchEligible, DependenciesUnresolved, Starts,
                      DependenciesMet
  <2> QED BY <2>2 DEF RowStep
<1>4. CASE StopUnselected
  <2>1. CASE UNCHANGED queueVars
    BY <2>1 DEF RowStep, Rests, queueVars
  <2>2. ASSUME NEW i \in Items, FailsClosed(loop.scope, i), NothingRunning(loop.scope),
               RecordBlock(i, "WAITING_HUMAN")
        PROVE  RowStep
    <3>1. Blocks(i, "WAITING_HUMAN")
      BY <2>2 DEF FailsClosed, InScope, NothingRunning, DependenciesUnresolved, Blocks,
                  DependenciesMet
    <3> QED BY <1>w, <3>1 DEF RowStep
  <2> QED BY <1>4, <2>1, <2>2 DEF StopUnselected
<1>5. CASE PreDispatchFails
  <2>1. loop.item \in Items /\ Blocks(loop.item, "WAITING_HUMAN")
    BY <1>5 DEF PreDispatchFails, RunHoldsItem, Blocks
  <2> QED BY <1>w, <2>1 DEF RowStep
<1>6. CASE PreDispatchPasses
  BY <1>6 DEF PreDispatchPasses, RowStep, Rests, vars, queueVars
<1>7. CASE ExecutionCompletes
  BY <1>7 DEF ExecutionCompletes, RunHoldsItem, RowStep
<1>8. CASE ExecutionBlocks
  <2>1. PICK s \in {"WAITING_EXTERNAL", "WAITING_HUMAN"} : RecordBlock(loop.item, s)
    BY <1>8 DEF ExecutionBlocks
  <2>2. loop.item \in Items /\ Blocks(loop.item, s)
    BY <1>8, <2>1 DEF ExecutionBlocks, RunHoldsItem, Blocks
  <2> QED BY <1>w, <2>2 DEF RowStep
<1>9. CASE EndRun
  BY <1>9 DEF EndRun, RowStep, Rests, vars, queueVars
<1>10. CASE BetweenRuns
  <2>1. CASE OperatorOnQueue
    <3>1. Next
      BY <2>1 DEF OperatorOnQueue, Next
    <3> QED BY <3>1, StepCases
  <2>2. ASSUME NEW w \in Workflows,
               OperatorAttachesPlan(w) \/ TaskMoves(w) \/ IntegrationCloses(w)
        PROVE  RowStep
    BY <2>2 DEF OperatorAttachesPlan, AttachPlan, TaskMoves, IntegrationCloses, RowStep,
                Rests, vars, queueVars
  <2> QED BY <1>10, <2>1, <2>2 DEF BetweenRuns
<1> QED
  BY <1>1, <1>2, <1>3, <1>4, <1>5, <1>6, <1>7, <1>8, <1>9, <1>10
  DEF RuntimeNext, LoopStep

----------------------------------------------------------------------------
(* Type correctness, of the rows and of the committed rows.                *)

(* A run never touches what callers hold, and moves the lifecycle only     *)
(* among the states of a persistent workflow.                              *)
LEMMA RuntimeEvidenceType ==
    ASSUME RuntimeTypeOK, [RuntimeNext]_runtimeVars, ~Crash
    PROVE  /\ lifecycle' \in [Workflows -> PersistentWorkflowState]
           /\ pick' \in Pick \cup {NoPick}
           /\ ticket' \in Ticket \cup {NoTicket}
<1> DEFINE Goal == /\ lifecycle' \in [Workflows -> PersistentWorkflowState]
                   /\ pick' \in Pick \cup {NoPick}
                   /\ ticket' \in Ticket \cup {NoTicket}
<1>t. TypeOK
  BY DEF RuntimeTypeOK
<1>0. /\ lifecycle \in [Workflows -> PersistentWorkflowState]
      /\ pick \in Pick \cup {NoPick}
      /\ ticket \in Ticket \cup {NoTicket}
  BY <1>t DEF TypeOK
<1>s. {"PLAN_READY", "COMPLETED_PENDING_INTEGRATION", "CLOSED"} \subseteq PersistentWorkflowState
  BY DEF PersistentWorkflowState, EXECUTION_ELIGIBLE_WORKFLOW_STATES
<1>1. CASE UNCHANGED <<lifecycle, held>>
  BY <1>0, <1>1 DEF held
<1>2. CASE UNCHANGED runtimeVars
  BY <1>0, <1>2 DEF runtimeVars, vars, queueVars
<1>3. ASSUME NEW scope \in Scopes, BeginRun(scope) PROVE Goal
  <2>1. ASSUME NEW w \in Workflows
        PROVE  lifecycle'[w] \in {lifecycle[w], "PLAN_READY", "COMPLETED_PENDING_INTEGRATION"}
    BY <1>3 DEF BeginRun
  <2>2. UNCHANGED held /\ lifecycle' \in [Workflows -> PersistentWorkflowState]
    BY <1>0, <1>s, <1>3, <2>1 DEF BeginRun
  <2> QED BY <1>0, <2>2 DEF held
<1>4. ASSUME NEW i \in Items, Dispatch(i) PROVE UNCHANGED <<lifecycle, held>>
  BY <1>4 DEF Dispatch, MarkStarted
<1>5. CASE StopUnselected
  <2>1. UNCHANGED lifecycle
    BY <1>5 DEF StopUnselected, RecordBlock, queueVars
  <2> QED BY <1>1, <1>5, <2>1 DEF StopUnselected
<1>6. CASE PreDispatchFails \/ ExecutionBlocks
  BY <1>1, <1>6 DEF PreDispatchFails, ExecutionBlocks, RecordBlock
<1>7. CASE PreDispatchPasses \/ EndRun
  BY <1>1, <1>7 DEF PreDispatchPasses, EndRun, vars, queueVars, held
<1>8. CASE ExecutionCompletes
  BY <1>0, <1>s, <1>8 DEF ExecutionCompletes, held
<1>9. CASE BetweenRuns
  <2>1. CASE OperatorOnQueue
    <3>1. Next
      BY <2>1 DEF OperatorOnQueue, Next
    <3> QED BY <1>t, <3>1, EvidenceType
  <2>2. ASSUME NEW w \in Workflows,
               OperatorAttachesPlan(w) \/ TaskMoves(w) \/ IntegrationCloses(w)
        PROVE  Goal
    BY <1>0, <1>s, <2>2 DEF OperatorAttachesPlan, AttachPlan, TaskMoves, IntegrationCloses,
                            vars, queueVars, held
  <2> QED BY <1>9, <2>1, <2>2 DEF BetweenRuns
<1> HIDE DEF Goal
<1>10. CASE RuntimeNext
  BY <1>1, <1>3, <1>4, <1>5, <1>6, <1>7, <1>8, <1>9, <1>10 DEF RuntimeNext, LoopStep, Goal
<1> QED BY <1>2, <1>10 DEF Goal

(* The audit trail keeps the projects of the last handoffs.                *)
LEMMA RememberType ==
    ASSUME recent \in Seq(Projects), Len(recent) <= consecutive_project_limit,
           NEW p \in Projects, Remember(p)
    PROVE  recent' \in Seq(Projects) /\ Len(recent') <= consecutive_project_limit
<1> DEFINE r == Append(recent, p)
<1>1. r \in Seq(Projects) /\ Len(r) = Len(recent) + 1 /\ Len(recent) \in Nat
  OBVIOUS
<1>2. recent' = IF Len(r) > consecutive_project_limit THEN Tail(r) ELSE r
  BY DEF Remember
<1> HIDE DEF r
<1>3. Len(r) > 0 => Tail(r) \in Seq(Projects) /\ Len(Tail(r)) = Len(r) - 1
  BY <1>1
<1> QED BY <1>1, <1>2, <1>3 DEF consecutive_project_limit

(* What a run adds to the rows, and the run itself, keep their types.      *)
LEMMA RunType ==
    ASSUME RuntimeTypeOK, [RuntimeNext]_runtimeVars, ~Crash
    PROVE  /\ taskStatus' \in [Workflows -> TaskStatus]
           /\ planned' \in [Workflows -> BOOLEAN]
           /\ recent' \in Seq(Projects) /\ Len(recent') <= consecutive_project_limit
           /\ loop' \in [phase : Phase, scope : Scopes \cup {{}},
                         item : Items \cup {NoItem}, taken : 0..MaxTasks]
<1> DEFINE Loop == [phase : Phase, scope : Scopes \cup {{}},
                    item : Items \cup {NoItem}, taken : 0..MaxTasks]
           Goal == /\ taskStatus' \in [Workflows -> TaskStatus]
                   /\ planned' \in [Workflows -> BOOLEAN]
                   /\ recent' \in Seq(Projects) /\ Len(recent') <= consecutive_project_limit
                   /\ loop' \in Loop
<1> USE BacklogAssumption, ProjectAssumption
<1>0. /\ taskStatus \in [Workflows -> TaskStatus]
      /\ planned \in [Workflows -> BOOLEAN]
      /\ recent \in Seq(Projects) /\ Len(recent) <= consecutive_project_limit
      /\ loop \in Loop
  BY DEF RuntimeTypeOK
<1>o. Off \in Loop
  BY DEF Off, Phase
<1>m. ASSUME NEW ph \in Phase PROVE [loop EXCEPT !.phase = ph] \in Loop
  BY <1>0
<1>1. CASE UNCHANGED <<taskStatus, planned, recent, loop>>
  BY <1>0, <1>1
<1>2. CASE UNCHANGED runtimeVars
  BY <1>0, <1>2 DEF runtimeVars
<1>3. ASSUME NEW scope \in Scopes, BeginRun(scope) PROVE Goal
  <2>1. loop' \in Loop
    <3>1. loop' = [phase |-> "select", scope |-> scope, item |-> NoItem, taken |-> 0]
      BY <1>3 DEF BeginRun, Off
    <3> QED BY <3>1 DEF Phase
  <2>2. taskStatus' \in [Workflows -> TaskStatus]
    BY <1>0, <1>3 DEF BeginRun, TaskStatus
  <2>3. planned' \in [Workflows -> BOOLEAN]
    BY <1>3 DEF BeginRun
  <2> QED BY <1>0, <1>3, <2>1, <2>2, <2>3 DEF BeginRun
<1>4. ASSUME NEW i \in Items, Dispatch(i) PROVE Goal
  <2>1. projOf[wfOf[i]] \in Projects
    BY DEF Projects
  <2>2. recent' \in Seq(Projects) /\ Len(recent') <= consecutive_project_limit
    BY <1>0, <1>4, <2>1, RememberType DEF Dispatch
  <2>3. loop' \in Loop
    <3>1. loop.taken \in 0..MaxTasks /\ loop.taken < MaxTasks /\ MaxTasks \in Nat
      BY <1>0, <1>4 DEF Dispatch
    <3>2. loop' = [phase |-> "dispatched", scope |-> loop.scope, item |-> i,
                   taken |-> loop.taken + 1]
      BY <1>0, <1>4 DEF Dispatch
    <3> QED BY <1>0, <3>1, <3>2 DEF Phase
  <2> QED BY <1>0, <1>4, <2>2, <2>3 DEF Dispatch
<1>5. CASE StopUnselected
  BY <1>0, <1>5 DEF StopUnselected, Phase
<1>6. CASE PreDispatchFails \/ PreDispatchPasses
  BY <1>0, <1>m, <1>6 DEF PreDispatchFails, PreDispatchPasses, Phase
<1>7. CASE ExecutionBlocks
  BY <1>0, <1>m, <1>7 DEF ExecutionBlocks, Phase
<1>8. CASE ExecutionCompletes
  <2>1. taskStatus' \in [Workflows -> TaskStatus]
    BY <1>0, <1>8 DEF ExecutionCompletes, TaskStatus
  <2> QED BY <1>0, <1>m, <1>8, <2>1 DEF ExecutionCompletes, Phase
<1>9. CASE EndRun
  BY <1>0, <1>o, <1>9 DEF EndRun
<1>10. CASE BetweenRuns
  BY <1>0, <1>10 DEF BetweenRuns, OperatorOnQueue, OperatorAttachesPlan, TaskMoves,
                     IntegrationCloses, TaskStatus
<1> HIDE DEF Goal, Loop
<1>11. CASE RuntimeNext
  BY <1>3, <1>4, <1>5, <1>6, <1>7, <1>8, <1>9, <1>10, <1>11
  DEF RuntimeNext, LoopStep, Goal, Loop
<1> QED BY <1>2, <1>11 DEF Goal, Loop
----------------------------------------------------------------------------
(* The committed rows.                                                     *)

(* What is true of the rows whenever they are committed or rolled back.    *)
RowsSound ==
    /\ RuntimeTypeOK
    /\ ActiveTaskIsRunning
    /\ StartedAfterDependencies
    /\ LedgerIsExact
    /\ NothingFailed
    /\ BlockedByCurrentCheckpoint
    /\ DoneMeansAllCompleted

SavedSound ==
    InRun =>
        /\ Before!RuntimeTypeOK
        /\ Before!ActiveTaskIsRunning
        /\ Before!StartedAfterDependencies
        /\ Before!LedgerIsExact
        /\ \A i \in Items : saved.state[i] # "FAILED"
        /\ Before!BlockedByCurrentCheckpoint
        /\ Before!DoneMeansAllCompleted

(* Both readings share the constants of the module.                        *)
LEMMA SameConstants ==
    /\ Before!StoredState = StoredState
    /\ Before!Checkpoint = Checkpoint
    /\ Before!PersistentWorkflowState = PersistentWorkflowState
    /\ Before!Pick = Pick /\ Before!NoPick = NoPick
    /\ Before!Ticket = Ticket /\ Before!NoTicket = NoTicket
    /\ Before!TaskStatus = TaskStatus
    /\ Before!Projects = Projects
    /\ Before!consecutive_project_limit = consecutive_project_limit
    /\ Before!Phase = Phase
    /\ Before!BLOCKED_STATES = BLOCKED_STATES
    /\ \A w : Before!ItemsOf(w) = ItemsOf(w)
<1>1. Before!BLOCKED_STATES = BLOCKED_STATES
  BY DEF Before!BLOCKED_STATES, BLOCKED_STATES
<1>2. Before!StoredState = StoredState
  BY <1>1 DEF Before!StoredState, Before!QueueWorkItemState, Before!ELIGIBLE_STATES,
              Before!TERMINAL_STATES, StoredState, QueueWorkItemState, ELIGIBLE_STATES,
              TERMINAL_STATES
<1>3. Before!PersistentWorkflowState = PersistentWorkflowState
  BY DEF Before!PersistentWorkflowState, PersistentWorkflowState,
         Before!EXECUTION_ELIGIBLE_WORKFLOW_STATES, EXECUTION_ELIGIBLE_WORKFLOW_STATES
<1>4. \A w : Before!ItemsOf(w) = ItemsOf(w)
  BY DEF Before!ItemsOf, ItemsOf
<1> QED
  BY <1>1, <1>2, <1>3, <1>4
  DEF Before!Checkpoint, Checkpoint, Before!Pick, Pick, Before!NoPick, NoPick, Before!Ticket,
      Ticket, Before!NoTicket, NoTicket, Before!TaskStatus, TaskStatus, Before!Projects,
      Projects, Before!consecutive_project_limit, consecutive_project_limit,
      Before!Phase, Phase

(* The committed rows are set when a run begins, and kept until it is over *)
(* or has crashed.                                                         *)
LEMMA SavedCases ==
    ASSUME RuntimeTypeOK, [RuntimeNext]_runtimeVars
    PROVE  \/ ~InRun'
           \/ InRun /\ saved' = saved /\ UNCHANGED held /\ ~Crash
           \/ \E scope \in Scopes : BeginRun(scope)
<1>0. Off.phase = "off"
  BY DEF Off
<1>i. loop.phase # "off" => InRun
  BY <1>0 DEF InRun
<1>a. Crash => ~InRun'
  BY <1>0 DEF Crash, InRun
<1>1. CASE UNCHANGED runtimeVars
  BY <1>a, <1>1 DEF runtimeVars, vars, held, InRun
<1>2. ASSUME NEW i \in Items, Dispatch(i) PROVE InRun /\ saved' = saved /\ UNCHANGED held
  BY <1>i, <1>2 DEF Dispatch
<1>3. CASE StopUnselected
  BY <1>a, <1>i, <1>3 DEF StopUnselected
<1>4. CASE PreDispatchFails \/ ExecutionBlocks \/ ExecutionCompletes
  BY <1>a, <1>i, <1>4 DEF PreDispatchFails, ExecutionBlocks, ExecutionCompletes
<1>5. CASE PreDispatchPasses
  BY <1>a, <1>i, <1>5 DEF PreDispatchPasses, vars, held
<1>6. CASE EndRun \/ BetweenRuns
  BY <1>0, <1>6 DEF EndRun, BetweenRuns, InRun
<1> QED BY <1>a, <1>1, <1>2, <1>3, <1>4, <1>5, <1>6 DEF RuntimeNext, LoopStep

(* A run commits nothing while it lasts: what it would fall back to stays  *)
(* as sound as the rows were when it began.                                *)
LEMMA SavedStep ==
    ASSUME RowsSound, SavedSound, [RuntimeNext]_runtimeVars
    PROVE  SavedSound'
<1>t. RuntimeTypeOK
  BY DEF RowsSound
<1>1. CASE ~InRun'
  BY <1>1 DEF SavedSound
<1>2. CASE InRun /\ saved' = saved /\ UNCHANGED held /\ ~Crash
  <2>1. loop' \in [phase : Phase, scope : Scopes \cup {{}},
                   item : Items \cup {NoItem}, taken : 0..MaxTasks]
    BY <1>t, <1>2, RunType
  <2>2. Before!RuntimeTypeOK'
    BY <1>2, <2>1, SameConstants DEF SavedSound, Before!RuntimeTypeOK, Before!TypeOK, held
  <2> QED
    BY <1>2, <2>2 DEF SavedSound, Before!ActiveTaskIsRunning, Before!Running, Before!ItemsOf,
        Before!StartedAfterDependencies, Before!InState, Before!LedgerIsExact,
        Before!BlockedByCurrentCheckpoint, Before!DoneMeansAllCompleted
<1>3. ASSUME NEW scope \in Scopes, BeginRun(scope) PROVE SavedSound'
  <2>1. /\ saved'.state = state /\ saved'.version = version
        /\ saved'.generation = generation /\ saved'.current = current
        /\ saved'.checkpoints = checkpoints /\ saved'.lifecycle = lifecycle
        /\ saved'.active = active /\ saved'.completedIds = completedIds
        /\ saved'.pendingIds = pendingIds /\ saved'.taskStatus = taskStatus
        /\ saved'.planned = planned /\ saved'.recent = recent
        /\ UNCHANGED held
    BY <1>3 DEF BeginRun, Rows
  <2>2. loop' \in [phase : Phase, scope : Scopes \cup {{}},
                   item : Items \cup {NoItem}, taken : 0..MaxTasks]
    <3>1. ~Crash
      BY <1>3 DEF BeginRun, Crash
    <3> QED BY <1>t, <3>1, RunType
  <2>3. Before!RuntimeTypeOK'
    BY <1>t, <2>1, <2>2, SameConstants
    DEF RuntimeTypeOK, TypeOK, Before!RuntimeTypeOK, Before!TypeOK, held
  <2>4. Before!ActiveTaskIsRunning'
    BY <2>1, SameConstants DEF RowsSound, ActiveTaskIsRunning, Running,
        Before!ActiveTaskIsRunning, Before!Running
  <2>5. Before!StartedAfterDependencies'
    BY <2>1, SameConstants DEF RowsSound, StartedAfterDependencies, InState,
        Before!StartedAfterDependencies, Before!InState
  <2>6. Before!LedgerIsExact'
    BY <2>1, SameConstants DEF RowsSound, LedgerIsExact, Before!LedgerIsExact
  <2>7. \A i \in Items : saved'.state[i] # "FAILED"
    BY <2>1 DEF RowsSound, NothingFailed
  <2>8. Before!BlockedByCurrentCheckpoint'
    BY <2>1, SameConstants DEF RowsSound, BlockedByCurrentCheckpoint, InState,
        Before!BlockedByCurrentCheckpoint, Before!InState
  <2>9. Before!DoneMeansAllCompleted'
    BY <2>1, SameConstants DEF RowsSound, DoneMeansAllCompleted, Before!DoneMeansAllCompleted
  <2> QED BY <2>3, <2>4, <2>5, <2>6, <2>7, <2>8, <2>9 DEF SavedSound
<1> QED BY <1>t, <1>1, <1>2, <1>3, SavedCases
(* A crash makes the committed rows the rows again, and so restores        *)
(* everything that was true of them.                                       *)
LEMMA CrashRestores ==
    ASSUME RowsSound, SavedSound, Crash
    PROVE  RowsSound'
<1>1. /\ state' = saved.state /\ version' = saved.version
      /\ generation' = saved.generation /\ current' = saved.current
      /\ checkpoints' = saved.checkpoints /\ lifecycle' = saved.lifecycle
      /\ active' = saved.active /\ completedIds' = saved.completedIds
      /\ pendingIds' = saved.pendingIds /\ taskStatus' = saved.taskStatus
      /\ planned' = saved.planned /\ recent' = saved.recent
      /\ UNCHANGED held /\ loop' = Off /\ InRun
  BY DEF Crash, RestoreBacklog, InRun
<1>2. /\ Before!RuntimeTypeOK
      /\ Before!ActiveTaskIsRunning
      /\ Before!StartedAfterDependencies
      /\ Before!LedgerIsExact
      /\ \A i \in Items : saved.state[i] # "FAILED"
      /\ Before!BlockedByCurrentCheckpoint
      /\ Before!DoneMeansAllCompleted
  BY <1>1 DEF SavedSound
<1>3. RuntimeTypeOK'
  <2>1. loop' \in [phase : Phase, scope : Scopes \cup {{}},
                   item : Items \cup {NoItem}, taken : 0..MaxTasks]
    BY <1>1, ProjectAssumption DEF Off, Phase
  <2> QED
    BY <1>1, <1>2, <2>1, SameConstants
    DEF RuntimeTypeOK, TypeOK, Before!RuntimeTypeOK, Before!TypeOK, held
<1>4. ActiveTaskIsRunning'
  BY <1>1, <1>2, SameConstants
  DEF ActiveTaskIsRunning, Running, Before!ActiveTaskIsRunning, Before!Running
<1>5. StartedAfterDependencies'
  BY <1>1, <1>2, SameConstants
  DEF StartedAfterDependencies, InState, Before!StartedAfterDependencies, Before!InState
<1>6. LedgerIsExact'
  BY <1>1, <1>2, SameConstants DEF LedgerIsExact, Before!LedgerIsExact
<1>7. NothingFailed'
  BY <1>1, <1>2 DEF NothingFailed
<1>8. BlockedByCurrentCheckpoint'
  BY <1>1, <1>2, SameConstants
  DEF BlockedByCurrentCheckpoint, InState, Before!BlockedByCurrentCheckpoint, Before!InState
<1>9. DoneMeansAllCompleted'
  BY <1>1, <1>2, SameConstants DEF DoneMeansAllCompleted, Before!DoneMeansAllCompleted
<1> QED BY <1>3, <1>4, <1>5, <1>6, <1>7, <1>8, <1>9 DEF RowsSound

----------------------------------------------------------------------------
(* The aggregate: a task or workflow is done only with all its work.       *)

Done(w) ==
    taskStatus[w] = "DONE" \/ lifecycle[w] \in {"COMPLETED_PENDING_INTEGRATION", "CLOSED"}
AllCompleted(w) ==
    /\ \A i \in ItemsOf(w) : state[i] = "COMPLETED"
    /\ completedIds[w] = ItemsOf(w) /\ pendingIds[w] = {}
    /\ active[w] = NoItem

(* Once all work of a workflow is completed, no operation of the queue has *)
(* an item of it to touch.                                                 *)
LEMMA AllCompletedStays ==
    ASSUME TypeOK, RowStep, NEW w \in Workflows, AllCompleted(w)
    PROVE  AllCompleted(w)'
<1> USE BacklogAssumption
<1>0. /\ active \in [Workflows -> Items \cup {NoItem}]
      /\ completedIds \in [Workflows -> SUBSET Items]
      /\ pendingIds \in [Workflows -> SUBSET Items]
  BY DEF TypeOK
<1>1. \A i \in ItemsOf(w) : state'[i] = "COMPLETED"
  BY CompletedUntouched DEF AllCompleted, ItemsOf
<1>2. UNCHANGED <<active[w], completedIds[w], pendingIds[w]>>
  <2>1. CASE Rests
    BY <2>1 DEF Rests, ledgerVars
  <2>2. ASSUME NEW i \in Items, Starts(i)
        PROVE  UNCHANGED <<active[w], completedIds[w], pendingIds[w]>>
    <3>1. wfOf[i] # w
      BY <2>2 DEF Starts, InState, ELIGIBLE_STATES, AllCompleted, ItemsOf
    <3> QED BY <1>0, <2>2, <3>1 DEF Starts, MarkStarted, ledgerVars
  <2>3. ASSUME NEW i \in Items, NEW s \in BLOCKED_STATES, Blocks(i, s)
        PROVE  UNCHANGED <<active[w], completedIds[w], pendingIds[w]>>
    <3>1. wfOf[i] # w
      BY <2>3 DEF Blocks, InState, ELIGIBLE_STATES, AllCompleted, ItemsOf
    <3> QED BY <1>0, <2>3, <3>1 DEF Blocks, RecordBlock, ClearActive, ledgerVars
  <2>4. ASSUME NEW i \in Items, Resolves(i) \/ Repairs(i)
        PROVE  UNCHANGED <<active[w], completedIds[w], pendingIds[w]>>
    BY <2>4 DEF Resolves, Repairs, ledgerVars
  <2>5. ASSUME NEW i \in Items, MarkCompleted(i)
        PROVE  UNCHANGED <<active[w], completedIds[w], pendingIds[w]>>
    <3>1. wfOf[i] # w
      BY <2>5 DEF MarkCompleted, Completable, InState, AllCompleted, ItemsOf
    <3> QED BY <1>0, <2>5, <3>1 DEF MarkCompleted, Recount
  <2> QED BY <2>1, <2>2, <2>3, <2>4, <2>5 DEF RowStep
<1> QED BY <1>1, <1>2 DEF AllCompleted

(* A workflow becomes done only where its work is all completed.           *)
LEMMA BecomesDone ==
    ASSUME RuntimeTypeOK, [RuntimeNext]_runtimeVars, ~Crash,
           NEW w \in Workflows, Done(w)', ~Done(w)
    PROVE  AllCompleted(w) \/ AllCompleted(w)'
<1> DEFINE Goal == AllCompleted(w) \/ AllCompleted(w)'
<1>0. /\ lifecycle \in [Workflows -> PersistentWorkflowState]
      /\ taskStatus \in [Workflows -> TaskStatus]
  BY DEF RuntimeTypeOK, TypeOK
<1>1. CASE UNCHANGED <<lifecycle[w], taskStatus[w]>>
  BY <1>1 DEF Done
<1>2. CASE UNCHANGED runtimeVars
  BY <1>1, <1>2 DEF runtimeVars, vars, queueVars
<1>3. ASSUME NEW scope \in Scopes, BeginRun(scope) PROVE Goal
  <2>1. CASE w \in scope /\ SuccessfullyCompleted(w)
    BY <2>1 DEF SuccessfullyCompleted, AllCompleted
  <2>2. CASE w \in scope /\ ~SuccessfullyCompleted(w)
    <3>1. taskStatus'[w] = taskStatus[w]
      BY <1>0, <1>3, <2>2 DEF BeginRun
    <3>2. lifecycle'[w] \in {lifecycle[w], "PLAN_READY"}
      BY <1>0, <1>3, <2>2 DEF BeginRun
    <3> QED BY <3>1, <3>2 DEF Done
  <2>3. CASE w \notin scope
    <3>1. taskStatus'[w] = taskStatus[w] /\ lifecycle'[w] = lifecycle[w]
      BY <1>0, <1>3, <2>3 DEF BeginRun
    <3> QED BY <1>1, <3>1
  <2> QED BY <2>1, <2>2, <2>3
<1>4. ASSUME NEW i \in Items, Dispatch(i) PROVE Goal
  BY <1>1, <1>4 DEF Dispatch, MarkStarted
<1>5. CASE StopUnselected
  BY <1>1, <1>5 DEF StopUnselected, RecordBlock, queueVars
<1>6. CASE PreDispatchFails \/ ExecutionBlocks
  BY <1>1, <1>6 DEF PreDispatchFails, ExecutionBlocks, RecordBlock
<1>7. CASE PreDispatchPasses \/ EndRun
  BY <1>1, <1>7 DEF PreDispatchPasses, EndRun, vars, queueVars
<1>8. CASE ExecutionCompletes
  <2>1. CASE w = wfOf[loop.item] /\ SuccessfullyCompleted(w)'
    BY <2>1 DEF SuccessfullyCompleted, AllCompleted
  <2>2. CASE ~(w = wfOf[loop.item] /\ SuccessfullyCompleted(w)')
    <3>1. UNCHANGED <<lifecycle[w], taskStatus[w]>>
      BY <1>0, <1>8, <2>2 DEF ExecutionCompletes
    <3> QED BY <1>1, <3>1
  <2> QED BY <2>1, <2>2
<1>9. CASE BetweenRuns
  <2>1. CASE OperatorOnQueue
    <3>1. UNCHANGED taskStatus
      BY <2>1 DEF OperatorOnQueue
    <3>2. lifecycle'[w] \in {lifecycle[w], "PAUSED"}
      BY <1>0, <2>1 DEF OperatorOnQueue, StartNext, MarkStarted, Pause, BlockRunningItem,
                        RecordBlock, CompleteItem, TakeTicket, ResolveBlocker, queueVars
    <3> QED BY <3>1, <3>2 DEF Done
  <2>2. ASSUME NEW v \in Workflows,
               OperatorAttachesPlan(v) \/ TaskMoves(v) \/ IntegrationCloses(v)
        PROVE  Goal
    BY <1>0, <2>2 DEF OperatorAttachesPlan, AttachPlan, TaskMoves, IntegrationCloses,
                      TaskStatus, vars, queueVars, Done
  <2> QED BY <1>9, <2>1, <2>2 DEF BetweenRuns
<1>10. CASE RuntimeNext
  BY <1>3, <1>4, <1>5, <1>6, <1>7, <1>8, <1>9, <1>10 DEF RuntimeNext, LoopStep
<1> QED BY <1>2, <1>10
----------------------------------------------------------------------------
(* One job at a time.                                                      *)

(* A run takes an item only when nothing in its scope is RUNNING, and is   *)
(* past an item only when that item is blocked or completed.               *)
LEMMA HoldStep ==
    ASSUME RuntimeTypeOK, RunHoldsItem, RunStrandsNothing, [RuntimeNext]_runtimeVars
    PROVE  RunHoldsItem' /\ RunStrandsNothing'
<1> DEFINE Goal == RunHoldsItem' /\ RunStrandsNothing'
<1> USE BacklogAssumption
<1>t. TypeOK
  BY DEF RuntimeTypeOK
<1>l. loop \in [phase : Phase, scope : Scopes \cup {{}},
                item : Items \cup {NoItem}, taken : 0..MaxTasks]
  BY DEF RuntimeTypeOK
<1>0. ASSUME loop' = Off PROVE Goal
  BY <1>0 DEF Off, RunHoldsItem, RunStrandsNothing
<1>b. ASSUME NEW i \in Items, NEW s \in StoredState \ {"RUNNING"}, SetState(i, s),
             UNCHANGED saved, loop'.phase \in {"select", "stop"},
             \A j \in Items : state[j] = "RUNNING" /\ j # i => saved.state[j] = "RUNNING"
      PROVE  Goal
  <2>1. \A j \in Items : state'[j] = IF j = i THEN s ELSE state[j]
    BY <1>t, <1>b, SetStateEffect
  <2> QED BY <1>b, <2>1 DEF RunHoldsItem, RunStrandsNothing
<1>s. /\ {"WAITING_HUMAN", "WAITING_EXTERNAL", "COMPLETED"} \subseteq StoredState \ {"RUNNING"}
  BY DEF StoredState, QueueWorkItemState, BLOCKED_STATES, TERMINAL_STATES
<1>1. CASE UNCHANGED runtimeVars
  BY <1>1 DEF runtimeVars, vars, queueVars, itemVars, RunHoldsItem, RunStrandsNothing
<1>2. ASSUME NEW scope \in Scopes, BeginRun(scope) PROVE Goal
  <2>1. loop'.phase = "select" /\ state' = state /\ saved'.state = state
    BY <1>2 DEF BeginRun, Off, Rows, itemVars
  <2> QED BY <2>1 DEF RunHoldsItem, RunStrandsNothing
<1>3. ASSUME NEW i \in Items, Dispatch(i) PROVE Goal
  <2>1. \A j \in Items : state'[j] = IF j = i THEN "RUNNING" ELSE state[j]
    BY <1>t, <1>3, SetStateEffect
    DEF Dispatch, MarkStarted, StoredState, QueueWorkItemState
  <2>2. /\ loop'.phase = "dispatched" /\ loop'.item = i /\ loop'.scope = loop.scope
        /\ loop.phase = "select" /\ saved' = saved
    BY <1>l, <1>3 DEF Dispatch
  <2>3. wfOf[i] \in loop.scope /\ NothingRunning(loop.scope)
    BY <1>3 DEF Dispatch, DispatchSelect, Candidates, InScope
  <2>4. ASSUME NEW j \in Items, state'[j] = "RUNNING", j # i
        PROVE  wfOf[j] \notin loop.scope /\ saved.state[j] = "RUNNING"
    <3>1. state[j] = "RUNNING"
      BY <2>1, <2>4
    <3> QED BY <2>2, <2>3, <3>1 DEF NothingRunning, Running, ItemsOf, RunStrandsNothing
  <2> QED BY <2>1, <2>2, <2>3, <2>4 DEF RunHoldsItem, RunStrandsNothing
<1>4. CASE StopUnselected
  <2>1. /\ loop'.phase = "stop" /\ loop.phase = "select" /\ saved' = saved
    BY <1>l, <1>4 DEF StopUnselected
  <2>2. CASE UNCHANGED queueVars
    BY <2>1, <2>2 DEF queueVars, itemVars, RunHoldsItem, RunStrandsNothing
  <2>3. ASSUME NEW i \in Items, RecordBlock(i, "WAITING_HUMAN") PROVE Goal
    BY <1>b, <1>s, <2>1, <2>3 DEF RecordBlock, RunStrandsNothing
  <2> QED BY <1>4, <2>2, <2>3 DEF StopUnselected
<1>5. CASE PreDispatchFails
  <2>1. loop'.phase = "stop" /\ loop.phase = "dispatched" /\ saved' = saved
    BY <1>l, <1>5 DEF PreDispatchFails
  <2> QED
    BY <1>b, <1>s, <1>5, <2>1 DEF PreDispatchFails, RecordBlock, RunHoldsItem
<1>6. CASE PreDispatchPasses
  <2>1. /\ loop'.phase = "executing" /\ loop.phase = "dispatched" /\ UNCHANGED <<saved, state>>
        /\ loop'.item = loop.item /\ loop'.scope = loop.scope
    BY <1>l, <1>6 DEF PreDispatchPasses, vars, queueVars, itemVars
  <2> QED BY <2>1 DEF RunHoldsItem, RunStrandsNothing
<1>7. CASE ExecutionCompletes
  <2>1. loop'.phase = "select" /\ loop.phase = "executing" /\ saved' = saved
    BY <1>l, <1>7 DEF ExecutionCompletes
  <2> QED
    BY <1>b, <1>s, <1>7, <2>1 DEF ExecutionCompletes, MarkCompleted, RunHoldsItem
<1>8. CASE ExecutionBlocks
  <2>1. loop'.phase \in {"select", "stop"} /\ loop.phase = "executing" /\ saved' = saved
    BY <1>l, <1>8 DEF ExecutionBlocks
  <2>2. PICK s \in {"WAITING_EXTERNAL", "WAITING_HUMAN"} : RecordBlock(loop.item, s)
    BY <1>8 DEF ExecutionBlocks
  <2> QED BY <1>b, <1>s, <2>1, <2>2 DEF RecordBlock, RunHoldsItem
<1>9. CASE EndRun \/ Crash \/ BetweenRuns
  BY <1>0, <1>9 DEF EndRun, Crash, BetweenRuns
<1> QED
  BY <1>1, <1>2, <1>3, <1>4, <1>5, <1>6, <1>7, <1>8, <1>9 DEF RuntimeNext, LoopStep

(* The rows stay sound in every step of a run, a crash included.           *)
LEMMA RowsSoundStep ==
    ASSUME RowsSound, SavedSound, RunHoldsItem, [RuntimeNext]_runtimeVars
    PROVE  RowsSound'
<1>t. RuntimeTypeOK /\ TypeOK
  BY DEF RowsSound, RuntimeTypeOK
<1>1. CASE Crash
  BY <1>1, CrashRestores
<1>2. CASE ~Crash
  <2>1. RowStep
    BY <1>t, <1>2, RuntimeStepCases
  <2>2. RuntimeTypeOK'
    BY <1>t, <1>2, <2>1, RowType, RuntimeEvidenceType, RunType DEF RuntimeTypeOK, TypeOK
  <2>3. ActiveTaskIsRunning'
    <3>1. ActiveIffRunning'
      BY <1>t, <2>1, ActivePointwise, ActiveStep DEF RowsSound
    <3> QED BY <2>2, <3>1, ActivePointwiseNext DEF RuntimeTypeOK
  <2>4. StartedAfterDependencies'
    BY <1>t, <2>1, DependenciesStep DEF RowsSound
  <2>5. LedgerIsExact' /\ NothingFailed'
    BY <1>t, <2>1, LedgerStep DEF RowsSound
  <2>6. BlockedByCurrentCheckpoint'
    BY <1>t, <2>1, CheckpointStep DEF RowsSound
  <2>7. DoneMeansAllCompleted'
    <3>1. ASSUME NEW w \in Workflows, Done(w)' PROVE AllCompleted(w)'
      <4>1. CASE Done(w)
        <5>1. AllCompleted(w)
          BY <4>1 DEF RowsSound, DoneMeansAllCompleted, Done, AllCompleted
        <5> QED BY <1>t, <2>1, <5>1, AllCompletedStays
      <4>2. CASE ~Done(w)
        BY <1>t, <1>2, <2>1, <3>1, <4>2, BecomesDone, AllCompletedStays
      <4> QED BY <4>1, <4>2
    <3> QED BY <3>1 DEF DoneMeansAllCompleted, Done, AllCompleted
  <2> QED BY <2>2, <2>3, <2>4, <2>5, <2>6, <2>7 DEF RowsSound
<1> QED BY <1>1, <1>2

(* The inductive invariant of the runtime: sound rows, sound rows to fall  *)
(* back to, and at most one item held by the run.                          *)
LEMMA RuntimeInvariant ==
    RuntimeSpec => [](RowsSound /\ SavedSound /\ RunHoldsItem /\ RunStrandsNothing)
<1>1. RuntimeInit => RowsSound /\ SavedSound /\ RunHoldsItem /\ RunStrandsNothing
  <2> SUFFICES ASSUME RuntimeInit
               PROVE  RowsSound /\ SavedSound /\ RunHoldsItem /\ RunStrandsNothing
    OBVIOUS
  <2>0. Init /\ loop = Off
    BY DEF RuntimeInit
  <2>1. RuntimeTypeOK
    <3>1. TypeOK
      BY <2>0, InitType
    <3>2. loop \in [phase : Phase, scope : Scopes \cup {{}},
                    item : Items \cup {NoItem}, taken : 0..MaxTasks]
      BY <2>0, ProjectAssumption DEF Off, Phase
    <3>3. recent \in Seq(Projects) /\ Len(recent) <= consecutive_project_limit
      BY DEF RuntimeInit, consecutive_project_limit
    <3> QED BY <3>1, <3>2, <3>3 DEF RuntimeInit, RuntimeTypeOK, TaskStatus
  <2>2. ActiveTaskIsRunning
    BY <2>0, BacklogAssumption DEF Init, ActiveTaskIsRunning, Running, ItemsOf
  <2>3. StartedAfterDependencies /\ LedgerIsExact /\ NothingFailed
        /\ BlockedByCurrentCheckpoint
    BY <2>0 DEF Init, StartedAfterDependencies, InState, BLOCKED_STATES, LedgerIsExact,
                NothingFailed, ItemsOf, BlockedByCurrentCheckpoint
  <2>4. DoneMeansAllCompleted
    BY <2>0 DEF Init, RuntimeInit, DoneMeansAllCompleted
  <2>5. SavedSound /\ RunHoldsItem /\ RunStrandsNothing
    BY <2>0 DEF SavedSound, InRun, RunHoldsItem, RunStrandsNothing, Off
  <2> QED BY <2>1, <2>2, <2>3, <2>4, <2>5 DEF RowsSound
<1>2. /\ RowsSound /\ SavedSound /\ RunHoldsItem /\ RunStrandsNothing
      /\ [RuntimeNext]_runtimeVars
      => (RowsSound /\ SavedSound /\ RunHoldsItem /\ RunStrandsNothing)'
  BY RowsSoundStep, SavedStep, HoldStep DEF RowsSound
<1> QED BY <1>1, <1>2, PTL DEF RuntimeSpec

(* The rows the runtime adds, and the run in progress, are well typed,     *)
(* through runs, crashes and whatever operators do between them.           *)
THEOREM RuntimeTypeCorrect == RuntimeSpec => []RuntimeTypeOK
<1>1. RowsSound => RuntimeTypeOK
  BY DEF RowsSound
<1> QED BY <1>1, RuntimeInvariant, PTL

(* The dispatcher executes no more than one job at a time: the item a run  *)
(* holds is the only RUNNING one of its scope.                             *)
THEOREM OneJob == RuntimeSpec => []OneJobAtATime
<1>1. RowsSound /\ RunHoldsItem => OneJobAtATime
  <2> SUFFICES ASSUME RowsSound, RunHoldsItem, loop.phase \in {"dispatched", "executing"}
               PROVE  UNION {Running(w) : w \in loop.scope} = {loop.item}
    BY DEF OneJobAtATime
  <2>1. \A w \in loop.scope : \A i \in Running(w) : i = loop.item
    BY DEF RunHoldsItem, Running, ItemsOf
  <2>2. wfOf[loop.item] \in loop.scope /\ loop.item \in Running(wfOf[loop.item])
    BY DEF RunHoldsItem, Running, ItemsOf
  <2> QED BY <2>1, <2>2
<1> QED BY <1>1, RuntimeInvariant, PTL

(* A run that is past an item, or stops, leaves nothing RUNNING that was   *)
(* not RUNNING before it began.                                            *)
THEOREM NothingStranded == RuntimeSpec => []RunStrandsNothing
BY RuntimeInvariant, PTL

(* A task is DONE and a workflow is handed over or CLOSED only when all    *)
(* its work is completed and no task of it is active.                      *)
THEOREM Aggregate == RuntimeSpec => []DoneMeansAllCompleted
<1>1. RowsSound => DoneMeansAllCompleted
  BY DEF RowsSound
<1> QED BY <1>1, RuntimeInvariant, PTL

(* What the queue promises on its own it keeps under the runtime loop,     *)
(* although a dispatch is checked differently from start_next and a crash  *)
(* takes the rows of a whole run back.                                     *)
THEOREM QueueKeepsItsPromises ==
    RuntimeSpec => [](/\ ActiveTaskIsRunning
                      /\ OneRunningPerWorkflow
                      /\ StartedAfterDependencies
                      /\ LedgerIsExact
                      /\ BlockedByCurrentCheckpoint)
<1>1. RowsSound => OneRunningPerWorkflow
  <2> SUFFICES ASSUME RowsSound PROVE OneRunningPerWorkflow
    OBVIOUS
  <2>1. ActiveIffRunning
    BY ActivePointwise DEF RowsSound, RuntimeTypeOK
  <2> QED BY <2>1 DEF ActiveIffRunning, OneRunningPerWorkflow
<1>2. RowsSound => /\ ActiveTaskIsRunning
                   /\ StartedAfterDependencies
                   /\ LedgerIsExact
                   /\ BlockedByCurrentCheckpoint
  BY DEF RowsSound
<1> QED BY <1>1, <1>2, RuntimeInvariant, PTL

----------------------------------------------------------------------------
(* Fairness of the dispatcher.                                             *)

(* Only a dispatch takes an item in hand.                                  *)
LEMMA OnlyDispatchTakes ==
    ASSUME RuntimeTypeOK, [RuntimeNext]_runtimeVars,
           loop.phase = "select", loop'.phase = "dispatched"
    PROVE  loop'.item \in Items /\ Dispatch(loop'.item)
<1>l. loop \in [phase : Phase, scope : Scopes \cup {{}},
                item : Items \cup {NoItem}, taken : 0..MaxTasks]
  BY DEF RuntimeTypeOK
<1>o. Off.phase = "off"
  BY DEF Off
<1>1. ~UNCHANGED runtimeVars
  BY DEF runtimeVars
<1>2. \A scope \in Scopes : ~BeginRun(scope)
  BY <1>o DEF BeginRun
<1>3. ~(StopUnselected \/ PreDispatchFails \/ PreDispatchPasses \/ ExecutionCompletes
        \/ ExecutionBlocks)
  BY <1>l DEF StopUnselected, PreDispatchFails, PreDispatchPasses, ExecutionCompletes,
              ExecutionBlocks
<1>4. ~(EndRun \/ Crash \/ BetweenRuns)
  BY <1>o DEF EndRun, Crash, BetweenRuns
<1>5. PICK i \in Items : Dispatch(i)
  BY <1>1, <1>2, <1>3, <1>4 DEF RuntimeNext, LoopStep
<1>6. loop'.item = i
  BY <1>l, <1>5 DEF Dispatch
<1> QED BY <1>5, <1>6

(* A project that was handed over to twice is exhausted while another has  *)
(* eligible work, and its non-CRITICAL items then sort behind that work    *)
(* unless their priority is higher.                                        *)
LEMMA ExhaustedWaits ==
    ASSUME RuntimeTypeOK, NEW i \in Items, NEW scope, DispatchSelect(scope, i),
           recent = <<projOf[wfOf[i]], projOf[wfOf[i]]>>, priority[i] # "CRITICAL",
           NEW j \in Candidates(scope), projOf[wfOf[j]] # projOf[wfOf[i]]
    PROVE  PRIORITY_RANK[priority[j]] > PRIORITY_RANK[priority[i]]
<1> DEFINE s == CandidateKey(i, scope)
           t == CandidateKey(j, scope)
<1>1. j \in Items
  BY DEF Candidates
<1>2. Exhausted(projOf[wfOf[i]], scope)
  BY DEF Exhausted, consecutive_project_limit, Candidates
<1>3. ~Exhausted(projOf[wfOf[j]], scope)
  <2>1. recent[1] # projOf[wfOf[j]] /\ 1 \in 1..Len(recent)
    OBVIOUS
  <2> QED BY <2>1 DEF Exhausted
<1>4. s[1] = PRIORITY_RANK[priority[i]] /\ s[2] = 1
  BY <1>2 DEF CandidateKey
<1>5. t[1] = PRIORITY_RANK[priority[j]] /\ t[2] = 0
  BY <1>3 DEF CandidateKey
<1>6. \A k \in Items : PRIORITY_RANK[priority[k]] \in Nat
  BY BacklogAssumption DEF PRIORITY_RANK, VALID_PRIORITIES
<1>7. DispatchLess(s, t)
  BY DEF DispatchSelect
<1> HIDE DEF s, t
<1>8. s[1] < t[1] \/ (s[1] = t[1] /\ (s[2] < t[2] \/ s[2] = t[2]))
  <2>1. PICK k \in 1..6 : s[k] < t[k] /\ \A l \in 1..(k-1) : s[l] = t[l]
    BY <1>7 DEF DispatchLess
  <2>2. CASE k = 1
    BY <2>1, <2>2
  <2>3. CASE k = 2
    BY <2>1, <2>3
  <2>4. CASE k > 2
    BY <2>1, <2>4
  <2> QED BY <2>2, <2>3, <2>4
<1> QED BY <1>1, <1>4, <1>5, <1>6, <1>8

(* No third handoff in a row goes to one project, except for CRITICAL work *)
(* or where no other project has work as urgent.                           *)
THEOREM FairHandoff == RuntimeSpec => NoThirdHandoffInARow
<1> DEFINE Deferred ==
        \A i \in Items :
            /\ loop.phase = "select" /\ loop'.phase = "dispatched" /\ loop'.item = i
            /\ recent = <<projOf[wfOf[i]], projOf[wfOf[i]]>>
            /\ priority[i] # "CRITICAL"
            => \A j \in Candidates(loop.scope) :
                    \/ projOf[wfOf[j]] = projOf[wfOf[i]]
                    \/ PRIORITY_RANK[priority[j]] > PRIORITY_RANK[priority[i]]
<1>1. ASSUME RuntimeTypeOK, [RuntimeNext]_runtimeVars
      PROVE  Deferred
  BY <1>1, OnlyDispatchTakes, ExhaustedWaits DEF Dispatch
<1>2. RuntimeTypeOK /\ [RuntimeNext]_runtimeVars => [Deferred]_runtimeVars
  BY <1>1
<1> QED BY <1>2, RuntimeTypeCorrect, PTL DEF RuntimeSpec, NoThirdHandoffInARow
----------------------------------------------------------------------------
(* What is committed.                                                      *)

CommittedState == IF InRun THEN saved.state ELSE state
CommittedVersion == IF InRun THEN saved.version ELSE version
CommittedGeneration == IF InRun THEN saved.generation ELSE generation
CommittedCheckpoint == IF InRun THEN saved.current ELSE current

(* The store only moves forward, whatever runs are rolled back: versions   *)
(* never decrease, a version identifies the committed row of an item, and  *)
(* work that was committed as completed is never started again             *)
(* (runtime/launcher.py commits a run as a whole, pilots/queue.py          *)
(* advances the version of every row it writes).                           *)
CommittedRowsAdvance ==
    [][ \A i \in Items :
            /\ CommittedVersion'[i] >= CommittedVersion[i]
            /\ CommittedVersion'[i] = CommittedVersion[i] =>
                 /\ CommittedState'[i] = CommittedState[i]
                 /\ CommittedCheckpoint'[i] = CommittedCheckpoint[i]
            /\ CommittedState[i] = "COMPLETED" =>
                 /\ CommittedState'[i] = "COMPLETED"
                 /\ CommittedGeneration'[i] = CommittedGeneration[i] ]_runtimeVars

(* The rows of a run are ahead of what it would fall back to.              *)
Ahead(i) ==
    /\ version[i] >= saved.version[i]
    /\ version[i] = saved.version[i] =>
         state[i] = saved.state[i] /\ current[i] = saved.current[i]
    /\ saved.state[i] = "COMPLETED" =>
         state[i] = "COMPLETED" /\ generation[i] = saved.generation[i]
RunIsAhead == InRun => \A i \in Items : Ahead(i)

(* A step of the queue keeps them ahead of the same committed rows.        *)
LEMMA AheadStep ==
    ASSUME RowsSound, SavedSound, RowStep, InRun, NEW i \in Items, Ahead(i)
    PROVE  /\ version'[i] >= saved.version[i]
           /\ version'[i] = saved.version[i] =>
                state'[i] = saved.state[i] /\ current'[i] = saved.current[i]
           /\ saved.state[i] = "COMPLETED" =>
                state'[i] = "COMPLETED" /\ generation'[i] = saved.generation[i]
<1>1. TypeOK
  BY DEF RowsSound, RuntimeTypeOK
<1>2. version[i] \in Nat /\ version'[i] \in Nat /\ saved.version[i] \in Nat
  <2>1. Before!TypeOK
    BY DEF SavedSound, Before!RuntimeTypeOK
  <2>2. version' \in [Items -> Nat]
    BY <1>1, RowType
  <2> QED BY <1>1, <2>1, <2>2, SameConstants DEF TypeOK, Before!TypeOK
<1>3. /\ version'[i] >= version[i]
      /\ version'[i] = version[i] => state'[i] = state[i] /\ current'[i] = current[i]
  BY <1>1, VersionStampsTheRow
<1>4. state[i] = "COMPLETED" => state'[i] = state[i] /\ generation'[i] = generation[i]
  BY <1>1, CompletedUntouched
<1> QED BY <1>2, <1>3, <1>4 DEF Ahead

LEMMA RunIsAheadStep ==
    ASSUME RowsSound, SavedSound, RunHoldsItem, RunIsAhead, [RuntimeNext]_runtimeVars
    PROVE  RunIsAhead'
<1>t. RuntimeTypeOK
  BY DEF RowsSound
<1>1. CASE ~InRun'
  BY <1>1 DEF RunIsAhead
<1>2. CASE InRun /\ saved' = saved /\ ~Crash
  <2>1. RowStep
    BY <1>t, <1>2, RuntimeStepCases
  <2>2. \A i \in Items : Ahead(i)'
    BY <1>2, <2>1, AheadStep DEF RunIsAhead, Ahead
  <2> QED BY <2>2 DEF RunIsAhead
<1>3. ASSUME NEW scope \in Scopes, BeginRun(scope) PROVE RunIsAhead'
  <2>1. UNCHANGED itemVars /\ saved'.state = state /\ saved'.version = version
        /\ saved'.generation = generation /\ saved'.current = current
    BY <1>3 DEF BeginRun, Rows
  <2>2. \A i \in Items : version[i] \in Nat
    BY <1>t DEF RuntimeTypeOK, TypeOK
  <2>3. \A i \in Items : Ahead(i)'
    BY <2>1, <2>2 DEF Ahead, itemVars
  <2> QED BY <2>3 DEF RunIsAhead
<1> QED BY <1>t, <1>1, <1>2, <1>3, SavedCases

LEMMA CommittedStep ==
    ASSUME RowsSound, SavedSound, RunHoldsItem, RunIsAhead, [RuntimeNext]_runtimeVars,
           NEW i \in Items
    PROVE  /\ CommittedVersion'[i] >= CommittedVersion[i]
           /\ CommittedVersion'[i] = CommittedVersion[i] =>
                /\ CommittedState'[i] = CommittedState[i]
                /\ CommittedCheckpoint'[i] = CommittedCheckpoint[i]
           /\ CommittedState[i] = "COMPLETED" =>
                /\ CommittedState'[i] = "COMPLETED"
                /\ CommittedGeneration'[i] = CommittedGeneration[i]
<1> USE DEF CommittedState, CommittedVersion, CommittedGeneration, CommittedCheckpoint
<1>t. RuntimeTypeOK /\ TypeOK /\ version[i] \in Nat
  BY DEF RowsSound, RuntimeTypeOK, TypeOK
<1>s. InRun => saved.version[i] \in Nat
  <2>1. InRun => Before!TypeOK
    BY DEF SavedSound, Before!RuntimeTypeOK
  <2> QED BY <2>1, SameConstants DEF Before!TypeOK
<1>1. CASE Crash
  <2>1. InRun /\ ~InRun' /\ state' = saved.state /\ version' = saved.version
        /\ generation' = saved.generation /\ current' = saved.current
    BY <1>1 DEF Crash, RestoreBacklog, InRun
  <2> QED BY <1>s, <2>1
<1>2. ASSUME NEW scope \in Scopes, BeginRun(scope)
      PROVE  /\ ~InRun /\ InRun'
             /\ saved'.state = state /\ saved'.version = version
             /\ saved'.generation = generation /\ saved'.current = current
  <2>1. Off.phase = "off"
    BY DEF Off
  <2> QED BY <1>2, <2>1 DEF BeginRun, Rows, InRun, Off
<1>3. CASE InRun' /\ ~Crash
  BY <1>t, <1>s, <1>2, <1>3, SavedCases
<1>4. CASE ~InRun' /\ ~Crash
  <2>1. RowStep
    BY <1>t, <1>4, RuntimeStepCases
  <2>2. CASE InRun
    BY <1>4, <2>1, <2>2, AheadStep DEF RunIsAhead
  <2>3. CASE ~InRun
    BY <1>t, <1>4, <2>1, <2>3, VersionStampsTheRow, CompletedUntouched
  <2> QED BY <2>2, <2>3
<1> QED BY <1>1, <1>3, <1>4

(* Whatever runs crash or are rolled back and whoever acts between them,   *)
(* the committed rows only move forward, and completed work that was       *)
(* committed is never run again.                                           *)
THEOREM CommittedForward == RuntimeSpec => CommittedRowsAdvance
<1>1. RuntimeInit => RunIsAhead
  BY DEF RuntimeInit, RunIsAhead, InRun
<1>2. RowsSound /\ SavedSound /\ RunHoldsItem /\ RunIsAhead /\ [RuntimeNext]_runtimeVars
      => RunIsAhead'
  BY RunIsAheadStep
<1> DEFINE Forward ==
        \A i \in Items :
            /\ CommittedVersion'[i] >= CommittedVersion[i]
            /\ CommittedVersion'[i] = CommittedVersion[i] =>
                 /\ CommittedState'[i] = CommittedState[i]
                 /\ CommittedCheckpoint'[i] = CommittedCheckpoint[i]
            /\ CommittedState[i] = "COMPLETED" =>
                 /\ CommittedState'[i] = "COMPLETED"
                 /\ CommittedGeneration'[i] = CommittedGeneration[i]
<1>3. RowsSound /\ SavedSound /\ RunHoldsItem /\ RunIsAhead /\ [RuntimeNext]_runtimeVars
      => [Forward]_runtimeVars
  BY CommittedStep
<1> QED BY <1>1, <1>2, <1>3, RuntimeInvariant, PTL DEF RuntimeSpec, CommittedRowsAdvance
=============================================================================
