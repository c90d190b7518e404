----------------------------- MODULE WorkQueue -----------------------------
(***************************************************************************)
(* The durable work queue of lucius: NonBlockingQueueService in            *)
(* src/lucius/pilots/queue.py.  A workflow row keeps a backlog of work     *)
(* items; the service selects, starts, blocks, repairs, resumes and        *)
(* completes them.  Each operation runs in one database session, so one    *)
(* operation is one step.  What is NOT in that step is the evidence the    *)
(* caller holds between two calls: a global selection made earlier         *)
(* (pick), and the checkpoint id and item version an operator read from a  *)
(* status report (ticket).  Both stay around, and may be replayed, while   *)
(* the queue moves on.                                                     *)
(***************************************************************************)
EXTENDS Naturals, Sequences, FiniteSets

CONSTANTS
    Workflows,      \* persistent workflows with a non-empty backlog
    Items,          \* work items, over all workflows
    wfOf,           \* the workflow whose backlog holds an item
    priority,       \* its priority; "UNKNOWN" is a value outside the valid four
    createdOrder,   \* its created_order, which items may share
    identity,       \* its place in the (project, workflow, item id) order
    deps,           \* the items it depends on
    Legacy,         \* items stored without a valid queue state
    BlockKinds,     \* the blocking states callers use
    Scopes,         \* the workflow_ids arguments callers use (all: None)
    NoItem,         \* no item: active_task_id is None
    MaxVersion,     \* bound: no item is written at this version
    MaxCheckpoints  \* bound: number of block checkpoints

BLOCKED_STATES ==
    {"WAITING_HUMAN", "WAITING_EXTERNAL", "WAITING_RESOURCE",
     "WAITING_DEPENDENCY", "WAITING_SCHEDULE", "BLOCKED_DEPENDENCY",
     "BLOCKED_AUTHORITY", "BLOCKED_DECISION", "RETRY_LATER"}
ELIGIBLE_STATES == {"READY", "READY_TO_RESUME"}
TERMINAL_STATES == {"COMPLETED", "FAILED"}
\* The two resource waits belong to QueueWorkItemState and not to the
\* queue's BLOCKED_STATES.  UNPARSED: no state, a null one, or an unknown one.
QueueWorkItemState ==
    BLOCKED_STATES \cup ELIGIBLE_STATES \cup TERMINAL_STATES
        \cup {"RUNNING", "WAITING_RESOURCE_SHORT", "WAITING_RESOURCE_LONG"}
StoredState == QueueWorkItemState \cup {"UNPARSED"}

EXECUTION_ELIGIBLE_WORKFLOW_STATES ==
    {"PLAN_READY", "IMPLEMENTING", "VERIFYING", "CHECKPOINT_REVIEW_REQUIRED",
     "RESUME_VALIDATION", "BLOCKED", "APPROVED_TO_CONTINUE"}
PersistentWorkflowState ==
    EXECUTION_ELIGIBLE_WORKFLOW_STATES
        \cup {"OBJECTIVE_ACCEPTED", "PLANNING", "PAUSED",
              "COMPLETED_PENDING_INTEGRATION", "CLOSED"}

VALID_PRIORITIES == {"CRITICAL", "HIGH", "NORMAL", "LOW"}
\* An unknown priority ranks as NORMAL wherever it is ranked at all.
PRIORITY_RANK ==
    [CRITICAL |-> 0, HIGH |-> 1, NORMAL |-> 2, LOW |-> 3, UNKNOWN |-> 2]

ASSUME BacklogAssumption ==
    /\ wfOf \in [Items -> Workflows]
    /\ priority \in [Items -> VALID_PRIORITIES \cup {"UNKNOWN"}]
    /\ deps \in [Items -> SUBSET Items]
    /\ Legacy \subseteq Items
    /\ NoItem \notin Items
ASSUME OrderAssumption ==
    /\ createdOrder \in [Items -> Nat]
    /\ identity \in [Items -> Nat]
    /\ \A i, j \in Items : identity[i] = identity[j] => i = j
ASSUME CallerAssumption ==
    /\ BlockKinds \subseteq BLOCKED_STATES
    /\ Scopes \subseteq SUBSET Workflows
ASSUME BoundAssumption == MaxVersion \in Nat /\ MaxCheckpoints \in Nat

VARIABLES
    state,          \* per item: state
    version,        \* per item: version, the optimistic-concurrency stamp
    generation,     \* per item: run_generation
    current,        \* per item: current_block_checkpoint_id, 0 for None
    checkpoints,    \* every QueueBlockCheckpoint; its id is its position
    lifecycle,      \* per workflow: workflow_state
    active,         \* per workflow: active_task_id
    completedIds,   \* per workflow: completed_task_ids
    pendingIds,     \* per workflow: pending_task_ids
    pick,           \* the GlobalQueueSelection a caller holds
    ticket          \* the resume evidence an operator holds

itemVars == <<state, version, generation, current, checkpoints>>
ledgerVars == <<completedIds, pendingIds>>
queueVars == <<itemVars, lifecycle, active, ledgerVars>>
vars == <<queueVars, pick, ticket>>

Checkpoint == [item : Items, prior : StoredState, blocking : BLOCKED_STATES,
               version : Nat]
Pick == [item : Items, version : Nat]
NoPick == [item |-> NoItem, version |-> 0]
Ticket == [item : Items, checkpoint : Nat, version : Nat]
NoTicket == [item |-> NoItem, checkpoint |-> 0, version |-> 0]

----------------------------------------------------------------------------
(* How a stored item is read: _global_items and what it parses.            *)
(* Here and below a definition named Mut... deviates from the code on      *)
(* purpose, the way a plausible bug would; no action uses it.              *)

ItemsOf(w) == {i \in Items : wfOf[i] = w}
InState(i, S) == state[i] \in S
Stateful(i) == InState(i, QueueWorkItemState)
Schedulable(i) == Stateful(i) /\ priority[i] \in VALID_PRIORITIES
Executable(w) == lifecycle[w] \in EXECUTION_ELIGIBLE_WORKFLOW_STATES

MutDependenciesStarted(i) == \A d \in deps[i] : generation[d] > 0
\* A dependency counts only inside the owning workflow, and only when the
\* item it names is itself schedulable.
DependenciesComplete(i) ==
    \A d \in deps[i] :
        /\ wfOf[d] = wfOf[i]
        /\ Schedulable(d)
        /\ state[d] = "COMPLETED"

IsEligible(i) ==
    Schedulable(i) /\ InState(i, ELIGIBLE_STATES) /\ DependenciesComplete(i)

Running(w) == {i \in ItemsOf(w) : state[i] = "RUNNING"}

(* The sort key of a selection, and the item that sorted(...)[0] returns.  *)
StateClassRank(i) == IF state[i] = "READY_TO_RESUME" THEN 0 ELSE 1
SelectionKey(i) ==
    <<PRIORITY_RANK[priority[i]], StateClassRank(i), createdOrder[i], identity[i]>>
MutKeyLess(s, t) == \E k \in 1..3 : s[k] < t[k] /\ \A l \in 1..(k-1) : s[l] = t[l]
KeyLess(s, t) == \E k \in 1..4 : s[k] < t[k] /\ \A l \in 1..(k-1) : s[l] = t[l]
IsFirst(i, S) ==
    i \in S /\ \A j \in S \ {i} : KeyLess(SelectionKey(i), SelectionKey(j))

\* select_next: any RUNNING item of the workflow, schedulable or not, means
\* there is no selection.
SelectNext(w, i) ==
    /\ Running(w) = {}
    /\ IsFirst(i, {j \in ItemsOf(w) : IsEligible(j)})

\* select_global_next: only workflows in an executable lifecycle state are
\* looked at, for candidates and for RUNNING items alike.
SelectGlobalNext(scope, i) ==
    LET seen == {w \in scope : Executable(w)}
    IN  /\ \A w \in seen : Running(w) = {}
        /\ IsFirst(i, {j \in Items : wfOf[j] \in seen /\ IsEligible(j)})

----------------------------------------------------------------------------
(* The writes the operations share.                                        *)

MutSetState(i, s) ==
    /\ version[i] < MaxVersion
    /\ state' = [state EXCEPT ![i] = s]
    /\ version' = [version EXCEPT ![i] = IF s = "READY_TO_RESUME" THEN 0 ELSE @ + 1]
SetState(i, s) ==
    /\ version[i] < MaxVersion
    /\ state' = [state EXCEPT ![i] = s]
    /\ version' = [version EXCEPT ![i] = @ + 1]

MutMarkStarted(i) ==
    /\ generation' = [generation EXCEPT ![i] = IF state[i] = "READY" THEN @ + 1 ELSE @]
    /\ SetState(i, "RUNNING")
    /\ active' = [active EXCEPT ![wfOf[i]] = i]
    /\ UNCHANGED <<current, checkpoints, lifecycle, ledgerVars>>
\* The item is marked RUNNING and becomes the workflow's active task.
MarkStarted(i) ==
    /\ SetState(i, "RUNNING")
    /\ generation' = [generation EXCEPT ![i] = @ + 1]
    /\ active' = [active EXCEPT ![wfOf[i]] = i]
    /\ UNCHANGED <<current, checkpoints, lifecycle, ledgerVars>>

MutCheckpointNotStored(i, s) ==
    /\ current' = [current EXCEPT ![i] = Len(checkpoints) + 1]
    /\ UNCHANGED checkpoints
MutFirstCheckpointStays(i, s) ==
    /\ checkpoints' = Append(checkpoints, [item |-> i, prior |-> state[i],
                                blocking |-> s, version |-> version[i]])
    /\ current' = [current EXCEPT ![i] = IF @ = 0 THEN Len(checkpoints) + 1 ELSE @]
\* The checkpoint carries the version the item had BEFORE the state change.
StoreCheckpoint(i, s) ==
    /\ checkpoints' = Append(checkpoints, [item |-> i, prior |-> state[i],
                                blocking |-> s, version |-> version[i]])
    /\ current' = [current EXCEPT ![i] = Len(checkpoints) + 1]

MutClearActive(w) == UNCHANGED active
ClearActive(w) == active' = [active EXCEPT ![w] = NoItem]

RecordBlock(i, s) ==
    /\ Len(checkpoints) < MaxCheckpoints
    /\ StoreCheckpoint(i, s)
    /\ SetState(i, s)
    /\ ClearActive(wfOf[i])
    /\ UNCHANGED <<generation, lifecycle, ledgerVars>>

MutCompletable(i) == Executable(wfOf[i]) /\ ~InState(i, TERMINAL_STATES)
Completable(i) == Executable(wfOf[i]) /\ InState(i, {"RUNNING", "READY_TO_RESUME"})

MutRecount(w, st) ==
    /\ completedIds' = [completedIds EXCEPT ![w] =
                          {j \in ItemsOf(w) : state[j] = "COMPLETED"}]
    /\ pendingIds' = [pendingIds EXCEPT ![w] =
                          {j \in ItemsOf(w) : st[j] \notin TERMINAL_STATES}]
\* Both ledgers are recomputed from the item states st of the whole backlog.
Recount(w, st) ==
    /\ completedIds' = [completedIds EXCEPT ![w] =
                          {j \in ItemsOf(w) : st[j] = "COMPLETED"}]
    /\ pendingIds' = [pendingIds EXCEPT ![w] =
                          {j \in ItemsOf(w) : st[j] \notin TERMINAL_STATES}]

MarkCompleted(i) ==
    /\ Completable(i)
    /\ SetState(i, "COMPLETED")
    /\ active' = [active EXCEPT ![wfOf[i]] = IF @ = i THEN NoItem ELSE @]
    /\ Recount(wfOf[i], state')
    /\ UNCHANGED <<generation, current, checkpoints>>

\* What resolve_blocker and repair_blocked_item_configuration verify.
TicketAccepted(t) ==
    /\ t.item \in Items
    /\ current[t.item] = t.checkpoint
    /\ version[t.item] = t.version
    /\ InState(t.item, BLOCKED_STATES)

----------------------------------------------------------------------------
Init ==
    /\ state = [i \in Items |-> IF i \in Legacy THEN "UNPARSED" ELSE "READY"]
    /\ version = [i \in Items |-> 0]
    /\ generation = [i \in Items |-> 0]
    /\ current = [i \in Items |-> 0]
    /\ checkpoints = <<>>
    /\ lifecycle = [w \in Workflows |-> "OBJECTIVE_ACCEPTED"]
    /\ active = [w \in Workflows |-> NoItem]
    /\ completedIds = [w \in Workflows |-> {}]
    /\ pendingIds = [w \in Workflows |-> {}]
    /\ pick = NoPick
    /\ ticket = NoTicket

(* start_next                                                              *)
StartNext(w) ==
    /\ Executable(w)
    /\ \E i \in Items : SelectNext(w, i) /\ MarkStarted(i)
    /\ UNCHANGED <<pick, ticket>>

(* select_global_next, whose result the caller keeps                       *)
TakePick(scope) ==
    /\ \E i \in Items :
        /\ SelectGlobalNext(scope, i)
        /\ pick' = [item |-> i, version |-> version[i]]
    /\ UNCHANGED <<queueVars, ticket>>

MutStartPick(scope) ==
    /\ pick # NoPick
    /\ wfOf[pick.item] \in scope
    /\ Executable(wfOf[pick.item])
    /\ Running(wfOf[pick.item]) = {}
    /\ MarkStarted(pick.item)
    /\ UNCHANGED <<pick, ticket>>
(* start_selected_global_item: the held selection is validated against a   *)
(* fresh selection and against the selected workflow alone.                *)
StartPick(scope) ==
    LET i == pick.item
    IN  /\ pick # NoPick
        /\ wfOf[i] \in scope
        /\ Executable(wfOf[i])
        /\ SelectGlobalNext(scope, i)
        /\ version[i] = pick.version
        /\ Running(wfOf[i]) = {}
        /\ IsEligible(i)
        /\ MarkStarted(i)
        /\ UNCHANGED <<pick, ticket>>

(* block_running_item: no lifecycle check                                  *)
BlockRunningItem(i) ==
    /\ state[i] = "RUNNING"
    /\ \E s \in BlockKinds : RecordBlock(i, s)
    /\ UNCHANGED <<pick, ticket>>

(* block_dispatch_selected_item, as its one caller uses it: the runtime     *)
(* loop passes on an item it has just looked at (so the expected state and  *)
(* version match), in a scope in which nothing runs, whose dependencies are *)
(* complete and whose dispatch failed closed.                               *)
BlockDispatchSelectedItem(scope, i) ==
    /\ wfOf[i] \in scope
    /\ \A w \in scope : Running(w) = {}
    /\ InState(i, ELIGIBLE_STATES)
    /\ \A d \in deps[i] : wfOf[d] = wfOf[i] /\ state[d] = "COMPLETED"
    /\ RecordBlock(i, "WAITING_HUMAN")
    /\ UNCHANGED <<pick, ticket>>

(* An operator reads the checkpoint id and the version of a blocked item.  *)
TakeTicket(i) ==
    /\ InState(i, BLOCKED_STATES)
    /\ current[i] # 0
    /\ ticket' = [item |-> i, checkpoint |-> current[i], version |-> version[i]]
    /\ UNCHANGED <<queueVars, pick>>

(* resolve_blocker                                                         *)
ResolveBlocker ==
    /\ TicketAccepted(ticket)
    /\ SetState(ticket.item, "READY_TO_RESUME")
    /\ UNCHANGED <<generation, current, checkpoints, lifecycle, active,
                   ledgerVars, pick, ticket>>

(* repair_blocked_item_configuration: the item keeps its state             *)
RepairBlockedItem ==
    /\ TicketAccepted(ticket)
    /\ SetState(ticket.item, state[ticket.item])
    /\ UNCHANGED <<generation, current, checkpoints, lifecycle, active,
                   ledgerVars, pick, ticket>>

(* complete_item: neither the dependencies nor the active task are checked *)
CompleteItem(i) ==
    /\ MarkCompleted(i)
    /\ UNCHANGED <<lifecycle, pick, ticket>>

(* What PersistentWorkflowService does to a workflow underneath its queue: *)
(* attach_plan, and update_progress to or from PAUSED with the active task *)
(* passed on.                                                              *)
AttachPlan(w) ==
    /\ lifecycle' = [lifecycle EXCEPT ![w] = "PLAN_READY"]
    /\ UNCHANGED <<itemVars, active, ledgerVars, pick, ticket>>

Pause(w) ==
    /\ Executable(w)
    /\ lifecycle' = [lifecycle EXCEPT ![w] = "PAUSED"]
    /\ UNCHANGED <<itemVars, active, ledgerVars, pick, ticket>>

Next ==
    \/ \E w \in Workflows : StartNext(w) \/ AttachPlan(w) \/ Pause(w)
    \/ \E scope \in Scopes : TakePick(scope) \/ StartPick(scope)
    \/ \E i \in Items :
        \/ BlockRunningItem(i)
        \/ \E scope \in Scopes : BlockDispatchSelectedItem(scope, i)
        \/ TakeTicket(i)
        \/ CompleteItem(i)
    \/ ResolveBlocker
    \/ RepairBlockedItem

Spec == Init /\ [][Next]_vars
----------------------------------------------------------------------------
(* Type correctness of the stored rows and of the evidence held.           *)
TypeOK ==
    /\ state \in [Items -> StoredState]
    /\ version \in [Items -> Nat]
    /\ generation \in [Items -> Nat]
    /\ current \in [Items -> 0..Len(checkpoints)]
    /\ checkpoints \in Seq(Checkpoint)
    /\ lifecycle \in [Workflows -> PersistentWorkflowState]
    /\ active \in [Workflows -> Items \cup {NoItem}]
    /\ completedIds \in [Workflows -> SUBSET Items]
    /\ pendingIds \in [Workflows -> SUBSET Items]
    /\ pick \in Pick \cup {NoPick}
    /\ ticket \in Ticket \cup {NoTicket}

(* Per workflow no work item is ever preempted: scoped starts, held global *)
(* picks and the lifecycle moves in between never leave two items of one   *)
(* workflow RUNNING (select_next, _start_global_selection).                *)
OneRunningPerWorkflow ==
    \A i, j \in Items :
        state[i] = "RUNNING" /\ state[j] = "RUNNING" /\ wfOf[i] = wfOf[j] => i = j

(* active_task_id, written by five operations, always names the RUNNING    *)
(* item of the workflow and is None exactly when there is none.            *)
ActiveTaskIsRunning ==
    \A w \in Workflows :
        Running(w) = IF active[w] = NoItem THEN {} ELSE {active[w]}

(* A blocked item is blocked by its current checkpoint: the checkpoint is  *)
(* its own, the newest it has, names the state the item is in, and is      *)
(* older than the item's version.  This is what resolve_blocker relies on  *)
(* when it compares ids and versions and never the state.                  *)
BlockedByCurrentCheckpoint ==
    \A i \in Items :
        InState(i, BLOCKED_STATES \cup {"READY_TO_RESUME"}) =>
            /\ current[i] # 0
            /\ checkpoints[current[i]].item = i
            /\ checkpoints[current[i]].version < version[i]
            /\ InState(i, BLOCKED_STATES) => checkpoints[current[i]].blocking = state[i]
            /\ \A c \in 1..Len(checkpoints) : checkpoints[c].item = i => c <= current[i]

(* Every run is accounted for: run_generation counts exactly the runs that *)
(* ended in a checkpoint taken from RUNNING, plus the one in progress or   *)
(* completed.  A second start without a block in between breaks it.        *)
RunsEndedByBlock(i) ==
    {c \in 1..Len(checkpoints) :
        checkpoints[c].item = i /\ checkpoints[c].prior = "RUNNING"}
EveryRunIsAccountedFor ==
    \A i \in Items :
        generation[i] - Cardinality(RunsEndedByBlock(i)) \in
            CASE state[i] = "RUNNING" -> {1}
              [] state[i] = "COMPLETED" -> {0, 1}
              [] OTHER -> {0}

(* No item has run, waits blocked or to be resumed, or is completed before *)
(* everything it depends on is completed, although neither the block       *)
(* operations nor complete_item look at dependencies.                      *)
StartedAfterDependencies ==
    \A i \in Items :
        \/ generation[i] > 0
        \/ InState(i, BLOCKED_STATES \cup {"RUNNING", "READY_TO_RESUME", "COMPLETED"})
        => \A d \in deps[i] : wfOf[d] = wfOf[i] /\ state[d] = "COMPLETED"

(* The ledgers recomputed by complete_item stay exact while other          *)
(* operations change items: completed_task_ids is the set of COMPLETED     *)
(* items, and pending_task_ids, once written, the rest.                    *)
LedgerIsExact ==
    \A w \in Workflows :
        /\ completedIds[w] = {i \in ItemsOf(w) : state[i] = "COMPLETED"}
        /\ completedIds[w] # {} => pendingIds[w] = ItemsOf(w) \ completedIds[w]

(* With nothing RUNNING and something eligible in a workflow, select_next  *)
(* yields exactly one item: the sort keys never tie and never cycle.       *)
SelectionIsDetermined ==
    \A w \in Workflows :
        Running(w) = {} /\ (\E i \in ItemsOf(w) : IsEligible(i)) =>
            \E i \in Items : \A j \in Items : SelectNext(w, j) <=> j = i

(* Evidence that has gone stale stays stale: a ticket the queue would      *)
(* refuse is refused for ever, whatever blocks, resumes and repairs follow *)
(* (the item cannot come back to the version the ticket names), and so is  *)
(* a pick whose item has been written since.                               *)
StaleEvidenceStaysStale ==
    [][ /\ ticket' = ticket /\ ticket # NoTicket /\ ~TicketAccepted(ticket)
            => ~TicketAccepted(ticket)'
        /\ pick' = pick /\ pick # NoPick /\ version[pick.item] # pick.version
            => version'[pick.item] # pick.version ]_vars

(* Completed work stays completed, run by run: no held pick, ticket or     *)
(* dispatch ever reopens a COMPLETED item or drops it from the ledger.     *)
CompletedStaysCompleted ==
    [][ \A i \in Items : state[i] = "COMPLETED" =>
            /\ UNCHANGED <<state[i], version[i], generation[i], current[i]>>
            /\ i \in completedIds'[wfOf[i]] ]_vars

(* The queue implements the abstract execution slot: active_task_id is the *)
(* slot, whatever selections, picks, blocks, resumes and repairs happen.   *)
Slot == INSTANCE ExecutionSlot WITH
            slot <- active, done <- {i \in Items : state[i] = "COMPLETED"}
ImplementsExecutionSlot == Slot!SlotSpec
=============================================================================
