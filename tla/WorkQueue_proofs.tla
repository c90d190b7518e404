-------------------------- MODULE WorkQueue_proofs --------------------------
(***************************************************************************)
(* Proofs about the work queue, for every backlog and every bound.  The    *)
(* eleven actions change the rows in five ways, which StepCases collects;  *)
(* each invariant is then preserved case by case.                          *)
(***************************************************************************)
EXTENDS WorkQueue, FiniteSetTheorems, TLAPS

----------------------------------------------------------------------------
(* The five ways in which a step changes the rows.                         *)

\* The dependencies of an item, whatever their priority is worth.
DependenciesMet(i) == \A d \in deps[i] : wfOf[d] = wfOf[i] /\ state[d] = "COMPLETED"

Starts(i) ==
    /\ InState(i, ELIGIBLE_STATES)
    /\ DependenciesMet(i)
    /\ Running(wfOf[i]) = {}
    /\ MarkStarted(i)

Blocks(i, s) ==
    /\ \/ state[i] = "RUNNING"
       \/ /\ InState(i, ELIGIBLE_STATES)
          /\ Running(wfOf[i]) = {}
          /\ DependenciesMet(i)
    /\ RecordBlock(i, s)

Resolves(i) ==
    /\ InState(i, BLOCKED_STATES)
    /\ SetState(i, "READY_TO_RESUME")
    /\ UNCHANGED <<generation, current, checkpoints, active, ledgerVars>>

Repairs(i) ==
    /\ InState(i, BLOCKED_STATES)
    /\ SetState(i, state[i])
    /\ UNCHANGED <<generation, current, checkpoints, active, ledgerVars>>

Rests == UNCHANGED <<itemVars, active, ledgerVars>>

RowStep ==
    \/ Rests
    \/ \E i \in Items :
        \/ Starts(i)
        \/ \E s \in BLOCKED_STATES : Blocks(i, s)
        \/ Resolves(i)
        \/ Repairs(i)
        \/ MarkCompleted(i)

(* Every step of the queue changes the rows in one of those ways: what a   *)
(* selection, a held pick or a ticket was checked against is part of it.   *)
LEMMA StepCases ==
    ASSUME TypeOK, [Next]_vars
    PROVE  RowStep
<1> USE BacklogAssumption, CallerAssumption
<1>1. CASE UNCHANGED vars
  BY <1>1 DEF RowStep, Rests, vars, queueVars, itemVars, ledgerVars
<1>2. ASSUME NEW w \in Workflows, StartNext(w)
      PROVE  RowStep
  <2>1. PICK i \in Items : SelectNext(w, i) /\ MarkStarted(i)
    BY <1>2 DEF StartNext
  <2>2. IsEligible(i) /\ Running(wfOf[i]) = {}
    BY <2>1 DEF SelectNext, IsFirst, ItemsOf
  <2>3. Starts(i)
    BY <2>1, <2>2 DEF Starts, IsEligible, DependenciesComplete, DependenciesMet
  <2> QED BY <2>3 DEF RowStep
<1>3. ASSUME NEW w \in Workflows, AttachPlan(w) \/ Pause(w)
      PROVE  RowStep
  BY <1>3 DEF AttachPlan, Pause, RowStep, Rests
<1>4. ASSUME NEW scope \in Scopes, TakePick(scope)
      PROVE  RowStep
  BY <1>4 DEF TakePick, RowStep, Rests, queueVars
<1>5. ASSUME NEW scope \in Scopes, StartPick(scope)
      PROVE  RowStep
  <2>1. pick.item \in Items
    BY <1>5 DEF StartPick, TypeOK, Pick
  <2>2. Starts(pick.item)
    BY <1>5 DEF StartPick, Starts, IsEligible, DependenciesComplete, DependenciesMet
  <2> QED BY <2>1, <2>2 DEF RowStep
<1>6. ASSUME NEW i \in Items, BlockRunningItem(i)
      PROVE  RowStep
  <2>1. PICK s \in BlockKinds : RecordBlock(i, s)
    BY <1>6 DEF BlockRunningItem
  <2>2. Blocks(i, s) /\ s \in BLOCKED_STATES
    BY <1>6, <2>1 DEF BlockRunningItem, Blocks
  <2> QED BY <2>2 DEF RowStep
<1>7. ASSUME NEW i \in Items, NEW scope \in Scopes, BlockDispatchSelectedItem(scope, i)
      PROVE  RowStep
  <2>1. Blocks(i, "WAITING_HUMAN")
    BY <1>7 DEF BlockDispatchSelectedItem, Blocks, DependenciesMet
  <2>2. "WAITING_HUMAN" \in BLOCKED_STATES
    BY DEF BLOCKED_STATES
  <2> QED BY <2>1, <2>2 DEF RowStep
<1>8. ASSUME NEW i \in Items, TakeTicket(i)
      PROVE  RowStep
  BY <1>8 DEF TakeTicket, RowStep, Rests, queueVars
<1>9. ASSUME NEW i \in Items, CompleteItem(i)
      PROVE  RowStep
  BY <1>9 DEF CompleteItem, RowStep
<1>10. CASE ResolveBlocker
  <2>1. ticket.item \in Items /\ Resolves(ticket.item)
    BY <1>10 DEF ResolveBlocker, TicketAccepted, Resolves
  <2> QED BY <2>1 DEF RowStep
<1>11. CASE RepairBlockedItem
  <2>1. ticket.item \in Items /\ Repairs(ticket.item)
    BY <1>11 DEF RepairBlockedItem, TicketAccepted, Repairs
  <2> QED BY <2>1 DEF RowStep
<1> QED
  BY <1>1, <1>2, <1>3, <1>4, <1>5, <1>6, <1>7, <1>8, <1>9, <1>10, <1>11 DEF Next

----------------------------------------------------------------------------
(* Type correctness.                                                       *)

(* SetState writes one item's state and version and keeps their types.     *)
LEMMA SetStateEffect ==
    ASSUME TypeOK, NEW i \in Items, NEW s \in StoredState, SetState(i, s)
    PROVE  /\ state' \in [Items -> StoredState]
           /\ version' \in [Items -> Nat]
           /\ \A j \in Items : state'[j] = IF j = i THEN s ELSE state[j]
           /\ \A j \in Items : version'[j] = IF j = i THEN version[j] + 1 ELSE version[j]
  BY DEF TypeOK, SetState

(* A block appends one checkpoint of the blocked item and makes it the     *)
(* current one.                                                            *)
LEMMA RecordBlockEffect ==
    ASSUME TypeOK, NEW i \in Items, NEW s \in BLOCKED_STATES, RecordBlock(i, s)
    PROVE  /\ checkpoints' \in Seq(Checkpoint)
           /\ Len(checkpoints') = Len(checkpoints) + 1
           /\ \A k \in 1..Len(checkpoints) : checkpoints'[k] = checkpoints[k]
           /\ checkpoints'[Len(checkpoints) + 1] =
                 [item |-> i, prior |-> state[i], blocking |-> s, version |-> version[i]]
           /\ \A j \in Items : current'[j] = IF j = i THEN Len(checkpoints) + 1
                                              ELSE current[j]
           /\ current' \in [Items -> 0..Len(checkpoints')]
<1> DEFINE c == [item |-> i, prior |-> state[i], blocking |-> s, version |-> version[i]]
<1>1. c \in Checkpoint
  BY DEF TypeOK, Checkpoint
<1>2. checkpoints' = Append(checkpoints, c) /\ checkpoints \in Seq(Checkpoint)
  BY DEF RecordBlock, StoreCheckpoint, TypeOK
<1>3. current \in [Items -> 0..Len(checkpoints)] /\ Len(checkpoints) \in Nat
  BY <1>2 DEF TypeOK
<1>4. current' = [current EXCEPT ![i] = Len(checkpoints) + 1]
  BY DEF RecordBlock, StoreCheckpoint
<1> HIDE DEF c
<1>5. /\ checkpoints' \in Seq(Checkpoint)
      /\ Len(checkpoints') = Len(checkpoints) + 1
      /\ \A k \in 1..Len(checkpoints) : checkpoints'[k] = checkpoints[k]
      /\ checkpoints'[Len(checkpoints) + 1] = c
  BY <1>1, <1>2
<1>6. /\ \A j \in Items : current'[j] = IF j = i THEN Len(checkpoints) + 1 ELSE current[j]
      /\ current' \in [Items -> 0..Len(checkpoints')]
  BY <1>3, <1>4, <1>5
<1> QED BY <1>5, <1>6 DEF c

(* The lifecycle and the evidence keep their types in every step.          *)
LEMMA EvidenceType ==
    ASSUME TypeOK, [Next]_vars
    PROVE  /\ lifecycle' \in [Workflows -> PersistentWorkflowState]
           /\ pick' \in Pick \cup {NoPick}
           /\ ticket' \in Ticket \cup {NoTicket}
<1> USE DEF TypeOK
<1>1. CASE UNCHANGED vars
  BY <1>1 DEF vars, queueVars
<1>2. ASSUME NEW w \in Workflows, StartNext(w) PROVE UNCHANGED <<lifecycle, pick, ticket>>
  BY <1>2 DEF StartNext, MarkStarted
<1>3. ASSUME NEW w \in Workflows, AttachPlan(w) \/ Pause(w)
      PROVE  /\ UNCHANGED <<pick, ticket>>
             /\ lifecycle' \in [Workflows -> PersistentWorkflowState]
  BY <1>3 DEF AttachPlan, Pause, PersistentWorkflowState,
              EXECUTION_ELIGIBLE_WORKFLOW_STATES
<1>4. ASSUME NEW scope \in Scopes, TakePick(scope)
      PROVE  UNCHANGED <<lifecycle, ticket>> /\ pick' \in Pick
  BY <1>4 DEF TakePick, queueVars, Pick
<1>5. ASSUME NEW scope \in Scopes, StartPick(scope)
      PROVE  UNCHANGED <<lifecycle, pick, ticket>>
  BY <1>5 DEF StartPick, MarkStarted
<1>6. ASSUME NEW i \in Items, BlockRunningItem(i) PROVE UNCHANGED <<lifecycle, pick, ticket>>
  BY <1>6 DEF BlockRunningItem, RecordBlock
<1>7. ASSUME NEW i \in Items, NEW scope \in Scopes, BlockDispatchSelectedItem(scope, i)
      PROVE  UNCHANGED <<lifecycle, pick, ticket>>
  BY <1>7 DEF BlockDispatchSelectedItem, RecordBlock
<1>8. ASSUME NEW i \in Items, TakeTicket(i)
      PROVE  UNCHANGED <<lifecycle, pick>> /\ ticket' \in Ticket
  <2>1. current[i] \in Nat /\ version[i] \in Nat
    OBVIOUS
  <2> QED BY <1>8, <2>1 DEF TakeTicket, queueVars, Ticket
<1>9. ASSUME NEW i \in Items, CompleteItem(i) PROVE UNCHANGED <<lifecycle, pick, ticket>>
  BY <1>9 DEF CompleteItem
<1>10. CASE ResolveBlocker \/ RepairBlockedItem
  BY <1>10 DEF ResolveBlocker, RepairBlockedItem
<1> HIDE DEF TypeOK
<1>11. /\ lifecycle \in [Workflows -> PersistentWorkflowState]
       /\ pick \in Pick \cup {NoPick}
       /\ ticket \in Ticket \cup {NoTicket}
  BY DEF TypeOK
<1> QED
  BY <1>1, <1>2, <1>3, <1>4, <1>5, <1>6, <1>7, <1>8, <1>9, <1>10, <1>11 DEF Next

(* A step that changes rows in one of the five ways keeps their types.     *)
LEMMA RowType ==
    ASSUME TypeOK, RowStep
    PROVE  /\ state' \in [Items -> StoredState]
           /\ version' \in [Items -> Nat]
           /\ generation' \in [Items -> Nat]
           /\ current' \in [Items -> 0..Len(checkpoints')]
           /\ checkpoints' \in Seq(Checkpoint)
           /\ active' \in [Workflows -> Items \cup {NoItem}]
           /\ completedIds' \in [Workflows -> SUBSET Items]
           /\ pendingIds' \in [Workflows -> SUBSET Items]
<1> USE BacklogAssumption
<1> DEFINE Goal == /\ state' \in [Items -> StoredState]
                   /\ version' \in [Items -> Nat]
                   /\ generation' \in [Items -> Nat]
                   /\ current' \in [Items -> 0..Len(checkpoints')]
                   /\ checkpoints' \in Seq(Checkpoint)
                   /\ active' \in [Workflows -> Items \cup {NoItem}]
                   /\ completedIds' \in [Workflows -> SUBSET Items]
                   /\ pendingIds' \in [Workflows -> SUBSET Items]
<1>1. CASE Rests
  BY <1>1 DEF Rests, itemVars, ledgerVars, TypeOK
<1>2. ASSUME NEW i \in Items, Starts(i) PROVE Goal
  <2>1. SetState(i, "RUNNING") /\ "RUNNING" \in StoredState
    BY <1>2 DEF Starts, MarkStarted, StoredState, QueueWorkItemState
  <2>2. state' \in [Items -> StoredState] /\ version' \in [Items -> Nat]
    BY <2>1, SetStateEffect
  <2>3. /\ generation' \in [Items -> Nat]
        /\ active' \in [Workflows -> Items \cup {NoItem}]
    BY <1>2 DEF Starts, MarkStarted, TypeOK
  <2> QED BY <1>2, <2>2, <2>3 DEF Starts, MarkStarted, ledgerVars, TypeOK
<1>3. ASSUME NEW i \in Items, NEW s \in BLOCKED_STATES, Blocks(i, s) PROVE Goal
  <2>1. RecordBlock(i, s) /\ SetState(i, s) /\ s \in StoredState
    BY <1>3 DEF Blocks, RecordBlock, StoredState, QueueWorkItemState
  <2>2. state' \in [Items -> StoredState] /\ version' \in [Items -> Nat]
    BY <2>1, SetStateEffect
  <2>3. checkpoints' \in Seq(Checkpoint) /\ current' \in [Items -> 0..Len(checkpoints')]
    BY <2>1, RecordBlockEffect
  <2>4. /\ active' \in [Workflows -> Items \cup {NoItem}]
        /\ UNCHANGED <<generation, completedIds, pendingIds>>
    BY <2>1 DEF RecordBlock, ClearActive, ledgerVars, TypeOK
  <2> QED BY <2>2, <2>3, <2>4 DEF TypeOK
<1>4. ASSUME NEW i \in Items, Resolves(i) \/ Repairs(i) PROVE Goal
  <2>1. PICK s \in StoredState : SetState(i, s)
    BY <1>4 DEF Resolves, Repairs, StoredState, QueueWorkItemState, ELIGIBLE_STATES, TypeOK
  <2>2. state' \in [Items -> StoredState] /\ version' \in [Items -> Nat]
    BY <2>1, SetStateEffect
  <2> QED BY <1>4, <2>2 DEF Resolves, Repairs, ledgerVars, TypeOK
<1>5. ASSUME NEW i \in Items, MarkCompleted(i) PROVE Goal
  <2>1. SetState(i, "COMPLETED") /\ "COMPLETED" \in StoredState
    BY <1>5 DEF MarkCompleted, StoredState, QueueWorkItemState, TERMINAL_STATES
  <2>2. state' \in [Items -> StoredState] /\ version' \in [Items -> Nat]
    BY <2>1, SetStateEffect
  <2>3. /\ active' \in [Workflows -> Items \cup {NoItem}]
        /\ completedIds' \in [Workflows -> SUBSET Items]
        /\ pendingIds' \in [Workflows -> SUBSET Items]
    BY <1>5 DEF MarkCompleted, Recount, ItemsOf, TypeOK
  <2> QED BY <1>5, <2>2, <2>3 DEF MarkCompleted, TypeOK
<1> QED BY <1>1, <1>2, <1>3, <1>4, <1>5 DEF RowStep

(* A queue nobody has used is well typed.                                  *)
LEMMA InitType == Init => TypeOK
  BY BacklogAssumption
  DEF Init, TypeOK, StoredState, QueueWorkItemState, ELIGIBLE_STATES,
      PersistentWorkflowState

(* The stored rows, and the evidence callers hold, are always well typed.  *)
THEOREM TypeCorrect == Spec => []TypeOK
<1>1. Init => TypeOK
  BY InitType
<1>2. TypeOK /\ [Next]_vars => TypeOK'
  BY StepCases, EvidenceType, RowType DEF TypeOK
<1> QED BY <1>1, <1>2, PTL DEF Spec

----------------------------------------------------------------------------
(* Mutual exclusion: the active task is the RUNNING item.                  *)

(* ActiveTaskIsRunning item by item.                                       *)
ActiveIffRunning ==
    /\ \A i \in Items : state[i] = "RUNNING" <=> active[wfOf[i]] = i
    /\ \A w \in Workflows : active[w] \in Items => wfOf[active[w]] = w

(* Stated item by item, the active task is RUNNING and a RUNNING item is   *)
(* the active task: what a step about one item can be checked against.     *)
LEMMA ActivePointwise ==
    ASSUME TypeOK
    PROVE  ActiveTaskIsRunning <=> ActiveIffRunning
<1> USE BacklogAssumption
<1>1. ASSUME ActiveTaskIsRunning PROVE ActiveIffRunning
  <2>1. ASSUME NEW i \in Items PROVE state[i] = "RUNNING" <=> active[wfOf[i]] = i
    <3>1. state[i] = "RUNNING" <=> i \in Running(wfOf[i])
      BY DEF Running, ItemsOf
    <3>2. i \in Running(wfOf[i]) <=> active[wfOf[i]] = i
      BY <1>1 DEF ActiveTaskIsRunning
    <3> QED BY <3>1, <3>2
  <2>2. ASSUME NEW w \in Workflows, active[w] \in Items PROVE wfOf[active[w]] = w
    BY <1>1, <2>2 DEF ActiveTaskIsRunning, Running, ItemsOf
  <2> QED BY <2>1, <2>2 DEF ActiveIffRunning
<1>2. ASSUME ActiveIffRunning PROVE ActiveTaskIsRunning
  <2> SUFFICES ASSUME NEW w \in Workflows
               PROVE  Running(w) = IF active[w] = NoItem THEN {} ELSE {active[w]}
    BY DEF ActiveTaskIsRunning
  <2>1. active[w] \in Items \cup {NoItem}
    BY DEF TypeOK
  <2>2. \A i \in Items : i \in Running(w) <=> active[w] = i
    BY <1>2 DEF ActiveIffRunning, Running, ItemsOf
  <2>3. Running(w) \subseteq Items
    BY DEF Running, ItemsOf
  <2> QED BY <2>1, <2>2, <2>3
<1> QED BY <1>1, <1>2

(* The same of the state after a step.                                     *)
LEMMA ActivePointwiseNext == TypeOK' /\ ActiveIffRunning' => ActiveTaskIsRunning'
<1>1. TypeOK /\ ActiveIffRunning => ActiveTaskIsRunning
  BY ActivePointwise
<1> QED BY <1>1, PTL

(* Starting, blocking, resolving, repairing and completing an item keep    *)
(* the active task and the RUNNING item together.                          *)
LEMMA ActiveStep ==
    ASSUME TypeOK, ActiveIffRunning, RowStep
    PROVE  ActiveIffRunning'
<1> USE BacklogAssumption DEF ActiveIffRunning
<1>0. active \in [Workflows -> Items \cup {NoItem}]
  BY DEF TypeOK
<1>1. CASE Rests
  BY <1>1 DEF Rests, itemVars
<1>2. ASSUME NEW i \in Items, Starts(i) PROVE ActiveIffRunning'
  <2>1. \A j \in Items : state'[j] = IF j = i THEN "RUNNING" ELSE state[j]
    BY <1>2, SetStateEffect
    DEF Starts, MarkStarted, StoredState, QueueWorkItemState
  <2>2. active' = [active EXCEPT ![wfOf[i]] = i]
    BY <1>2 DEF Starts, MarkStarted
  <2>3. \A j \in Items : wfOf[j] = wfOf[i] => state[j] # "RUNNING"
    BY <1>2 DEF Starts, Running, ItemsOf
  <2> QED BY <1>0, <2>1, <2>2, <2>3
<1>3. ASSUME NEW i \in Items, NEW s \in BLOCKED_STATES, Blocks(i, s) PROVE ActiveIffRunning'
  <2>1. \A j \in Items : state'[j] = IF j = i THEN s ELSE state[j]
    BY <1>3, SetStateEffect DEF Blocks, RecordBlock, StoredState, QueueWorkItemState
  <2>2. active' = [active EXCEPT ![wfOf[i]] = NoItem]
    BY <1>3 DEF Blocks, RecordBlock, ClearActive
  <2>3. \A j \in Items : wfOf[j] = wfOf[i] /\ j # i => state[j] # "RUNNING"
    BY <1>3 DEF Blocks, Running, ItemsOf
  <2>4. s # "RUNNING"
    BY DEF BLOCKED_STATES
  <2> QED BY <1>0, <2>1, <2>2, <2>3, <2>4
<1>4. ASSUME NEW i \in Items, Resolves(i) \/ Repairs(i) PROVE ActiveIffRunning'
  <2>1. PICK s \in BLOCKED_STATES \cup {"READY_TO_RESUME"} : SetState(i, s)
    BY <1>4 DEF Resolves, Repairs, InState
  <2>2. \A j \in Items : state'[j] = IF j = i THEN s ELSE state[j]
    BY <2>1, SetStateEffect DEF StoredState, QueueWorkItemState, ELIGIBLE_STATES
  <2>3. s # "RUNNING" /\ state[i] # "RUNNING" /\ active' = active
    BY <1>4 DEF Resolves, Repairs, InState, BLOCKED_STATES
  <2> QED BY <2>2, <2>3
<1>5. ASSUME NEW i \in Items, MarkCompleted(i) PROVE ActiveIffRunning'
  <2>1. \A j \in Items : state'[j] = IF j = i THEN "COMPLETED" ELSE state[j]
    BY <1>5, SetStateEffect
    DEF MarkCompleted, StoredState, QueueWorkItemState, TERMINAL_STATES
  <2>2. active' = [active EXCEPT ![wfOf[i]] = IF @ = i THEN NoItem ELSE @]
    BY <1>5 DEF MarkCompleted
  <2> QED BY <1>0, <2>1, <2>2
<1> QED BY <1>1, <1>2, <1>3, <1>4, <1>5 DEF RowStep

(* In every workflow the active task is the RUNNING item, and so at most   *)
(* one item of a workflow is RUNNING.                                      *)
THEOREM ActiveTask == Spec => [](ActiveTaskIsRunning /\ OneRunningPerWorkflow)
<1>1. Init => ActiveIffRunning
  BY BacklogAssumption DEF Init, ActiveIffRunning
<1>2. TypeOK /\ ActiveIffRunning /\ [Next]_vars => ActiveIffRunning'
  BY StepCases, ActiveStep
<1>3. TypeOK /\ ActiveIffRunning => ActiveTaskIsRunning /\ OneRunningPerWorkflow
  <2> SUFFICES ASSUME TypeOK, ActiveIffRunning
               PROVE  ActiveTaskIsRunning /\ OneRunningPerWorkflow
    OBVIOUS
  <2>1. OneRunningPerWorkflow
    BY DEF ActiveIffRunning, OneRunningPerWorkflow
  <2> QED BY <2>1, ActivePointwise
<1> QED BY <1>1, <1>2, <1>3, TypeCorrect, PTL DEF Spec

----------------------------------------------------------------------------
(* Completed work and dependencies.                                        *)

(* No step writes the row of a COMPLETED item.                             *)
LEMMA CompletedUntouched ==
    ASSUME TypeOK, RowStep, NEW i \in Items, state[i] = "COMPLETED"
    PROVE  UNCHANGED <<state[i], version[i], generation[i], current[i]>>
<1> DEFINE Goal == UNCHANGED <<state[i], version[i], generation[i], current[i]>>
<1>1. CASE Rests
  BY <1>1 DEF Rests, itemVars
<1>2. ASSUME NEW j \in Items, Starts(j) PROVE Goal
  BY <1>2 DEF Starts, MarkStarted, SetState, InState, ELIGIBLE_STATES, TypeOK
<1>3. ASSUME NEW j \in Items, NEW s \in BLOCKED_STATES, Blocks(j, s) PROVE Goal
  <2>1. j # i
    BY <1>3 DEF Blocks, InState, ELIGIBLE_STATES
  <2>2. state'[i] = state[i] /\ version'[i] = version[i]
    BY <1>3, <2>1 DEF Blocks, RecordBlock, SetState, TypeOK
  <2>3. generation' = generation /\ current'[i] = current[i]
    BY <1>3, <2>1 DEF Blocks, RecordBlock, StoreCheckpoint, TypeOK
  <2> QED BY <2>2, <2>3
<1>4. ASSUME NEW j \in Items, Resolves(j) \/ Repairs(j) PROVE Goal
  BY <1>4 DEF Resolves, Repairs, SetState, InState, BLOCKED_STATES, TypeOK
<1>5. ASSUME NEW j \in Items, MarkCompleted(j) PROVE Goal
  BY <1>5 DEF MarkCompleted, Completable, SetState, InState, TypeOK
<1> QED BY <1>1, <1>2, <1>3, <1>4, <1>5 DEF RowStep

(* No operation begins an item whose dependencies are not COMPLETED, and   *)
(* none takes a COMPLETED dependency away from an item that has begun.     *)
LEMMA DependenciesStep ==
    ASSUME TypeOK, StartedAfterDependencies, RowStep
    PROVE  StartedAfterDependencies'
<1> USE BacklogAssumption
<1> DEFINE Begun(i) == \/ generation[i] > 0
                       \/ InState(i, BLOCKED_STATES \cup
                                        {"RUNNING", "READY_TO_RESUME", "COMPLETED"})
           Met(i) == \A d \in deps[i] : wfOf[d] = wfOf[i] /\ state[d] = "COMPLETED"
<1>1. \A i \in Items : Begun(i) => Met(i)
  BY DEF StartedAfterDependencies
<1>2. ASSUME NEW i \in Items, Met(i) PROVE Met(i)'
  BY <1>2, CompletedUntouched
<1>3. ASSUME NEW i \in Items, Begun(i)', ~Begun(i) PROVE Met(i)
  <2>1. CASE Rests
    BY <1>3, <2>1 DEF Rests, itemVars, InState
  <2>2. ASSUME NEW j \in Items, Starts(j) PROVE Met(i)
    <3>1. j = i
      BY <1>3, <2>2 DEF Starts, MarkStarted, SetState, InState, TypeOK
    <3> QED BY <2>2, <3>1 DEF Starts, DependenciesMet
  <2>3. ASSUME NEW j \in Items, NEW s \in BLOCKED_STATES, Blocks(j, s) PROVE Met(i)
    <3>1. j = i
      BY <1>3, <2>3 DEF Blocks, RecordBlock, SetState, InState, TypeOK
    <3>2. state[i] # "RUNNING"
      BY <1>3 DEF InState
    <3> QED BY <2>3, <3>1, <3>2 DEF Blocks, DependenciesMet
  <2>4. ASSUME NEW j \in Items, Resolves(j) \/ Repairs(j) PROVE Met(i)
    BY <1>3, <2>4 DEF Resolves, Repairs, SetState, InState, TypeOK
  <2>5. ASSUME NEW j \in Items, MarkCompleted(j) PROVE Met(i)
    BY <1>3, <2>5 DEF MarkCompleted, Completable, SetState, InState, TypeOK
  <2> QED BY <2>1, <2>2, <2>3, <2>4, <2>5 DEF RowStep
<1>4. \A i \in Items : Begun(i)' => Met(i)'
  BY <1>1, <1>2, <1>3
<1> QED BY <1>4 DEF StartedAfterDependencies

(* Nothing has run, is blocked or is completed before its dependencies.    *)
THEOREM Dependencies == Spec => []StartedAfterDependencies
<1>1. Init => StartedAfterDependencies
  BY DEF Init, StartedAfterDependencies, InState, BLOCKED_STATES
<1>2. TypeOK /\ StartedAfterDependencies /\ [Next]_vars => StartedAfterDependencies'
  BY StepCases, DependenciesStep
<1> QED BY <1>1, <1>2, TypeCorrect, PTL DEF Spec

----------------------------------------------------------------------------
(* The ledgers.  No operation of the queue makes an item FAILED, which is  *)
(* why the pending ledger is the rest of the backlog.                      *)

NothingFailed == \A i \in Items : state[i] # "FAILED"

(* complete_item rewrites the ledgers of one workflow; the other           *)
(* operations move items only among the states that are pending.           *)
LEMMA LedgerStep ==
    ASSUME TypeOK, LedgerIsExact, NothingFailed, RowStep
    PROVE  LedgerIsExact' /\ NothingFailed'
<1> USE BacklogAssumption
<1> DEFINE Goal == LedgerIsExact' /\ NothingFailed'
<1>0. ASSUME NEW i \in Items, NEW s \in StoredState, SetState(i, s),
             state[i] # "COMPLETED", s \notin TERMINAL_STATES, UNCHANGED ledgerVars
      PROVE  Goal
  <2>1. \A j \in Items : state'[j] = IF j = i THEN s ELSE state[j]
    BY <1>0, SetStateEffect
  <2>2. NothingFailed'
    BY <1>0, <2>1 DEF NothingFailed, TERMINAL_STATES
  <2>3. \A j \in Items : state'[j] = "COMPLETED" <=> state[j] = "COMPLETED"
    BY <1>0, <2>1 DEF TERMINAL_STATES
  <2>4. LedgerIsExact'
    BY <1>0, <2>3 DEF LedgerIsExact, ItemsOf, ledgerVars
  <2> QED BY <2>2, <2>4
<1>1. CASE Rests
  BY <1>1 DEF Rests, itemVars, ledgerVars, LedgerIsExact, NothingFailed, ItemsOf
<1>2. ASSUME NEW i \in Items, Starts(i) PROVE Goal
  BY <1>0, <1>2 DEF Starts, MarkStarted, InState, ELIGIBLE_STATES,
                    TERMINAL_STATES, StoredState, QueueWorkItemState
<1>3. ASSUME NEW i \in Items, NEW s \in BLOCKED_STATES, Blocks(i, s) PROVE Goal
  BY <1>0, <1>3 DEF Blocks, RecordBlock, InState, ELIGIBLE_STATES, BLOCKED_STATES,
                    TERMINAL_STATES, StoredState, QueueWorkItemState
<1>4. ASSUME NEW i \in Items, Resolves(i) \/ Repairs(i) PROVE Goal
  BY <1>0, <1>4 DEF Resolves, Repairs, InState, ELIGIBLE_STATES, BLOCKED_STATES,
                    TERMINAL_STATES, StoredState, QueueWorkItemState
<1>5. ASSUME NEW i \in Items, MarkCompleted(i) PROVE Goal
  <2>1. \A j \in Items : state'[j] = IF j = i THEN "COMPLETED" ELSE state[j]
    BY <1>5, SetStateEffect
    DEF MarkCompleted, StoredState, QueueWorkItemState, TERMINAL_STATES
  <2>2. /\ completedIds' = [completedIds EXCEPT ![wfOf[i]] =
                              {j \in ItemsOf(wfOf[i]) : state'[j] = "COMPLETED"}]
        /\ pendingIds' = [pendingIds EXCEPT ![wfOf[i]] =
                              {j \in ItemsOf(wfOf[i]) : state'[j] \notin TERMINAL_STATES}]
    BY <1>5 DEF MarkCompleted, Recount
  <2>3. NothingFailed'
    BY <2>1 DEF NothingFailed
  <2>4. ASSUME NEW w \in Workflows
        PROVE  /\ completedIds'[w] = {j \in ItemsOf(w) : state'[j] = "COMPLETED"}
               /\ completedIds'[w] # {} => pendingIds'[w] = ItemsOf(w) \ completedIds'[w]
    <3>1. CASE w = wfOf[i]
      <4>1. /\ completedIds'[w] = {j \in ItemsOf(w) : state'[j] = "COMPLETED"}
            /\ pendingIds'[w] = {j \in ItemsOf(w) : state'[j] \notin TERMINAL_STATES}
        BY <2>2, <3>1 DEF TypeOK
      <4>2. \A j \in ItemsOf(w) : state'[j] \in TERMINAL_STATES <=> state'[j] = "COMPLETED"
        BY <2>3 DEF NothingFailed, TERMINAL_STATES, ItemsOf
      <4> QED BY <4>1, <4>2
    <3>2. CASE w # wfOf[i]
      <4>1. completedIds'[w] = completedIds[w] /\ pendingIds'[w] = pendingIds[w]
        BY <2>2, <3>2 DEF TypeOK
      <4>2. \A j \in ItemsOf(w) : state'[j] = state[j]
        BY <2>1, <3>2 DEF ItemsOf
      <4> QED BY <4>1, <4>2 DEF LedgerIsExact
    <3> QED BY <3>1, <3>2
  <2> QED BY <2>3, <2>4 DEF LedgerIsExact, ItemsOf
<1> QED BY <1>1, <1>2, <1>3, <1>4, <1>5 DEF RowStep

(* completed_task_ids and pending_task_ids always agree with the backlog.  *)
THEOREM Ledger == Spec => []LedgerIsExact
<1>1. Init => LedgerIsExact /\ NothingFailed
  BY DEF Init, LedgerIsExact, NothingFailed, ItemsOf
<1>2. TypeOK /\ LedgerIsExact /\ NothingFailed /\ [Next]_vars
        => LedgerIsExact' /\ NothingFailed'
  BY StepCases, LedgerStep
<1> QED BY <1>1, <1>2, TypeCorrect, PTL DEF Spec

(* Completed work stays completed and stays in the ledger.                 *)
THEOREM CompletedIsFinal == Spec => CompletedStaysCompleted
<1>1. TypeOK /\ LedgerIsExact' /\ [Next]_vars =>
        [ \A i \in Items : state[i] = "COMPLETED" =>
            /\ UNCHANGED <<state[i], version[i], generation[i], current[i]>>
            /\ i \in completedIds'[wfOf[i]] ]_vars
  BY StepCases, CompletedUntouched, BacklogAssumption DEF LedgerIsExact, ItemsOf
<1> QED BY <1>1, TypeCorrect, Ledger, PTL DEF Spec, CompletedStaysCompleted

----------------------------------------------------------------------------
(* Checkpoints.                                                            *)

(* A block makes its own checkpoint the current one; a resume or a repair  *)
(* advances the version past it; a start and a completion leave the states *)
(* that the invariant is about.                                            *)
LEMMA CheckpointStep ==
    ASSUME TypeOK, BlockedByCurrentCheckpoint, RowStep
    PROVE  BlockedByCurrentCheckpoint'
<1> DEFINE Sound(i) ==
        InState(i, BLOCKED_STATES \cup {"READY_TO_RESUME"}) =>
            /\ current[i] # 0
            /\ checkpoints[current[i]].item = i
            /\ checkpoints[current[i]].version < version[i]
            /\ InState(i, BLOCKED_STATES) => checkpoints[current[i]].blocking = state[i]
            /\ \A c \in 1..Len(checkpoints) : checkpoints[c].item = i => c <= current[i]
<1> SUFFICES ASSUME NEW j \in Items PROVE Sound(j)'
  BY DEF BlockedByCurrentCheckpoint
<1>0. Sound(j)
  BY DEF BlockedByCurrentCheckpoint
<1>a. /\ current[j] \in 0..Len(checkpoints) /\ Len(checkpoints) \in Nat
      /\ checkpoints \in Seq(Checkpoint) /\ version[j] \in Nat
  BY DEF TypeOK
<1>b. current[j] # 0 => checkpoints[current[j]].version \in Nat
  <2>1. current[j] # 0 => checkpoints[current[j]] \in Checkpoint
    BY <1>a
  <2>2. \A c \in Checkpoint : c.version \in Nat
    BY DEF Checkpoint
  <2> QED BY <2>1, <2>2
<1>1. CASE Rests
  BY <1>0, <1>1 DEF Rests, itemVars, InState
<1>2. ASSUME NEW i \in Items, Starts(i) PROVE Sound(j)'
  <2>1. \A k \in Items : /\ state'[k] = IF k = i THEN "RUNNING" ELSE state[k]
                         /\ version'[k] = IF k = i THEN version[k] + 1 ELSE version[k]
    BY <1>2, SetStateEffect DEF Starts, MarkStarted, StoredState, QueueWorkItemState
  <2>2. UNCHANGED <<current, checkpoints>>
    BY <1>2 DEF Starts, MarkStarted
  <2> QED BY <1>0, <2>1, <2>2 DEF InState, BLOCKED_STATES
<1>3. ASSUME NEW i \in Items, NEW s \in BLOCKED_STATES, Blocks(i, s) PROVE Sound(j)'
  <2>1. RecordBlock(i, s) /\ SetState(i, s) /\ s \in StoredState
    BY <1>3 DEF Blocks, RecordBlock, StoredState, QueueWorkItemState
  <2>2. \A k \in Items : /\ state'[k] = IF k = i THEN s ELSE state[k]
                         /\ version'[k] = IF k = i THEN version[k] + 1 ELSE version[k]
    BY <2>1, SetStateEffect
  <2>3. /\ Len(checkpoints') = Len(checkpoints) + 1
        /\ \A k \in 1..Len(checkpoints) : checkpoints'[k] = checkpoints[k]
        /\ checkpoints'[Len(checkpoints) + 1] =
              [item |-> i, prior |-> state[i], blocking |-> s, version |-> version[i]]
        /\ \A k \in Items : current'[k] = IF k = i THEN Len(checkpoints) + 1 ELSE current[k]
    BY <2>1, RecordBlockEffect
  <2>4. CASE j = i
    BY <1>a, <2>2, <2>3, <2>4
  <2>5. CASE j # i
    <3>1. state'[j] = state[j] /\ version'[j] = version[j] /\ current'[j] = current[j]
      BY <2>2, <2>3, <2>5
    <3>2. current[j] # 0 => checkpoints'[current[j]] = checkpoints[current[j]]
      BY <1>a, <2>3
    <3>3. ASSUME NEW c \in 1..Len(checkpoints'), checkpoints'[c].item = j
          PROVE  c \in 1..Len(checkpoints) /\ checkpoints[c].item = j
      BY <1>a, <2>3, <2>5, <3>3
    <3> QED BY <1>0, <3>1, <3>2, <3>3 DEF InState
  <2> QED BY <2>4, <2>5
<1>4. ASSUME NEW i \in Items, Resolves(i) \/ Repairs(i) PROVE Sound(j)'
  <2>1. PICK s \in {"READY_TO_RESUME", state[i]} : SetState(i, s)
    BY <1>4 DEF Resolves, Repairs
  <2>2. \A k \in Items : /\ state'[k] = IF k = i THEN s ELSE state[k]
                         /\ version'[k] = IF k = i THEN version[k] + 1 ELSE version[k]
    BY <2>1, SetStateEffect DEF TypeOK, StoredState, QueueWorkItemState, ELIGIBLE_STATES
  <2>3. UNCHANGED <<current, checkpoints>> /\ InState(i, BLOCKED_STATES)
    BY <1>4 DEF Resolves, Repairs
  <2> QED BY <1>0, <1>a, <1>b, <2>2, <2>3 DEF InState, BLOCKED_STATES
<1>5. ASSUME NEW i \in Items, MarkCompleted(i) PROVE Sound(j)'
  <2>1. \A k \in Items : /\ state'[k] = IF k = i THEN "COMPLETED" ELSE state[k]
                         /\ version'[k] = IF k = i THEN version[k] + 1 ELSE version[k]
    BY <1>5, SetStateEffect
    DEF MarkCompleted, StoredState, QueueWorkItemState, TERMINAL_STATES
  <2>2. UNCHANGED <<current, checkpoints>>
    BY <1>5 DEF MarkCompleted
  <2> QED BY <1>0, <2>1, <2>2 DEF InState, BLOCKED_STATES
<1> QED BY <1>1, <1>2, <1>3, <1>4, <1>5 DEF RowStep

(* Every blocked or resumable item is described by its newest checkpoint.  *)
THEOREM Checkpoints == Spec => []BlockedByCurrentCheckpoint
<1>1. Init => BlockedByCurrentCheckpoint
  BY DEF Init, BlockedByCurrentCheckpoint, InState, BLOCKED_STATES
<1>2. TypeOK /\ BlockedByCurrentCheckpoint /\ [Next]_vars => BlockedByCurrentCheckpoint'
  BY StepCases, CheckpointStep
<1> QED BY <1>1, <1>2, TypeCorrect, PTL DEF Spec

----------------------------------------------------------------------------
(* Optimistic concurrency: an item's version identifies its row.           *)

(* Versions never decrease, and an item whose version is kept is kept.     *)
LEMMA VersionStampsTheRow ==
    ASSUME TypeOK, RowStep, NEW i \in Items
    PROVE  /\ version'[i] >= version[i]
           /\ version'[i] = version[i] => state'[i] = state[i] /\ current'[i] = current[i]
<1> DEFINE Goal == /\ version'[i] >= version[i]
                   /\ version'[i] = version[i] =>
                        state'[i] = state[i] /\ current'[i] = current[i]
<1>0. version[i] \in Nat
  BY DEF TypeOK
<1>1. CASE Rests
  BY <1>0, <1>1 DEF Rests, itemVars
<1>2. ASSUME NEW j \in Items, Starts(j) PROVE Goal
  BY <1>0, <1>2 DEF Starts, MarkStarted, SetState, TypeOK
<1>3. ASSUME NEW j \in Items, NEW s \in BLOCKED_STATES, Blocks(j, s) PROVE Goal
  <2>1. SetState(j, s)
    BY <1>3 DEF Blocks, RecordBlock
  <2>2. current' = [current EXCEPT ![j] = Len(checkpoints) + 1]
    BY <1>3 DEF Blocks, RecordBlock, StoreCheckpoint
  <2>3. state \in [Items -> StoredState] /\ version \in [Items -> Nat]
        /\ current \in [Items -> 0..Len(checkpoints)]
    BY DEF TypeOK
  <2> QED BY <1>0, <2>1, <2>2, <2>3 DEF SetState
<1>4. ASSUME NEW j \in Items, Resolves(j) \/ Repairs(j) PROVE Goal
  BY <1>0, <1>4 DEF Resolves, Repairs, SetState, TypeOK
<1>5. ASSUME NEW j \in Items, MarkCompleted(j) PROVE Goal
  BY <1>0, <1>5 DEF MarkCompleted, SetState, TypeOK
<1> QED BY <1>1, <1>2, <1>3, <1>4, <1>5 DEF RowStep

(* What callers hold was read at a version the item really had.            *)
EvidenceIsPast ==
    /\ pick # NoPick => pick.item \in Items /\ pick.version <= version[pick.item]
    /\ ticket # NoTicket =>
            /\ ticket.item \in Items
            /\ ticket.version \in Nat
            /\ ticket.version <= version[ticket.item]

(* A caller's evidence changes only when it is read afresh.                *)
LEMMA EvidenceStep ==
    ASSUME [Next]_vars
    PROVE  /\ \/ pick' = pick
              \/ \E i \in Items : pick' = [item |-> i, version |-> version[i]]
                                  /\ version' = version
           /\ \/ ticket' = ticket
              \/ \E i \in Items :
                    /\ ticket' = [item |-> i, checkpoint |-> current[i],
                                  version |-> version[i]]
                    /\ version' = version
<1>1. CASE UNCHANGED vars
  BY <1>1 DEF vars
<1>2. CASE Next
  BY <1>2 DEF Next, StartNext, AttachPlan, Pause, TakePick, StartPick, BlockRunningItem,
              BlockDispatchSelectedItem, TakeTicket, CompleteItem, ResolveBlocker,
              RepairBlockedItem, queueVars, itemVars
<1> QED BY <1>1, <1>2

(* Evidence names a version the item has had: it was read from the row,    *)
(* and versions only grow.                                                 *)
LEMMA EvidenceIsPastStep ==
    ASSUME TypeOK, TypeOK', EvidenceIsPast, [Next]_vars
    PROVE  EvidenceIsPast'
<1>1. \A i \in Items : version'[i] >= version[i] /\ version[i] \in Nat /\ version'[i] \in Nat
  BY StepCases, VersionStampsTheRow DEF TypeOK
<1>2. pick' # NoPick => pick'.item \in Items /\ pick'.version <= version'[pick'.item]
  <2>1. CASE pick' = pick
    <3>1. pick # NoPick => pick.version \in Nat
      BY DEF TypeOK, Pick
    <3> QED BY <1>1, <2>1, <3>1 DEF EvidenceIsPast
  <2>2. CASE \E i \in Items : pick' = [item |-> i, version |-> version[i]]
                              /\ version' = version
    BY <1>1, <2>2
  <2> QED BY <2>1, <2>2, EvidenceStep
<1>3. ticket' # NoTicket => /\ ticket'.item \in Items
                            /\ ticket'.version \in Nat
                            /\ ticket'.version <= version'[ticket'.item]
  <2>1. CASE ticket' = ticket
    BY <1>1, <2>1 DEF EvidenceIsPast
  <2>2. CASE \E i \in Items : /\ ticket' = [item |-> i, checkpoint |-> current[i],
                                              version |-> version[i]]
                              /\ version' = version
    BY <1>1, <2>2
  <2> QED BY <2>1, <2>2, EvidenceStep
<1> QED BY <1>2, <1>3 DEF EvidenceIsPast

(* A ticket or a pick the queue would refuse is refused for ever.          *)
THEOREM StaleEvidence == Spec => StaleEvidenceStaysStale
<1> DEFINE Stale ==
        /\ ticket' = ticket /\ ticket # NoTicket /\ ~TicketAccepted(ticket)
            => ~TicketAccepted(ticket)'
        /\ pick' = pick /\ pick # NoPick /\ version[pick.item] # pick.version
            => version'[pick.item] # pick.version
<1>1. Init => EvidenceIsPast
  BY DEF Init, EvidenceIsPast
<1>2. TypeOK /\ TypeOK' /\ EvidenceIsPast /\ [Next]_vars => EvidenceIsPast'
  BY EvidenceIsPastStep
<1>3. ASSUME TypeOK, EvidenceIsPast, [Next]_vars
      PROVE  Stale
  <2>1. \A i \in Items : /\ version[i] \in Nat
                         /\ version'[i] \in Nat
                         /\ version'[i] >= version[i]
                         /\ version'[i] = version[i] =>
                              state'[i] = state[i] /\ current'[i] = current[i]
    BY <1>3, StepCases, RowType, VersionStampsTheRow DEF TypeOK
  <2>2. ASSUME ticket' = ticket, ticket # NoTicket, TicketAccepted(ticket)'
        PROVE  TicketAccepted(ticket)
    <3>1. ticket.item \in Items /\ ticket.version <= version[ticket.item]
          /\ ticket.version \in Nat
      BY <1>3, <2>2 DEF EvidenceIsPast
    <3>2. version'[ticket.item] = ticket.version
      BY <2>2 DEF TicketAccepted
    <3>3. version'[ticket.item] = version[ticket.item]
      BY <2>1, <3>1, <3>2
    <3> QED BY <2>1, <2>2, <3>1, <3>2, <3>3 DEF TicketAccepted, InState
  <2>3. ASSUME pick' = pick, pick # NoPick, version[pick.item] # pick.version
        PROVE  version'[pick.item] # pick.version
    <3>1. pick.item \in Items /\ pick.version <= version[pick.item] /\ pick.version \in Nat
      BY <1>3, <2>3 DEF EvidenceIsPast, TypeOK, Pick
    <3> QED BY <2>1, <2>3, <3>1
  <2> QED BY <2>2, <2>3
<1>4. TypeOK /\ EvidenceIsPast /\ [Next]_vars => [Stale]_vars
  BY <1>3
<1> QED BY <1>1, <1>2, <1>4, TypeCorrect, PTL DEF Spec, StaleEvidenceStaysStale

----------------------------------------------------------------------------
(* Refinement: the queue implements the abstract execution slot.           *)

(* A queue nobody has used is a free slot with nothing done.               *)
LEMMA InitRefines == Init => Slot!SlotInit
  BY DEF Init, Slot!SlotInit

(* A start takes the free slot, a block releases it, a completion finishes *)
(* the item, and a resume, a repair or a call that only reads stutters.    *)
LEMMA StepRefines ==
    ASSUME TypeOK, ActiveIffRunning, StartedAfterDependencies, RowStep
    PROVE  [Slot!SlotNext]_(Slot!slotVars)
<1> USE BacklogAssumption
<1> DEFINE done == {i \in Items : state[i] = "COMPLETED"}
           Goal == [Slot!SlotNext]_(Slot!slotVars)
<1>0. active \in [Workflows -> Items \cup {NoItem}]
  BY DEF TypeOK
<1>1. CASE Rests
  BY <1>1 DEF Rests, itemVars, Slot!slotVars
<1>2. ASSUME NEW i \in Items, Starts(i) PROVE Goal
  <2>1. \A j \in Items : state'[j] = IF j = i THEN "RUNNING" ELSE state[j]
    BY <1>2, SetStateEffect DEF Starts, MarkStarted, StoredState, QueueWorkItemState
  <2>2. state[i] # "COMPLETED" /\ deps[i] \subseteq done
    BY <1>2 DEF Starts, InState, ELIGIBLE_STATES, DependenciesMet
  <2>3. done' = done
    BY <2>1, <2>2
  <2>4. active[wfOf[i]] = NoItem
    <3>1. active[wfOf[i]] \notin Items
      BY <1>2 DEF Starts, Running, ItemsOf, ActiveIffRunning
    <3> QED BY <1>0, <3>1
  <2>5. active' = [active EXCEPT ![wfOf[i]] = i]
    BY <1>2 DEF Starts, MarkStarted
  <2>6. Slot!Acquire(i)
    BY <2>2, <2>3, <2>4, <2>5 DEF Slot!Acquire, Slot!MayProceed
  <2> QED BY <2>6 DEF Slot!SlotNext
<1>3. ASSUME NEW i \in Items, NEW s \in BLOCKED_STATES, Blocks(i, s) PROVE Goal
  <2>1. \A j \in Items : state'[j] = IF j = i THEN s ELSE state[j]
    BY <1>3, SetStateEffect DEF Blocks, RecordBlock, StoredState, QueueWorkItemState
  <2>2. state[i] # "COMPLETED" /\ s # "COMPLETED"
    BY <1>3 DEF Blocks, InState, ELIGIBLE_STATES, BLOCKED_STATES
  <2>3. done' = done
    BY <2>1, <2>2
  <2>4. active' = [active EXCEPT ![wfOf[i]] = NoItem]
    BY <1>3 DEF Blocks, RecordBlock, ClearActive
  <2>5. CASE active[wfOf[i]] = NoItem
    <3>1. active' = active
      BY <1>0, <2>4, <2>5
    <3> QED BY <2>3, <3>1 DEF Slot!slotVars
  <2>6. CASE active[wfOf[i]] # NoItem
    <3>1. Slot!Release(wfOf[i])
      BY <2>3, <2>4, <2>6 DEF Slot!Release
    <3> QED BY <3>1 DEF Slot!SlotNext
  <2> QED BY <2>5, <2>6
<1>4. ASSUME NEW i \in Items, Resolves(i) \/ Repairs(i) PROVE Goal
  <2>1. PICK s \in BLOCKED_STATES \cup {"READY_TO_RESUME"} : SetState(i, s)
    BY <1>4 DEF Resolves, Repairs, InState
  <2>2. \A j \in Items : state'[j] = IF j = i THEN s ELSE state[j]
    BY <2>1, SetStateEffect DEF StoredState, QueueWorkItemState, ELIGIBLE_STATES
  <2>3. s # "COMPLETED" /\ state[i] # "COMPLETED" /\ active' = active
    BY <1>4 DEF Resolves, Repairs, InState, BLOCKED_STATES
  <2>4. done' = done
    BY <2>2, <2>3
  <2> QED BY <2>3, <2>4 DEF Slot!slotVars
<1>5. ASSUME NEW i \in Items, MarkCompleted(i) PROVE Goal
  <2>1. \A j \in Items : state'[j] = IF j = i THEN "COMPLETED" ELSE state[j]
    BY <1>5, SetStateEffect
    DEF MarkCompleted, StoredState, QueueWorkItemState, TERMINAL_STATES
  <2>2. state[i] # "COMPLETED" /\ deps[i] \subseteq done
    BY <1>5 DEF MarkCompleted, Completable, InState, StartedAfterDependencies
  <2>3. done' = done \cup {i}
    BY <2>1
  <2>4. active' = [active EXCEPT ![wfOf[i]] = IF @ = i THEN NoItem ELSE @]
    BY <1>5 DEF MarkCompleted
  <2>5. Slot!Finish(i)
    BY <2>2, <2>3, <2>4 DEF Slot!Finish, Slot!MayProceed
  <2> QED BY <2>5 DEF Slot!SlotNext
<1> QED BY <1>1, <1>2, <1>3, <1>4, <1>5 DEF RowStep

(* Every behaviour of the queue is one of the abstract slot: items take a  *)
(* free slot, only after their dependencies, and never again once done.    *)
THEOREM Refinement == Spec => ImplementsExecutionSlot
<1>1. Init => ActiveIffRunning
  BY BacklogAssumption DEF Init, ActiveIffRunning
<1>2. TypeOK /\ ActiveIffRunning /\ [Next]_vars => ActiveIffRunning'
  BY StepCases, ActiveStep
<1>3. TypeOK /\ ActiveIffRunning /\ StartedAfterDependencies /\ [Next]_vars
        => [Slot!SlotNext]_(Slot!slotVars)
  BY StepCases, StepRefines
<1> QED
  BY <1>1, <1>2, <1>3, InitRefines, TypeCorrect, Dependencies, PTL
  DEF Spec, ImplementsExecutionSlot, Slot!SlotSpec

----------------------------------------------------------------------------
(* The selection order.                                                    *)

Keys == Nat \X Nat \X Nat \X Nat

(* Two keys that differ somewhere are ordered one way and never both ways. *)
LEMMA KeyOrder ==
    ASSUME NEW s \in Keys, NEW t \in Keys
    PROVE  /\ ~(KeyLess(s, t) /\ KeyLess(t, s))
           /\ s[4] # t[4] => KeyLess(s, t) \/ KeyLess(t, s)
  BY DEF Keys, KeyLess

(* select_next, and select_global_next likewise, never offers two items.   *)
THEOREM SelectionIsUnique ==
    ASSUME TypeOK, NEW i \in Items, NEW j \in Items, NEW S \in SUBSET Items,
           IsFirst(i, S), IsFirst(j, S)
    PROVE  i = j
<1> USE BacklogAssumption, OrderAssumption
<1>1. \A k \in Items : SelectionKey(k) \in Keys
  BY DEF SelectionKey, Keys, PRIORITY_RANK, VALID_PRIORITIES, StateClassRank
<1>2. i # j => KeyLess(SelectionKey(i), SelectionKey(j)) /\ KeyLess(SelectionKey(j), SelectionKey(i))
  BY DEF IsFirst
<1> QED BY <1>1, <1>2, KeyOrder
(* Some item of a set has the least of any stored number: the relation     *)
(* "less" has no infinite descent.                                         *)
LEMMA LeastItem ==
    ASSUME NEW S \in SUBSET Items, S # {}, NEW f \in [Items -> Nat]
    PROVE  \E i \in S : \A j \in S : f[i] <= f[j]
<1> DEFINE less == {r \in Nat \X Nat : r[1] < r[2]}
           T == {f[i] : i \in S}
<1>1. IsWellFoundedOn(less, Nat)
  BY NatLessThanWellFounded DEF OpToRel
<1>2. T \subseteq Nat /\ T # {}
  OBVIOUS
<1>3. \A m, n \in Nat : m < n => <<m, n>> \in less
  OBVIOUS
<1>4. PICK k \in T : \A l \in T : ~ (<<l, k>> \in less)
  <2> HIDE DEF T, less
  <2> QED BY <1>1, <1>2, WFMin
<1>5. PICK i \in S : k = f[i]
  OBVIOUS
<1>6. ASSUME NEW j \in S PROVE f[i] <= f[j]
  <2>1. f[j] \in T /\ f[j] \in Nat /\ f[i] \in Nat
    OBVIOUS
  <2>2. ~ (f[j] < f[i])
    <3> HIDE DEF T, less
    <3> QED BY <1>3, <1>4, <1>5, <2>1
  <2> QED BY <2>1, <2>2
<1> QED BY <1>6

(* Every set of items has a first one: the least place, among the oldest,  *)
(* among those to be resumed first, among the most urgent.                 *)
LEMMA FirstExists ==
    ASSUME TypeOK, NEW S \in SUBSET Items, S # {}
    PROVE  \E i \in Items : IsFirst(i, S)
<1> USE BacklogAssumption, OrderAssumption
<1> DEFINE rank == [i \in Items |-> PRIORITY_RANK[priority[i]]]
           class == [i \in Items |-> StateClassRank(i)]
           S1 == {i \in S : \A j \in S : rank[i] <= rank[j]}
           S2 == {i \in S1 : \A j \in S1 : class[i] <= class[j]}
           S3 == {i \in S2 : \A j \in S2 : createdOrder[i] <= createdOrder[j]}
<1>1. rank \in [Items -> Nat] /\ class \in [Items -> Nat]
  BY DEF PRIORITY_RANK, VALID_PRIORITIES, StateClassRank
<1>2. \A i \in Items : /\ SelectionKey(i)[1] = rank[i]
                       /\ SelectionKey(i)[2] = class[i]
                       /\ SelectionKey(i)[3] = createdOrder[i]
                       /\ SelectionKey(i)[4] = identity[i]
  BY DEF SelectionKey
<1> HIDE DEF rank, class
<1>3. S1 \in SUBSET Items /\ S1 # {}
  BY <1>1, LeastItem
<1>4. S2 \in SUBSET Items /\ S2 # {}
  <2> HIDE DEF S1
  <2> QED BY <1>1, <1>3, LeastItem
<1>5. S3 \in SUBSET Items /\ S3 # {}
  <2> HIDE DEF S2
  <2> QED BY <1>4, LeastItem
<1>6. PICK i \in S3 : \A j \in S3 : identity[i] <= identity[j]
  <2> HIDE DEF S3
  <2> QED BY <1>5, LeastItem
<1>a. \A k \in S1 : rank[k] = rank[i]
  BY <1>1, <1>3
<1>b. \A k \in S2 : class[k] = class[i]
  <2> HIDE DEF S1
  <2> QED BY <1>1, <1>3
<1>c. \A k \in S3 : createdOrder[k] = createdOrder[i]
  <2>1. S2 \subseteq Items
    BY <1>4
  <2> HIDE DEF S2
  <2> QED BY <2>1
<1>7. ASSUME NEW j \in S \ {i}
      PROVE  KeyLess(SelectionKey(i), SelectionKey(j))
  <2> DEFINE s == SelectionKey(i)
             t == SelectionKey(j)
  <2>1. i \in Items /\ j \in Items
    OBVIOUS
  <2>2. /\ rank[i] \in Nat /\ rank[j] \in Nat /\ class[i] \in Nat /\ class[j] \in Nat
        /\ createdOrder[i] \in Nat /\ createdOrder[j] \in Nat
        /\ identity[i] \in Nat /\ identity[j] \in Nat /\ identity[i] # identity[j]
    BY <1>1, <2>1
  <2>3. /\ s[1] = rank[i] /\ s[2] = class[i] /\ s[3] = createdOrder[i] /\ s[4] = identity[i]
        /\ t[1] = rank[j] /\ t[2] = class[j] /\ t[3] = createdOrder[j] /\ t[4] = identity[j]
    BY <1>2, <2>1
  <2> HIDE DEF s, t
  <2>4. CASE j \notin S1
    <3>1. PICK k \in S : ~(rank[j] <= rank[k])
      BY <2>4
    <3>2. rank[i] <= rank[k] /\ rank[k] \in Nat
      BY <1>1
    <3>3. s[1] < t[1]
      BY <2>2, <2>3, <3>1, <3>2
    <3> QED BY <3>3 DEF KeyLess, s, t
  <2>5. CASE j \in S1 /\ j \notin S2
    <3>1. PICK k \in S1 : ~(class[j] <= class[k])
      BY <2>5
    <3>2. class[i] <= class[k] /\ class[k] \in Nat
      BY <1>1
    <3>3. s[1] = t[1] /\ s[2] < t[2]
      BY <1>a, <2>2, <2>3, <2>5, <3>1, <3>2
    <3> QED BY <3>3 DEF KeyLess, s, t
  <2>6. CASE j \in S2 /\ j \notin S3
    <3>1. PICK k \in S2 : ~(createdOrder[j] <= createdOrder[k])
      BY <2>6
    <3>2. createdOrder[i] <= createdOrder[k] /\ createdOrder[k] \in Nat
      OBVIOUS
    <3>3. s[3] < t[3]
      BY <2>2, <2>3, <3>1, <3>2
    <3>4. s[1] = t[1] /\ s[2] = t[2]
      BY <1>a, <1>b, <2>3, <2>6
    <3> QED BY <3>3, <3>4 DEF KeyLess, s, t
  <2>7. CASE j \in S3
    <3>0. identity[i] <= identity[j]
      BY <1>6, <2>7
    <3>1. s[4] < t[4]
      <4> HIDE DEF S1, S2, S3
      <4> QED BY <2>2, <2>3, <3>0
    <3>2. s[1] = t[1] /\ s[2] = t[2] /\ s[3] = t[3]
      BY <1>a, <1>b, <1>c, <2>3, <2>7
    <3> QED BY <3>1, <3>2 DEF KeyLess, s, t
  <2> QED BY <2>4, <2>5, <2>6, <2>7
<1> QED BY <1>6, <1>7 DEF IsFirst

(* With nothing RUNNING and something eligible, select_next yields exactly *)
(* one item, whatever the sort keys of the backlog are.                    *)
THEOREM Selection == Spec => []SelectionIsDetermined
<1>1. TypeOK => SelectionIsDetermined
  <2> SUFFICES ASSUME TypeOK, NEW w \in Workflows, Running(w) = {},
                      \E i \in ItemsOf(w) : IsEligible(i)
               PROVE  \E i \in Items : \A j \in Items : SelectNext(w, j) <=> j = i
    BY DEF SelectionIsDetermined
  <2> DEFINE S == {j \in ItemsOf(w) : IsEligible(j)}
  <2>1. S \in SUBSET Items /\ S # {}
    BY DEF ItemsOf
  <2>2. \A j \in Items : SelectNext(w, j) <=> IsFirst(j, S)
    BY DEF SelectNext
  <2> HIDE DEF S
  <2>3. PICK i \in Items : IsFirst(i, S)
    BY <2>1, FirstExists
  <2>4. \A j \in Items : IsFirst(j, S) => j = i
    BY <2>1, <2>3, SelectionIsUnique
  <2> QED BY <2>2, <2>3, <2>4
<1> QED BY <1>1, TypeCorrect, PTL

----------------------------------------------------------------------------
(* Accounting: a run either ended in a checkpoint, goes on, or completed.  *)

(* EveryRunIsAccountedFor, state by state.                                 *)
Accounted(i) ==
    LET ended == Cardinality(RunsEndedByBlock(i))
    IN  /\ state[i] = "RUNNING" => generation[i] = ended + 1
        /\ state[i] = "COMPLETED" => generation[i] \in {ended, ended + 1}
        /\ state[i] \notin {"RUNNING", "COMPLETED"} => generation[i] = ended

(* There are only finitely many checkpoints to count.                      *)
LEMMA RunsCountable ==
    ASSUME TypeOK, NEW i \in Items
    PROVE  IsFiniteSet(RunsEndedByBlock(i)) /\ Cardinality(RunsEndedByBlock(i)) \in Nat
<1>1. Len(checkpoints) \in Nat
  BY DEF TypeOK
<1>2. IsFiniteSet(1..Len(checkpoints))
  BY <1>1, FS_Interval
<1>3. RunsEndedByBlock(i) \in SUBSET (1..Len(checkpoints))
  BY DEF RunsEndedByBlock
<1> QED BY <1>2, <1>3, FS_Subset, FS_CardinalityType

(* A start adds a run, a block from RUNNING adds the checkpoint that ends  *)
(* it, and everything else leaves both counts alone.                       *)
LEMMA AccountStep ==
    ASSUME TypeOK, \A i \in Items : Accounted(i), RowStep, NEW j \in Items
    PROVE  Accounted(j)'
<1>a. /\ generation \in [Items -> Nat] /\ Len(checkpoints) \in Nat
      /\ IsFiniteSet(RunsEndedByBlock(j)) /\ Cardinality(RunsEndedByBlock(j)) \in Nat
  BY RunsCountable DEF TypeOK
<1>b. Accounted(j)
  OBVIOUS
<1>c. UNCHANGED checkpoints => RunsEndedByBlock(j)' = RunsEndedByBlock(j)
  BY DEF RunsEndedByBlock
<1>1. CASE Rests
  BY <1>b, <1>c, <1>1 DEF Rests, itemVars, Accounted
<1>2. ASSUME NEW i \in Items, Starts(i) PROVE Accounted(j)'
  <2>1. state'[j] = IF j = i THEN "RUNNING" ELSE state[j]
    BY <1>2, SetStateEffect DEF Starts, MarkStarted, StoredState, QueueWorkItemState
  <2>2. generation'[j] = IF j = i THEN generation[j] + 1 ELSE generation[j]
    BY <1>a, <1>2 DEF Starts, MarkStarted
  <2>3. state[i] \notin {"RUNNING", "COMPLETED"} /\ UNCHANGED checkpoints
    BY <1>2 DEF Starts, MarkStarted, InState, ELIGIBLE_STATES
  <2>4. RunsEndedByBlock(j)' = RunsEndedByBlock(j)
    BY <1>c, <2>3
  <2> QED BY <1>a, <1>b, <2>1, <2>2, <2>3, <2>4 DEF Accounted
<1>3. ASSUME NEW i \in Items, NEW s \in BLOCKED_STATES, Blocks(i, s) PROVE Accounted(j)'
  <2>1. RecordBlock(i, s) /\ SetState(i, s) /\ s \in StoredState
    BY <1>3 DEF Blocks, RecordBlock, StoredState, QueueWorkItemState
  <2>2. state'[j] = (IF j = i THEN s ELSE state[j]) /\ generation' = generation
    BY <2>1, SetStateEffect DEF RecordBlock
  <2>3. /\ Len(checkpoints') = Len(checkpoints) + 1
        /\ \A k \in 1..Len(checkpoints) : checkpoints'[k] = checkpoints[k]
        /\ checkpoints'[Len(checkpoints) + 1] =
              [item |-> i, prior |-> state[i], blocking |-> s, version |-> version[i]]
    BY <2>1, RecordBlockEffect
  <2>4. RunsEndedByBlock(j)' =
          IF j = i /\ state[i] = "RUNNING"
          THEN RunsEndedByBlock(j) \cup {Len(checkpoints) + 1} ELSE RunsEndedByBlock(j)
    BY <1>a, <2>3 DEF RunsEndedByBlock
  <2>5. s \notin {"RUNNING", "COMPLETED"} /\ state[i] # "COMPLETED"
    BY <1>3 DEF Blocks, InState, ELIGIBLE_STATES, BLOCKED_STATES
  <2>6. CASE j = i /\ state[i] = "RUNNING"
    <3>1. Len(checkpoints) + 1 \notin RunsEndedByBlock(j)
      BY <1>a DEF RunsEndedByBlock
    <3>2. Cardinality(RunsEndedByBlock(j)') = Cardinality(RunsEndedByBlock(j)) + 1
      BY <1>a, <2>4, <2>6, <3>1, FS_AddElement
    <3> QED BY <1>b, <2>2, <2>5, <2>6, <3>2 DEF Accounted
  <2>7. CASE ~(j = i /\ state[i] = "RUNNING")
    BY <1>b, <2>2, <2>4, <2>5, <2>7 DEF Accounted
  <2> QED BY <2>6, <2>7
<1>4. ASSUME NEW i \in Items, Resolves(i) \/ Repairs(i) PROVE Accounted(j)'
  <2>1. PICK s \in BLOCKED_STATES \cup {"READY_TO_RESUME"} : SetState(i, s)
    BY <1>4 DEF Resolves, Repairs, InState
  <2>2. state'[j] = IF j = i THEN s ELSE state[j]
    BY <2>1, SetStateEffect DEF StoredState, QueueWorkItemState, ELIGIBLE_STATES
  <2>3. /\ s \notin {"RUNNING", "COMPLETED"} /\ state[i] \notin {"RUNNING", "COMPLETED"}
        /\ UNCHANGED <<generation, checkpoints>>
    BY <1>4 DEF Resolves, Repairs, InState, BLOCKED_STATES
  <2> QED BY <1>b, <1>c, <2>2, <2>3 DEF Accounted
<1>5. ASSUME NEW i \in Items, MarkCompleted(i) PROVE Accounted(j)'
  <2>1. state'[j] = IF j = i THEN "COMPLETED" ELSE state[j]
    BY <1>5, SetStateEffect
    DEF MarkCompleted, StoredState, QueueWorkItemState, TERMINAL_STATES
  <2>2. state[i] # "COMPLETED" /\ UNCHANGED <<generation, checkpoints>>
    BY <1>5 DEF MarkCompleted, Completable, InState
  <2> QED BY <1>b, <1>c, <2>1, <2>2 DEF Accounted
<1> QED BY <1>1, <1>2, <1>3, <1>4, <1>5 DEF RowStep

(* run_generation counts the runs that ended in a checkpoint plus the one  *)
(* in progress or completed: no start goes unrecorded.                     *)
THEOREM Accounting == Spec => []EveryRunIsAccountedFor
<1>1. Init => \A i \in Items : Accounted(i)
  <2> SUFFICES ASSUME Init, NEW i \in Items PROVE Accounted(i)
    OBVIOUS
  <2>1. RunsEndedByBlock(i) = {}
    BY DEF Init, RunsEndedByBlock
  <2>2. Cardinality(RunsEndedByBlock(i)) = 0
    BY <2>1, FS_EmptySet
  <2> QED BY <2>2 DEF Init, Accounted
<1>2. TypeOK /\ (\A i \in Items : Accounted(i)) /\ [Next]_vars
        => (\A i \in Items : Accounted(i))'
  BY StepCases, AccountStep
<1>3. TypeOK /\ (\A i \in Items : Accounted(i)) => EveryRunIsAccountedFor
  <2> SUFFICES ASSUME TypeOK, NEW i \in Items, Accounted(i)
               PROVE  generation[i] - Cardinality(RunsEndedByBlock(i)) \in
                        CASE state[i] = "RUNNING" -> {1}
                          [] state[i] = "COMPLETED" -> {0, 1}
                          [] OTHER -> {0}
    BY DEF EveryRunIsAccountedFor
  <2> DEFINE ended == Cardinality(RunsEndedByBlock(i))
  <2>1. ended \in Nat
    BY RunsCountable
  <2>2. Accounted(i)
    OBVIOUS
  <2>3. /\ state[i] = "RUNNING" => generation[i] = ended + 1
        /\ state[i] = "COMPLETED" => generation[i] \in {ended, ended + 1}
        /\ state[i] \notin {"RUNNING", "COMPLETED"} => generation[i] = ended
    BY <2>2 DEF Accounted
  <2> HIDE DEF ended
  <2>4. CASE state[i] = "RUNNING"
    BY <2>1, <2>3, <2>4 DEF ended
  <2>5. CASE state[i] = "COMPLETED"
    BY <2>1, <2>3, <2>5 DEF ended
  <2>6. CASE state[i] \notin {"RUNNING", "COMPLETED"}
    BY <2>1, <2>3, <2>6 DEF ended
  <2> QED BY <2>4, <2>5, <2>6
<1> QED BY <1>1, <1>2, <1>3, TypeCorrect, PTL DEF Spec
=============================================================================
