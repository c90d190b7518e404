------------------------ MODULE DurableMission_proofs ------------------------
(***************************************************************************)
(* Proofs about the durable mission supervisor, for every backlog and any  *)
(* number of waits.  A step either writes waits and item states behind the *)
(* queue's back and reconciles the mission (Writes), or uses the queue (a  *)
(* RowStep of WorkQueue_proofs), or leaves both alone.                     *)
(***************************************************************************)
EXTENDS DurableMission, WorkQueue_proofs

----------------------------------------------------------------------------
(* How a step changes the item states, the waits and the mission.          *)

\* A wait is recorded, and its item takes the state the wait brings.
Records(i, w) ==
    /\ w \in Wait /\ w.item = i /\ ~w.cleared
    /\ Write(Append(waits, w),
             IF i # NoItem /\ w.class \in DOMAIN WaitState
             THEN [state EXCEPT ![i] = WaitState[w.class]] ELSE state)

\* The mission is reconciled with rows that stay as they are.
Reconciles(m) ==
    /\ mission # NoMission
    /\ mission' = Reconciled(m, state, waits)
    /\ UNCHANGED <<state, waits>>

MissionCases ==
    \/ \E i \in Items \cup {NoItem}, w \in Wait : Records(i, w)
    \/ \E K \in SUBSET DOMAIN waits : Clear(K)
    \/ /\ \/ Reconciles(mission)
          \/ Reconciles([mission EXCEPT !.status = "PAUSED"])
       /\ UNCHANGED <<version, generation, current, checkpoints, lifecycle, active,
                      ledgerVars, pick, ticket, now>>
    \/ /\ mission = NoMission
       /\ mission' = [NoMission EXCEPT !.status = "ACTIVE"]
       /\ UNCHANGED <<vars, waits, now>>
    \/ /\ now < MaxTime /\ now' = now + 1
       /\ UNCHANGED <<vars, waits, mission>>
    \/ [Next]_vars /\ UNCHANGED <<waits, mission, now>>

(* Every step of the mission is of one of these kinds: operators, recovery *)
(* and re-evaluation all clear some set of the recorded waits.             *)
LEMMA MissionStepCases ==
    ASSUME MissionTypeOK, [MissionNext]_missionVars
    PROVE  MissionCases
<1>t. /\ waits \in Seq(Wait) /\ now \in 0..MaxTime /\ MaxTime \in Nat
      /\ state \in [Items -> StoredState]
  BY WaitAssumption DEF MissionTypeOK, TypeOK
<1>1. CASE UNCHANGED missionVars
  BY <1>1 DEF missionVars, MissionCases
<1>2. CASE CreateMission
  BY <1>2 DEF CreateMission, MissionCases
<1>3. ASSUME NEW i \in Items \cup {NoItem}, NEW c \in WaitClasses, NEW d \in Delays,
             RecordWait(i, c, d)
      PROVE  MissionCases
  <2> DEFINE w == [item |-> i, class |-> c, cleared |-> FALSE,
                   due |-> IF d = 0 THEN 0 ELSE now + d]
  <2>1. c \in DurableWaitClass /\ d \in Nat /\ now \in Nat
    BY <1>t, WaitAssumption
  <2>2. (IF d = 0 THEN 0 ELSE now + d) \in Nat
    BY <2>1
  <2>3. w \in Wait
    BY <2>1, <2>2 DEF Wait
  <2>4. w.item = i /\ w.class = c /\ w.cleared = FALSE
    OBVIOUS
  <2>5. Records(i, w)
    <3>1. Write(Append(waits, w), IF i # NoItem /\ c \in DOMAIN WaitState
                                  THEN [state EXCEPT ![i] = WaitState[c]] ELSE state)
      BY <1>3 DEF RecordWait
    <3> HIDE DEF w
    <3> QED BY <2>3, <2>4, <3>1 DEF Records
  <2> HIDE DEF w
  <2> QED BY <2>3, <2>5 DEF MissionCases
<1>4. ASSUME NEW k \in DOMAIN waits, ClearWait(k) PROVE MissionCases
  BY <1>4 DEF ClearWait, MissionCases
<1>5. CASE Recover
  <2>1. {k \in Open(waits) : Expired(k)} \in SUBSET DOMAIN waits
    BY DEF Open
  <2> QED BY <1>5, <2>1 DEF Recover, MissionCases
<1>6. CASE Reevaluate
  <2>1. PICK satisfied \in SUBSET Open(waits) :
            Clear(satisfied \cup {k \in Open(waits) : Expired(k)})
    BY <1>6 DEF Reevaluate
  <2>2. satisfied \cup {k \in Open(waits) : Expired(k)} \in SUBSET DOMAIN waits
    BY DEF Open
  <2> QED BY <2>1, <2>2 DEF MissionCases
<1>7. CASE Interrupt
  BY <1>7 DEF Interrupt, Reconciles, MissionCases, vars, queueVars, itemVars
<1>8. CASE GetMission
  BY <1>8 DEF GetMission, Write, Reconciles, MissionCases
<1>9. CASE Tick
  BY <1>9 DEF Tick, MissionCases
<1>10. CASE UseQueue
  <2>1. Next
    BY <1>10 DEF UseQueue, Next
  <2> QED BY <1>10, <2>1 DEF UseQueue, MissionCases
<1> QED
  BY <1>1, <1>2, <1>3, <1>4, <1>5, <1>6, <1>7, <1>8, <1>9, <1>10 DEF MissionNext
----------------------------------------------------------------------------
(* Type correctness.                                                       *)

Mission == [status : MissionStatus \cup {"NONE"}, completed : 0..Cardinality(Items),
            waiting : Nat, blocked : Nat]

(* Every wait brings a state of a work item.                               *)
LEMMA WaitStateType == \A c \in DOMAIN WaitState : WaitState[c] \in QueueWorkItemState
BY DEF WaitState, QueueWorkItemState, BLOCKED_STATES

(* A reconciliation counts finite sets, and never more completed items     *)
(* than the backlog has.                                                   *)
LEMMA ReconciledType ==
    ASSUME NEW m \in Mission, NEW st \in [Items -> StoredState], NEW ws \in Seq(Wait)
    PROVE  Reconciled(m, st, ws) \in Mission
<1>1. ASSUME NEW S
      PROVE  /\ Cardinality(Among(st, S)) \in Nat
             /\ Cardinality(Among(st, S)) <= Cardinality(Items)
  <2>1. Among(st, S) \in SUBSET Items
    BY DEF Among
  <2> QED BY <2>1, CountAssumption, FS_Subset, FS_CardinalityType
<1>2. ASSUME NEW S PROVE Cardinality(OpenOfClass(ws, S)) \in Nat
  <2>1. OpenOfClass(ws, S) \in SUBSET (1..Len(ws)) /\ Len(ws) \in Nat
    BY DEF OpenOfClass, Open
  <2>2. IsFiniteSet(1..Len(ws))
    BY <2>1, FS_Interval
  <2> QED BY <2>1, <2>2, FS_Subset, FS_CardinalityType
<1>3. Status(m, st, ws) \in MissionStatus
  BY DEF Status, StatusWithoutWork, MissionStatus
<1>4. m.completed \in 0..Cardinality(Items) /\ Cardinality(Items) \in Nat
  BY CountAssumption, FS_CardinalityType DEF Mission
<1>5. Greater(Cardinality(Among(st, {"COMPLETED"})), m.completed) \in 0..Cardinality(Items)
  BY <1>1, <1>4 DEF Greater
<1>6. /\ Greater(Cardinality(Among(st, CountedWaiting)),
                 Cardinality(OpenOfClass(ws, ReleasingClasses))) \in Nat
      /\ Greater(Cardinality(Among(st, CountedBlocked)),
                 Cardinality(OpenOfClass(ws, {"AUTHORITY", "DECISION"}))) \in Nat
  BY <1>1, <1>2 DEF Greater
<1> QED BY <1>3, <1>5, <1>6 DEF Reconciled, Mission

(* A wait is recorded at the end, not cleared, and older waits stay.       *)
LEMMA RecordedWaits ==
    ASSUME waits \in Seq(Wait), NEW w \in Wait
    PROVE  /\ Append(waits, w) \in Seq(Wait)
           /\ DOMAIN Append(waits, w) = DOMAIN waits \cup {Len(waits) + 1}
           /\ \A k \in DOMAIN waits : Append(waits, w)[k] = waits[k]
           /\ Append(waits, w)[Len(waits) + 1] = w
           /\ Len(waits) + 1 \notin DOMAIN waits
  OBVIOUS

(* Clearing changes nothing of a wait but whether it is cleared.           *)
LEMMA ClearedWaits ==
    ASSUME waits \in Seq(Wait), NEW K \in SUBSET DOMAIN waits
    PROVE  /\ Cleared(K) \in Seq(Wait)
           /\ DOMAIN Cleared(K) = DOMAIN waits
           /\ \A k \in DOMAIN waits : /\ k \notin K => Cleared(K)[k] = waits[k]
                                      /\ k \in K => Cleared(K)[k].cleared
<1>1. \A k \in DOMAIN waits : waits[k] \in Wait
  OBVIOUS
<1>2. \A k \in DOMAIN waits : [waits[k] EXCEPT !.cleared = TRUE] \in Wait
  BY <1>1 DEF Wait
<1>3. \A k \in DOMAIN waits : [waits[k] EXCEPT !.cleared = TRUE].cleared
  BY <1>1 DEF Wait
<1>4. DOMAIN waits = 1..Len(waits) /\ Len(waits) \in Nat
  OBVIOUS
<1> DEFINE c == [k \in 1..Len(waits) |->
                    IF k \in K THEN [waits[k] EXCEPT !.cleared = TRUE] ELSE waits[k]]
<1>5. Cleared(K) = c
  BY <1>4 DEF Cleared
<1>6. \A k \in 1..Len(waits) : c[k] \in Wait
  BY <1>1, <1>2, <1>4
<1>7. c \in [1..Len(waits) -> Wait]
  BY <1>6
<1>8. c \in Seq(Wait)
  <2> HIDE DEF c
  <2> QED BY <1>4, <1>7
<1> QED BY <1>3, <1>4, <1>5, <1>8

(* What the supervisor writes keeps the types of the rows it writes.       *)
LEMMA WriteType ==
    ASSUME MissionTypeOK, NEW ws \in Seq(Wait), NEW st \in [Items -> StoredState],
           Write(ws, st)
    PROVE  MissionTypeOK'
<1>1. mission' \in Mission
  BY ReconciledType DEF Write, MissionTypeOK, Mission
<1>2. TypeOK'
  BY DEF Write, MissionTypeOK, TypeOK, ledgerVars
<1>3. waits' = ws /\ now' = now
  BY DEF Write
<1> QED BY <1>1, <1>2, <1>3 DEF MissionTypeOK, Mission

(* The states that recording a wait, or clearing some, leaves behind.      *)
LEMMA RecordedStates ==
    ASSUME state \in [Items -> StoredState], NEW i \in Items \cup {NoItem}, NEW c,
           NEW st, st = IF i # NoItem /\ c \in DOMAIN WaitState
                        THEN [state EXCEPT ![i] = WaitState[c]] ELSE state
    PROVE  /\ st \in [Items -> StoredState]
           /\ \A j \in Items : st[j] = IF j = i /\ c \in DOMAIN WaitState
                                       THEN WaitState[c] ELSE state[j]
<1>1. c \in DOMAIN WaitState => WaitState[c] \in StoredState
  BY WaitStateType DEF StoredState
<1>2. NoItem \notin Items
  BY BacklogAssumption
<1> QED BY <1>1, <1>2

LEMMA ReleasedStates ==
    ASSUME state \in [Items -> StoredState], NEW R,
           NEW st, st = [i \in Items |-> IF i \in R THEN "READY" ELSE state[i]]
    PROVE  /\ st \in [Items -> StoredState]
           /\ \A j \in Items : st[j] = IF j \in R THEN "READY" ELSE state[j]
BY DEF StoredState, QueueWorkItemState, ELIGIBLE_STATES

LEMMA MissionTypeStep ==
    ASSUME MissionTypeOK, MissionCases
    PROVE  MissionTypeOK'
<1>t. /\ waits \in Seq(Wait) /\ now \in 0..MaxTime /\ MaxTime \in Nat
      /\ state \in [Items -> StoredState] /\ TypeOK /\ mission \in Mission
  BY WaitAssumption DEF MissionTypeOK, TypeOK, Mission
<1>1. ASSUME NEW i \in Items \cup {NoItem}, NEW w \in Wait, Records(i, w)
      PROVE  MissionTypeOK'
  <2> DEFINE st == IF i # NoItem /\ w.class \in DOMAIN WaitState
                   THEN [state EXCEPT ![i] = WaitState[w.class]] ELSE state
  <2>1. Write(Append(waits, w), st)
    BY <1>1 DEF Records
  <2>2. st = IF i # NoItem /\ w.class \in DOMAIN WaitState
             THEN [state EXCEPT ![i] = WaitState[w.class]] ELSE state
    OBVIOUS
  <2> HIDE DEF st
  <2>3. st \in [Items -> StoredState]
    BY <1>t, <2>2, RecordedStates
  <2> QED BY <1>t, <2>1, <2>3, RecordedWaits, WriteType
<1>2. ASSUME NEW K \in SUBSET DOMAIN waits, Clear(K) PROVE MissionTypeOK'
  <2> DEFINE st == [i \in Items |-> IF i \in Released(K) THEN "READY" ELSE state[i]]
  <2>1. Write(Cleared(K), st)
    BY <1>2 DEF Clear
  <2>2. st \in [Items -> StoredState]
    BY <1>t, ReleasedStates
  <2> HIDE DEF st
  <2> QED BY <1>t, <2>1, <2>2, ClearedWaits, WriteType
<1>3. ASSUME Reconciles(mission) \/ Reconciles([mission EXCEPT !.status = "PAUSED"]),
             UNCHANGED <<version, generation, current, checkpoints, lifecycle, active,
                         ledgerVars, pick, ticket, now>>
      PROVE  MissionTypeOK'
  <2>1. [mission EXCEPT !.status = "PAUSED"] \in Mission
    BY <1>t DEF Mission, MissionStatus
  <2>2. mission' \in Mission /\ UNCHANGED <<state, waits>>
    BY <1>t, <1>3, <2>1, ReconciledType DEF Reconciles
  <2>3. TypeOK'
    BY <1>t, <1>3, <2>2 DEF TypeOK, ledgerVars
  <2> QED BY <1>t, <1>3, <2>2, <2>3 DEF MissionTypeOK, Mission
<1>4. ASSUME mission' = [NoMission EXCEPT !.status = "ACTIVE"], UNCHANGED <<vars, waits, now>>
      PROVE  MissionTypeOK'
  <2>1. mission' \in Mission
    <3>1. Cardinality(Items) \in Nat
      BY CountAssumption, FS_CardinalityType
    <3> QED BY <1>4, <3>1 DEF Mission, NoMission, MissionStatus
  <2>2. TypeOK'
    BY <1>t, <1>4 DEF TypeOK, vars, queueVars, itemVars, ledgerVars
  <2> QED BY <1>t, <1>4, <2>1, <2>2 DEF MissionTypeOK, Mission
<1>5. ASSUME now < MaxTime, now' = now + 1, UNCHANGED <<vars, waits, mission>>
      PROVE  MissionTypeOK'
  <2>1. TypeOK'
    BY <1>t, <1>5 DEF TypeOK, vars, queueVars, itemVars, ledgerVars
  <2> QED BY <1>t, <1>5, <2>1 DEF MissionTypeOK, Mission
<1>6. ASSUME [Next]_vars, UNCHANGED <<waits, mission, now>>
      PROVE  MissionTypeOK'
  <2>1. TypeOK'
    BY <1>t, <1>6, StepCases, RowType, EvidenceType DEF TypeOK
  <2> QED BY <1>t, <1>6, <2>1 DEF MissionTypeOK, Mission
<1> QED BY <1>1, <1>2, <1>3, <1>4, <1>5, <1>6 DEF MissionCases

(* The waits, the mission's status and its counters are well typed: in     *)
(* particular no more work is counted completed than the backlog holds.    *)
THEOREM MissionTypeCorrect == MissionSpec => []MissionTypeOK
<1>1. MissionInit => MissionTypeOK
  <2> SUFFICES ASSUME MissionInit PROVE MissionTypeOK
    OBVIOUS
  <2>1. TypeOK
    BY InitType DEF MissionInit
  <2>2. mission \in Mission
    <3>1. Cardinality(Items) \in Nat
      BY CountAssumption, FS_CardinalityType
    <3> QED BY <3>1 DEF MissionInit, NoMission, Mission
  <2> QED BY <2>1, <2>2, WaitAssumption DEF MissionInit, MissionTypeOK, Mission
<1>2. MissionTypeOK /\ [MissionNext]_missionVars => MissionTypeOK'
  BY MissionStepCases, MissionTypeStep
<1> QED BY <1>1, <1>2, PTL DEF MissionSpec
----------------------------------------------------------------------------
(* A RUNNING item is the active task, although waits come and go behind    *)
(* the queue's back.                                                       *)

(* A wait takes items out of RUNNING and never into it; what the queue     *)
(* starts it makes the active task, and what it releases was RUNNING.      *)
LEMMA RunningStep ==
    ASSUME MissionTypeOK, RunningIsActive, MissionCases
    PROVE  RunningIsActive'
<1> USE BacklogAssumption DEF Running, ItemsOf
<1>t. /\ TypeOK /\ waits \in Seq(Wait) /\ state \in [Items -> StoredState]
      /\ active \in [Workflows -> Items \cup {NoItem}]
  BY DEF MissionTypeOK, TypeOK
<1>i. \A j \in Items : state[j] = "RUNNING" => active[wfOf[j]] = j
  BY DEF RunningIsActive
<1>g. ASSUME \A j \in Items : state'[j] = "RUNNING" => active'[wfOf[j]] = j
      PROVE  RunningIsActive'
  BY <1>g DEF RunningIsActive
<1>w. \A c \in DOMAIN WaitState : WaitState[c] # "RUNNING"
  BY DEF WaitState
<1>1. ASSUME NEW i \in Items \cup {NoItem}, NEW w \in Wait, Records(i, w)
      PROVE  RunningIsActive'
  <2>1. /\ state' = IF i # NoItem /\ w.class \in DOMAIN WaitState
                    THEN [state EXCEPT ![i] = WaitState[w.class]] ELSE state
        /\ active' = active
    BY <1>1 DEF Records, Write
  <2>2. \A j \in Items : state'[j] = IF j = i /\ w.class \in DOMAIN WaitState
                                     THEN WaitState[w.class] ELSE state[j]
    BY <1>t, <2>1, RecordedStates
  <2>3. \A j \in Items : state'[j] = "RUNNING" => state[j] = "RUNNING"
    BY <1>w, <2>2
  <2> QED BY <1>g, <1>i, <2>1, <2>3
<1>2. ASSUME NEW K \in SUBSET DOMAIN waits, Clear(K) PROVE RunningIsActive'
  <2>1. \A j \in Items : state'[j] = IF j \in Released(K) THEN "READY" ELSE state[j]
    BY <1>2 DEF Clear, Write
  <2>2. active' = active
    BY <1>2 DEF Clear, Write
  <2> QED BY <1>g, <1>i, <2>1, <2>2
<1>3. CASE UNCHANGED <<state, active>>
  BY <1>3 DEF RunningIsActive
<1>4. CASE RowStep
  <2>1. CASE Rests
    BY <1>g, <1>i, <2>1 DEF Rests, itemVars
  <2>2. ASSUME NEW i \in Items, Starts(i) PROVE RunningIsActive'
    <3>1. \A j \in Items : state'[j] = IF j = i THEN "RUNNING" ELSE state[j]
      BY <1>t, <2>2, SetStateEffect DEF Starts, MarkStarted, StoredState, QueueWorkItemState
    <3>2. active' = [active EXCEPT ![wfOf[i]] = i]
      BY <2>2 DEF Starts, MarkStarted
    <3>3. \A j \in Items : wfOf[j] = wfOf[i] => state[j] # "RUNNING"
      BY <2>2 DEF Starts
    <3> QED BY <1>g, <1>i, <1>t, <3>1, <3>2, <3>3
  <2>3. ASSUME NEW i \in Items, NEW s \in BLOCKED_STATES, Blocks(i, s) PROVE RunningIsActive'
    <3>1. \A j \in Items : state'[j] = IF j = i THEN s ELSE state[j]
      BY <1>t, <2>3, SetStateEffect DEF Blocks, RecordBlock, StoredState, QueueWorkItemState
    <3>2. active' = [active EXCEPT ![wfOf[i]] = NoItem]
      BY <2>3 DEF Blocks, RecordBlock, ClearActive
    <3>3. \A j \in Items : wfOf[j] = wfOf[i] /\ j # i => state[j] # "RUNNING"
      BY <1>i, <2>3 DEF Blocks
    <3>4. s # "RUNNING"
      BY DEF BLOCKED_STATES
    <3> QED BY <1>g, <1>i, <1>t, <3>1, <3>2, <3>3, <3>4
  <2>4. ASSUME NEW i \in Items, Resolves(i) \/ Repairs(i) PROVE RunningIsActive'
    <3>1. PICK s \in BLOCKED_STATES \cup {"READY_TO_RESUME"} : SetState(i, s)
      BY <2>4 DEF Resolves, Repairs, InState
    <3>2. \A j \in Items : state'[j] = IF j = i THEN s ELSE state[j]
      BY <1>t, <3>1, SetStateEffect DEF StoredState, QueueWorkItemState, ELIGIBLE_STATES
    <3>3. s # "RUNNING" /\ active' = active
      BY <2>4 DEF Resolves, Repairs, BLOCKED_STATES
    <3> QED BY <1>g, <1>i, <3>2, <3>3
  <2>5. ASSUME NEW i \in Items, MarkCompleted(i) PROVE RunningIsActive'
    <3>1. \A j \in Items : state'[j] = IF j = i THEN "COMPLETED" ELSE state[j]
      BY <1>t, <2>5, SetStateEffect
      DEF MarkCompleted, StoredState, QueueWorkItemState, TERMINAL_STATES
    <3>2. active' = [active EXCEPT ![wfOf[i]] = IF @ = i THEN NoItem ELSE @]
      BY <2>5 DEF MarkCompleted
    <3> QED BY <1>g, <1>i, <1>t, <3>1, <3>2
  <2> QED BY <1>4, <2>1, <2>2, <2>3, <2>4, <2>5 DEF RowStep
<1>5. ASSUME [Next]_vars PROVE RunningIsActive'
  BY <1>t, <1>4, <1>5, StepCases
<1>6. ASSUME UNCHANGED vars PROVE RunningIsActive'
  BY <1>3, <1>6 DEF vars, queueVars, itemVars
<1> QED BY <1>1, <1>2, <1>3, <1>5, <1>6 DEF MissionCases, Reconciles

(* Nothing RUNNING escapes the queue: it can always be blocked or          *)
(* completed as the active task of its workflow.                           *)
THEOREM RunningStaysActive == MissionSpec => []RunningIsActive
<1>1. MissionInit => RunningIsActive
  BY DEF MissionInit, Init, RunningIsActive, Running, ItemsOf
<1>2. MissionTypeOK /\ RunningIsActive /\ [MissionNext]_missionVars => RunningIsActive'
  BY MissionStepCases, RunningStep
<1> QED BY <1>1, <1>2, MissionTypeCorrect, PTL DEF MissionSpec

----------------------------------------------------------------------------
(* What only the supervisor puts to sleep has a wait that wakes it.        *)

ResourceWaits == {"WAITING_RESOURCE_SHORT", "WAITING_RESOURCE_LONG"}

(* The wait is of one of the two classes that bring such a state: what     *)
(* WaitingItemHasAWait says of it leaves open which class has it.          *)
HeldByAWait ==
    \A i \in Items :
        state[i] \in ResourceWaits =>
            \E k \in DOMAIN waits :
                /\ ~waits[k].cleared
                /\ waits[k].item = i
                /\ waits[k].class \in {"RESOURCE_SHORT", "RESOURCE_LONG"}
                /\ WaitState[waits[k].class] = state[i]

(* The queue neither enters nor leaves the resource waits.                 *)
LEMMA QueueLeavesResourceWaits ==
    ASSUME TypeOK, RowStep, NEW j \in Items, state'[j] \in ResourceWaits
    PROVE  state'[j] = state[j]
<1> USE DEF ResourceWaits
<1>1. CASE Rests
  BY <1>1 DEF Rests, itemVars
<1>2. ASSUME NEW i \in Items, NEW s \in StoredState \ ResourceWaits, SetState(i, s)
      PROVE  state'[j] = state[j]
  BY <1>2, SetStateEffect
<1>3. {"RUNNING", "COMPLETED", "READY_TO_RESUME"} \cup BLOCKED_STATES
        \subseteq StoredState \ ResourceWaits
  BY DEF StoredState, QueueWorkItemState, BLOCKED_STATES, ELIGIBLE_STATES, TERMINAL_STATES
<1>4. ASSUME NEW i \in Items, Starts(i) \/ Resolves(i) \/ Repairs(i) \/ MarkCompleted(i)
      PROVE  state'[j] = state[j]
  <2>1. PICK s \in {"RUNNING", "COMPLETED", "READY_TO_RESUME"} \cup BLOCKED_STATES :
            SetState(i, s)
    BY <1>4 DEF Starts, MarkStarted, Resolves, Repairs, MarkCompleted, InState
  <2> QED BY <1>2, <1>3, <2>1
<1>5. ASSUME NEW i \in Items, NEW s \in BLOCKED_STATES, Blocks(i, s)
      PROVE  state'[j] = state[j]
  BY <1>2, <1>3, <1>5 DEF Blocks, RecordBlock
<1> QED BY <1>1, <1>4, <1>5 DEF RowStep

(* A wait that is cleared while its item still sleeps releases that item.  *)
LEMMA HeldStep ==
    ASSUME MissionTypeOK, HeldByAWait, MissionCases
    PROVE  HeldByAWait'
<1>t. /\ TypeOK /\ waits \in Seq(Wait) /\ state \in [Items -> StoredState]
  BY DEF MissionTypeOK, TypeOK
<1>1. ASSUME NEW i \in Items \cup {NoItem}, NEW w \in Wait, Records(i, w)
      PROVE  HeldByAWait'
  <2>1. /\ state' = IF i # NoItem /\ w.class \in DOMAIN WaitState
                    THEN [state EXCEPT ![i] = WaitState[w.class]] ELSE state
        /\ waits' = Append(waits, w) /\ w.item = i /\ ~w.cleared
    BY <1>1 DEF Records, Write
  <2>2. \A j \in Items : state'[j] = IF j = i /\ w.class \in DOMAIN WaitState
                                     THEN WaitState[w.class] ELSE state[j]
    BY <1>t, <2>1, RecordedStates
  <2>3. /\ DOMAIN waits' = DOMAIN waits \cup {Len(waits) + 1}
        /\ \A k \in DOMAIN waits : waits'[k] = waits[k]
        /\ waits'[Len(waits) + 1] = w
    BY <1>t, <2>1, RecordedWaits
  <2>4. ASSUME NEW j \in Items, state'[j] \in ResourceWaits
        PROVE  \E k \in DOMAIN waits' :
                  /\ ~waits'[k].cleared
                  /\ waits'[k].item = j
                  /\ waits'[k].class \in {"RESOURCE_SHORT", "RESOURCE_LONG"}
                  /\ WaitState[waits'[k].class] = state'[j]
    <3>1. CASE j = i /\ w.class \in DOMAIN WaitState
      <4>1. state'[j] = WaitState[w.class]
        BY <2>2, <3>1
      <4>2. w.class \in {"RESOURCE_SHORT", "RESOURCE_LONG"}
        BY <2>4, <3>1, <4>1 DEF WaitState, ResourceWaits
      <4> QED BY <2>1, <2>3, <3>1, <4>1, <4>2
    <3>2. CASE ~(j = i /\ w.class \in DOMAIN WaitState)
      <4>1. state'[j] = state[j]
        BY <2>2, <3>2
      <4>2. PICK k \in DOMAIN waits :
                /\ ~waits[k].cleared
                /\ waits[k].item = j
                /\ waits[k].class \in {"RESOURCE_SHORT", "RESOURCE_LONG"}
                /\ WaitState[waits[k].class] = state[j]
        BY <2>4, <4>1 DEF HeldByAWait
      <4> QED BY <2>3, <4>1, <4>2
    <3> QED BY <3>1, <3>2
  <2> QED BY <2>4 DEF HeldByAWait
<1>2. ASSUME NEW K \in SUBSET DOMAIN waits, Clear(K) PROVE HeldByAWait'
  <2>1. /\ \A j \in Items : state'[j] = IF j \in Released(K) THEN "READY" ELSE state[j]
        /\ waits' = Cleared(K)
    BY <1>2 DEF Clear, Write
  <2>2. /\ DOMAIN waits' = DOMAIN waits
        /\ \A k \in DOMAIN waits : k \notin K => waits'[k] = waits[k]
    BY <1>t, <2>1, ClearedWaits
  <2>3. ASSUME NEW j \in Items, state'[j] \in ResourceWaits
        PROVE  \E k \in DOMAIN waits' :
                  /\ ~waits'[k].cleared
                  /\ waits'[k].item = j
                  /\ waits'[k].class \in {"RESOURCE_SHORT", "RESOURCE_LONG"}
                  /\ WaitState[waits'[k].class] = state'[j]
    <3>1. state'[j] = state[j] /\ j \notin Released(K)
      BY <2>1, <2>3 DEF ResourceWaits
    <3>2. PICK k \in DOMAIN waits :
              /\ ~waits[k].cleared
              /\ waits[k].item = j
              /\ waits[k].class \in {"RESOURCE_SHORT", "RESOURCE_LONG"}
              /\ WaitState[waits[k].class] = state[j]
      BY <2>3, <3>1 DEF HeldByAWait
    <3>3. k \notin K
      BY <3>1, <3>2 DEF Released, ReleasingClasses
    <3> QED BY <2>2, <3>1, <3>2, <3>3
  <2> QED BY <2>3 DEF HeldByAWait
<1>3. CASE UNCHANGED <<state, waits>>
  BY <1>3 DEF HeldByAWait
<1>4. ASSUME [Next]_vars, waits' = waits PROVE HeldByAWait'
  <2>1. \A j \in Items : state'[j] \in ResourceWaits => state'[j] = state[j]
    BY <1>t, <1>4, StepCases, QueueLeavesResourceWaits
  <2> QED BY <1>4, <2>1 DEF HeldByAWait
<1>5. ASSUME UNCHANGED <<vars, waits>> PROVE HeldByAWait'
  BY <1>3, <1>5 DEF vars, queueVars, itemVars
<1> QED BY <1>1, <1>2, <1>3, <1>4, <1>5 DEF MissionCases, Reconciles

(* An item that waits for a resource is never orphaned: an open wait of    *)
(* its own will release it.                                                *)
THEOREM NoOrphans == MissionSpec => []WaitingItemHasAWait
<1>1. MissionInit => HeldByAWait
  BY DEF MissionInit, Init, HeldByAWait, ResourceWaits
<1>2. MissionTypeOK /\ HeldByAWait /\ [MissionNext]_missionVars => HeldByAWait'
  BY MissionStepCases, HeldStep
<1>3. HeldByAWait => WaitingItemHasAWait
  BY DEF HeldByAWait, WaitingItemHasAWait, ResourceWaits, InState, Open
<1> QED BY <1>1, <1>2, <1>3, MissionTypeCorrect, PTL DEF MissionSpec

----------------------------------------------------------------------------
(* What the status of a mission promises.                                  *)

(* A step leaves the mission's row alone, creates it, or reconciles it     *)
(* with the waits and the item states it leaves behind.                    *)
LEMMA MissionRowCases ==
    ASSUME MissionTypeOK, MissionCases
    PROVE  \/ /\ mission' = mission /\ waits' = waits
              /\ UNCHANGED state \/ [Next]_vars
           \/ mission = NoMission /\ mission'.status = "ACTIVE"
           \/ \E m \in Mission : /\ m.status \in {mission.status, "PAUSED"}
                                 /\ mission' = Reconciled(m, state', waits')
<1>m. mission \in Mission
  BY DEF MissionTypeOK, Mission
<1>1. ASSUME NEW ws, NEW st, Write(ws, st)
      PROVE  mission' = Reconciled(mission, state', waits')
  BY <1>1 DEF Write
<1>2. ASSUME NEW i \in Items \cup {NoItem}, NEW w \in Wait, Records(i, w)
      PROVE  mission' = Reconciled(mission, state', waits')
  BY <1>1, <1>2 DEF Records
<1>3. ASSUME NEW K \in SUBSET DOMAIN waits, Clear(K)
      PROVE  mission' = Reconciled(mission, state', waits')
  BY <1>1, <1>3 DEF Clear
<1>4. ASSUME NEW m, Reconciles(m)
      PROVE  mission' = Reconciled(m, state', waits')
  BY <1>4 DEF Reconciles
<1>5. /\ [mission EXCEPT !.status = "PAUSED"] \in Mission
      /\ [mission EXCEPT !.status = "PAUSED"].status = "PAUSED"
  BY <1>m DEF Mission, MissionStatus
<1>6. [NoMission EXCEPT !.status = "ACTIVE"].status = "ACTIVE"
  BY DEF NoMission
<1>7. UNCHANGED vars => UNCHANGED state
  BY DEF vars, queueVars, itemVars
<1> QED BY <1>m, <1>2, <1>3, <1>4, <1>5, <1>6, <1>7 DEF MissionCases

(* A mission that reads COMPLETED has all its items COMPLETED and nothing  *)
(* left that could wake one.                                               *)
THEOREM CompletionIsFinal == MissionSpec => []CompletedMissionHasNoLooseEnds
<1>1. MissionInit => CompletedMissionHasNoLooseEnds
  BY DEF MissionInit, NoMission, CompletedMissionHasNoLooseEnds
<1>2. ASSUME MissionTypeOK, CompletedMissionHasNoLooseEnds, [MissionNext]_missionVars
      PROVE  CompletedMissionHasNoLooseEnds'
  <2>1. ASSUME NEW m \in Mission, mission' = Reconciled(m, state', waits')
        PROVE  CompletedMissionHasNoLooseEnds'
    <3>1. mission'.status = Status(m, state', waits')
      BY <2>1 DEF Reconciled
    <3> QED BY <3>1 DEF Status, StatusWithoutWork, Among, CompletedMissionHasNoLooseEnds
  <2>2. ASSUME mission' = mission, waits' = waits, UNCHANGED state \/ [Next]_vars
        PROVE  CompletedMissionHasNoLooseEnds'
    <3>1. \A i \in Items : state[i] = "COMPLETED" => state'[i] = "COMPLETED"
      BY <1>2, <2>2, StepCases, CompletedUntouched DEF MissionTypeOK, TypeOK
    <3> QED BY <1>2, <2>2, <3>1 DEF CompletedMissionHasNoLooseEnds, Open
  <2>3. mission'.status = "ACTIVE" => CompletedMissionHasNoLooseEnds'
    BY DEF CompletedMissionHasNoLooseEnds
  <2> QED BY <1>2, <2>1, <2>2, <2>3, MissionStepCases, MissionRowCases
<1> QED BY <1>1, <1>2, MissionTypeCorrect, PTL DEF MissionSpec

(* An interrupted mission stays PAUSED, through restarts as through waits  *)
(* and completions, until some item is READY or READY_TO_RESUME again.     *)
THEOREM PauseIsKept == MissionSpec => PausedUntilWorkIsReady
<1> DEFINE Kept == mission.status = "PAUSED" /\ mission'.status # "PAUSED" =>
                       \E i \in Items : state'[i] \in ELIGIBLE_STATES
<1>1. ASSUME MissionTypeOK, [MissionNext]_missionVars PROVE Kept
  <2>1. ASSUME NEW m \in Mission, m.status = "PAUSED",
               mission' = Reconciled(m, state', waits'), mission'.status # "PAUSED"
        PROVE  \E i \in Items : state'[i] \in ELIGIBLE_STATES
    <3>1. mission'.status = Status(m, state', waits')
      BY <2>1 DEF Reconciled
    <3> QED BY <2>1, <3>1 DEF Status, Among
  <2>2. NoMission.status # "PAUSED"
    BY DEF NoMission
  <2> QED BY <1>1, <2>1, <2>2, MissionStepCases, MissionRowCases
<1>2. MissionTypeOK /\ [MissionNext]_missionVars => [Kept]_missionVars
  BY <1>1
<1> QED BY <1>2, MissionTypeCorrect, PTL DEF MissionSpec, PausedUntilWorkIsReady
=============================================================================
