--------------------------- MODULE DurableMission ---------------------------
(***************************************************************************)
(* Durable responsibility for a mission: DurableMissionSupervisor in       *)
(* src/lucius/runtime/mission.py, over the work queue it shares.  A wait   *)
(* record says why an item cannot proceed and, for most, when to look      *)
(* again; recording and clearing waits writes item states directly,        *)
(* without the queue's versions and checkpoints, while operators and runs  *)
(* go on using the queue.  Every operation ends in a reconciliation of the *)
(* mission's status with its waits and with all items.                     *)
(*                                                                         *)
(* Each operation commits before the next, so a restart loses nothing and  *)
(* shows as Recover; the clock moves between operations only.              *)
(***************************************************************************)
EXTENDS WorkQueue

CONSTANTS
    WaitClasses,    \* the wait classes callers record
    Delays,         \* minutes until retry_after, 0 for no retry_after
    MaxWaits,       \* bound: number of wait records
    MaxTime         \* bound: minutes the clock runs

MutWaitState == [RESOURCE |-> "RESOURCE", RESOURCE_SHORT |-> "RESOURCE_SHORT",
                 RESOURCE_LONG |-> "RESOURCE_LONG", DEPENDENCY |-> "DEPENDENCY",
                 SCHEDULE |-> "SCHEDULE", AUTHORITY |-> "AUTHORITY",
                 DECISION |-> "DECISION"]
\* The item state a recorded wait brings; a HUMAN wait brings none.
WaitState == [RESOURCE |-> "WAITING_RESOURCE",
              RESOURCE_SHORT |-> "WAITING_RESOURCE_SHORT",
              RESOURCE_LONG |-> "WAITING_RESOURCE_LONG",
              DEPENDENCY |-> "WAITING_DEPENDENCY",
              SCHEDULE |-> "WAITING_SCHEDULE",
              AUTHORITY |-> "BLOCKED_AUTHORITY",
              DECISION |-> "BLOCKED_DECISION"]
DurableWaitClass == DOMAIN WaitState \cup {"HUMAN"}
\* The classes whose clearing makes the item READY.
ReleasingClasses ==
    {"RESOURCE", "RESOURCE_SHORT", "RESOURCE_LONG", "DEPENDENCY", "SCHEDULE"}

\* INTERRUPTED and CANCELLED exist but nothing sets them.
MissionStatus == {"ACTIVE", "WAITING", "SLEEPING", "PAUSED", "COMPLETED", "FAILED"}

ASSUME WaitAssumption ==
    /\ WaitClasses \subseteq DurableWaitClass
    /\ Delays \subseteq Nat /\ MaxWaits \in Nat /\ MaxTime \in Nat
\* A backlog is a stored list, so its items can be counted.
ASSUME CountAssumption == IsFiniteSet(Items)

VARIABLES
    waits,          \* the mission's DurableWait records
    mission,        \* the mission's status and its three counters
    now             \* the clock, in minutes

missionVars == <<vars, waits, mission, now>>

Wait == [item : Items \cup {NoItem}, class : DurableWaitClass, due : Nat,
         cleared : BOOLEAN]
NoMission == [status |-> "NONE", completed |-> 0, waiting |-> 0, blocked |-> 0]

----------------------------------------------------------------------------
Open(ws) == {k \in DOMAIN ws : ~ws[k].cleared}
Expired(k) == waits[k].due # 0 /\ waits[k].due <= now
Greater(a, b) == IF a > b THEN a ELSE b

\* The states in which the reconciliation counts an item as waiting.
CountedWaiting ==
    {"WAITING_RESOURCE", "WAITING_RESOURCE_SHORT", "WAITING_RESOURCE_LONG",
     "WAITING_DEPENDENCY", "WAITING_SCHEDULE", "WAITING_HUMAN", "WAITING_EXTERNAL"}
CountedBlocked == {"BLOCKED_DEPENDENCY", "BLOCKED_AUTHORITY", "BLOCKED_DECISION"}

Among(st, S) == {i \in Items : st[i] \in S}
OpenOfClass(ws, S) == {k \in Open(ws) : ws[k].class \in S}
\* Something will not change within a minute: a status reader may sleep.
LongWait(ws) == \E k \in Open(ws) : ws[k].class = "RESOURCE_LONG" \/ ws[k].due > now + 1

MutStatusWithoutWork(st, ws) ==
    IF Among(st, {"COMPLETED"}) = Items THEN "COMPLETED"
    ELSE IF Among(st, CountedWaiting) # {} \/ Open(ws) # {}
         THEN IF LongWait(ws) THEN "SLEEPING" ELSE "WAITING"
    ELSE IF Among(st, CountedBlocked) # {} THEN "FAILED"
    ELSE "WAITING"
\* The status when no item is READY, given the item states st and the waits ws.
StatusWithoutWork(st, ws) ==
    IF Among(st, CountedWaiting) # {} \/ Open(ws) # {}
    THEN IF LongWait(ws) THEN "SLEEPING" ELSE "WAITING"
    ELSE IF Among(st, {"COMPLETED"}) = Items THEN "COMPLETED"
    ELSE IF Among(st, CountedBlocked) # {} THEN "FAILED"
    ELSE "WAITING"

MutStatus(m, st, ws) ==
    IF Among(st, ELIGIBLE_STATES) # {} THEN "ACTIVE"
    ELSE IF m.status = "PAUSED" /\ Open(ws) = {} THEN "PAUSED"
    ELSE StatusWithoutWork(st, ws)
Status(m, st, ws) ==
    IF Among(st, ELIGIBLE_STATES) # {} THEN "ACTIVE"
    ELSE IF m.status = "PAUSED" THEN "PAUSED"
    ELSE StatusWithoutWork(st, ws)

\* reconcile_mission_state; completed work is never counted down.
Reconciled(m, st, ws) ==
    [status |-> Status(m, st, ws),
     completed |-> Greater(Cardinality(Among(st, {"COMPLETED"})), m.completed),
     waiting |-> Greater(Cardinality(Among(st, CountedWaiting)),
                         Cardinality(OpenOfClass(ws, ReleasingClasses))),
     blocked |-> Greater(Cardinality(Among(st, CountedBlocked)),
                         Cardinality(OpenOfClass(ws, {"AUTHORITY", "DECISION"})))]

\* What the operations share: write the waits and the item states, bypassing
\* the queue, then reconcile.
Write(ws, st) ==
    /\ mission # NoMission
    /\ waits' = ws
    /\ state' = st
    /\ mission' = Reconciled(mission, st, ws)
    /\ UNCHANGED <<version, generation, current, checkpoints, lifecycle, active,
                   ledgerVars, pick, ticket, now>>

Released(K) ==
    {waits[k].item : k \in {j \in K : waits[j].class \in ReleasingClasses}}
Cleared(K) == [k \in DOMAIN waits |->
                  IF k \in K THEN [waits[k] EXCEPT !.cleared = TRUE] ELSE waits[k]]

MutClear(K) ==
    Write(Cleared(K), [i \in Items |-> IF i \in Released(K) THEN "RUNNING" ELSE state[i]])
\* Clearing the waits K releases the items of those in a releasing class,
\* whatever state the item is in and whatever else it waits for.
Clear(K) ==
    Write(Cleared(K), [i \in Items |-> IF i \in Released(K) THEN "READY" ELSE state[i]])

----------------------------------------------------------------------------
MissionInit ==
    /\ Init
    /\ waits = <<>>
    /\ mission = NoMission
    /\ now = 0

(* create_mission: no reconciliation                                       *)
CreateMission ==
    /\ mission = NoMission
    /\ mission' = [NoMission EXCEPT !.status = "ACTIVE"]
    /\ UNCHANGED <<vars, waits, now>>

(* record_wait: neither the item's state nor its other waits are looked at *)
RecordWait(i, c, d) ==
    /\ Len(waits) < MaxWaits
    /\ Write(Append(waits, [item |-> i, class |-> c, cleared |-> FALSE,
                            due |-> IF d = 0 THEN 0 ELSE now + d]),
             IF i # NoItem /\ c \in DOMAIN WaitState
             THEN [state EXCEPT ![i] = WaitState[c]] ELSE state)

(* clear_wait, by an operator: the wait may have been cleared before       *)
ClearWait(k) == Clear({k})

MutRecoverReleasesNothing == Write(Cleared({k \in Open(waits) : Expired(k)}), state)
MutRecoverUnlessPaused ==
    mission.status # "PAUSED" /\ Clear({k \in Open(waits) : Expired(k)})
(* recover_mission, for the mission's own canonical SHA (any other raises) *)
Recover == Clear({k \in Open(waits) : Expired(k)})

(* reevaluate_durable_waits: beside the expired waits, those whose metadata *)
(* say so (their required files exist, their provider is flagged as back);  *)
(* which waits carry such metadata is not kept, so it may be any.           *)
Reevaluate ==
    \E satisfied \in SUBSET Open(waits) :
        LET K == satisfied \cup {k \in Open(waits) : Expired(k)}
        IN  K # {} /\ Clear(K)

(* record_interruption: PAUSED, then the reconciliation                    *)
Interrupt ==
    /\ mission # NoMission
    /\ mission' = Reconciled([mission EXCEPT !.status = "PAUSED"], state, waits)
    /\ UNCHANGED <<vars, waits, now>>

(* get_mission reconciles, as every session does at its end                *)
GetMission == Write(waits, state)

Tick ==
    /\ now < MaxTime
    /\ now' = now + 1
    /\ UNCHANGED <<vars, waits, mission>>

(* Runs and operators use the queue meanwhile.                             *)
UseQueue ==
    /\ \/ \E w \in Workflows : StartNext(w) \/ AttachPlan(w)
       \/ \E i \in Items : BlockRunningItem(i) \/ TakeTicket(i) \/ CompleteItem(i)
       \/ ResolveBlocker
    /\ UNCHANGED <<waits, mission, now>>

MissionNext ==
    \/ CreateMission
    \/ \E i \in Items \cup {NoItem}, c \in WaitClasses, d \in Delays :
            RecordWait(i, c, d)
    \/ \E k \in DOMAIN waits : ClearWait(k)
    \/ Recover
    \/ Reevaluate
    \/ Interrupt
    \/ GetMission
    \/ Tick
    \/ UseQueue

\* The clock runs, and the launcher starts session after session, each of
\* which begins with a recovery.
MissionSpec ==
    MissionInit /\ [][MissionNext]_missionVars
        /\ WF_missionVars(Tick) /\ WF_missionVars(Recover)
----------------------------------------------------------------------------
(* Type correctness of the waits and of the mission row.                   *)
MissionTypeOK ==
    /\ TypeOK
    /\ waits \in Seq(Wait)
    /\ mission \in [status : MissionStatus \cup {"NONE"}, completed : 0..Cardinality(Items),
                     waiting : Nat, blocked : Nat]
    /\ now \in 0..MaxTime

(* Although waits move items into and out of RUNNING behind the queue's    *)
(* back and leave active_task_id alone, no two items of a workflow run at  *)
(* once and a RUNNING item is always the workflow's active task, so that a *)
(* run can still be blocked or completed through the queue.                *)
RunningIsActive ==
    \A w \in Workflows : Running(w) \subseteq {active[w]}

(* COMPLETED is final in fact: a mission that reads COMPLETED has every    *)
(* item COMPLETED and no wait that could still make an item READY.         *)
CompletedMissionHasNoLooseEnds ==
    mission.status = "COMPLETED" =>
        /\ \A i \in Items : state[i] = "COMPLETED"
        /\ Open(waits) = {}

(* An item in a state only the supervisor enters, and the queue cannot     *)
(* resolve, is never orphaned: some wait that is not cleared yet will      *)
(* release it.                                                             *)
WaitingItemHasAWait ==
    \A i \in Items :
        InState(i, {"WAITING_RESOURCE_SHORT", "WAITING_RESOURCE_LONG"}) =>
            \E k \in Open(waits) : /\ waits[k].item = i
                                   /\ WaitState[waits[k].class] = state[i]

(* An interruption is kept: a PAUSED mission stays so through recoveries,  *)
(* new waits, the clock and completions, until an item is READY again.     *)
PausedUntilWorkIsReady ==
    [][ mission.status = "PAUSED" /\ mission'.status # "PAUSED" =>
            \E i \in Items : state'[i] \in ELIGIBLE_STATES ]_missionVars

(* No wake-up is missed: an item that waits on a resource with a           *)
(* retry_after leaves that state, across interruptions and restarts.       *)
SleepersWake ==
    \A i \in Items :
        /\ InState(i, {"WAITING_RESOURCE_SHORT", "WAITING_RESOURCE_LONG"})
        /\ \E k \in Open(waits) : /\ waits[k].item = i
                                  /\ waits[k].class \in ReleasingClasses
                                  /\ waits[k].due \in 1..MaxTime
        ~> ~InState(i, {"WAITING_RESOURCE_SHORT", "WAITING_RESOURCE_LONG"})

(* TRAVEL_MODE_V1.md:110: "BLOCKED_AUTHORITY and BLOCKED_DECISION states   *)
(* are immutable to automated clearing or retry".  The recovery that every *)
(* session begins with leaves them alone.                                  *)
AuthorityIsImmutable ==
    [][ Recover =>
            \A i \in Items : InState(i, {"BLOCKED_AUTHORITY", "BLOCKED_DECISION"}) =>
                state'[i] = state[i] ]_missionVars

(* GLOBAL_PROJECT_WORK_PORTFOLIO.md:83: work that wakes is scheduled       *)
(* "without duplicate execution".  A recovery hands out no work that is    *)
(* already COMPLETED.                                                      *)
WakingRepeatsNothing ==
    [][ Recover =>
            \A i \in Items : state[i] = "COMPLETED" => state'[i] = "COMPLETED" ]_missionVars
=============================================================================
