---------------------------- MODULE ShiftHandoff ----------------------------
(***************************************************************************)
(* Who starts the unattended shift: a watchdog                             *)
(* (scripts/watchdog_shift_10j_to_10l.py) waits for the endurance shift    *)
(* (scripts/run_shift_10j_attempt_2.py) to have run its six hours and      *)
(* launches the travel shift.  People start watchdogs, and nothing keeps   *)
(* two of them apart; what each sees of the others is the process table,   *)
(* the state file, the checkpoint log and the clock, and its launch        *)
(* follows its look at these in a step of its own.                         *)
(*   The boot recovery (src/lucius/runtime/recovery.py) takes no part: it  *)
(* launches nothing while a process runs or without the endurance shift's  *)
(* database, and with it line 238 selects a column mission_metadata that   *)
(* durable_missions does not have (persistence/orm.py:708), so that it     *)
(* answers RECOVERY_BLOCKED.  After a power loss people start again.       *)
(***************************************************************************)
EXTENDS TravelShift

CONSTANTS
    Watchdogs,      \* the watchdog processes
    MinDuration,    \* min_duration_seconds, in the units of the clock
    MaxClock,       \* bound: the clock, and the time of the last restart
    MaxLaunches     \* bound: launches of the shift

ASSUME HandoffAssumption ==
    /\ MinDuration \in Nat \ {0}
    /\ MaxClock \in Nat /\ MaxLaunches \in Nat

VARIABLES
    clock,          \* time since T0, the start of the endurance shift
    endurance,      \* the endurance shift: alive, its own time, whether its pid
                    \* is the one the watchdog was given
    log,            \* elapsed time in the last line of its log, 0 if none
    endured,        \* the longest time one of its processes has run
    watch,          \* the watchdogs
    file,           \* the status in the watchdog's state file
    launch,         \* per shift process: the number of its launch, and how
                    \* many its starter had seen
    launches,       \* the number of launches
    byTimestamps    \* a gate has been passed without a checkpoint line

handoffOnly == <<clock, endurance, log, endured, watch, file,
                 launch, launches, byTimestamps>>
handoffVars == <<shiftVars, handoffOnly>>

\* The statuses in the file; those of a watchdog at work, WAITING_FOR_10J,
\* WAITING_FOR_10J_PROCESS_EXIT and EVALUATING_GATE, are read by none as different.
WatchStatus == {"NONE", "WORKING", "HANDOFF_LAUNCHED", "HANDOFF_BLOCKED"}
Idle == [pc |-> "off", passed |-> FALSE, saw |-> 0]
Ended == [alive |-> FALSE, ran |-> 0, known |-> FALSE]
NoLaunch == [no |-> 0, saw |-> 0]

MutNoShiftSeen == file # "HANDOFF_LAUNCHED"
\* The process table: no line of it is a travel shift's.
NoShiftSeen == Alive = {}
\* A pid may be another process's after a boot: a watchdog that takes it for
\* the shift exits or waits, which is a step not taken.
Running10L == ~NoShiftSeen
PidAlive10J == endurance.alive /\ endurance.known

----------------------------------------------------------------------------
(* The endurance shift: run_overnight_attempt.                             *)
Tick ==
    /\ clock < MaxClock
    /\ endurance.alive => endurance.ran < MinDuration
    /\ clock' = clock + 1
    /\ IF endurance.alive
       THEN /\ endurance' = [endurance EXCEPT !.ran = @ + 1]
            /\ endured' = Max({endured, endurance.ran + 1})
       ELSE UNCHANGED <<endurance, endured>>
    /\ UNCHANGED <<shiftVars, log, watch, file, launch, launches, byTimestamps>>

MutCheckpoint ==
    /\ endurance.alive /\ clock > 0
    /\ log' = clock
    /\ UNCHANGED <<shiftVars, clock, endurance, endured, watch, file,
                   launch, launches, byTimestamps>>
\* A line of the log, with the process's own time; none need be due at the end.
Checkpoint ==
    /\ endurance.alive /\ endurance.ran > 0
    /\ log' = endurance.ran
    /\ UNCHANGED <<shiftVars, clock, endurance, endured, watch, file,
                   launch, launches, byTimestamps>>

\* It ends with its time, by a signal or by a crash, and may be started again.
EnduranceEnds ==
    /\ endurance.alive
    /\ endurance' = Ended
    /\ UNCHANGED <<shiftVars, clock, log, endured, watch, file,
                   launch, launches, byTimestamps>>
EnduranceRestarts ==
    /\ ~endurance.alive
    /\ clock < MaxClock
    /\ endurance' = [alive |-> TRUE, ran |-> 0, known |-> FALSE]
    /\ UNCHANGED <<shiftVars, clock, log, endured, watch, file,
                   launch, launches, byTimestamps>>

----------------------------------------------------------------------------
(* The watchdog: run_watchdog_loop.                                        *)
WatchOnly(w, st) ==
    /\ watch' = [watch EXCEPT ![w] = st]
    /\ UNCHANGED <<shiftVars, clock, endurance, log, endured, launch, launches>>
Watching(w, pc) == watch[w].pc = pc
\* The next phase, whose status is saved.
Phase(w, pc, st) ==
    /\ WatchOnly(w, [watch[w] EXCEPT !.pc = pc])
    /\ file' = st
    /\ UNCHANGED byTimestamps

\* A first look that fails leads where a watchdog is that started before the
\* launch: it is not a step of its own.
MayWatch == ~Running10L /\ file # "HANDOFF_BLOCKED"
FirstStatus == IF file = "NONE" THEN "WORKING" ELSE file
WatchdogStarts(w) ==
    /\ Watching(w, "off")
    /\ MayWatch
    /\ Phase(w, "threshold", FirstStatus)

WatchdogThreshold(w) ==
    /\ Watching(w, "threshold")
    /\ clock >= MinDuration
    /\ Phase(w, "release", "WORKING")

WatchdogReleased(w) ==
    /\ Watching(w, "release")
    /\ ~PidAlive10J
    /\ Phase(w, "gate", "WORKING")

MutAccepted == log >= MinDuration \/ clock >= MinDuration
\* verify_10j_acceptance_evidence: the last line of the log or, without one,
\* the time that has passed since T0.
Accepted == IF log # 0 THEN log >= MinDuration ELSE clock >= MinDuration

\* A database, mission or line that it cannot read fails the gate.
WatchdogGate(w) ==
    /\ Watching(w, "gate")
    /\ \E passed \in {FALSE, Accepted} :
        /\ WatchOnly(w, [watch[w] EXCEPT !.pc = "recheck", !.passed = passed])
        /\ byTimestamps' = (byTimestamps \/ (log = 0 /\ passed))
    /\ UNCHANGED file

\* What one knows that has seen no shift: the launches so far or, if ps fails,
\* which counts as no shift, none of them.
ClearLooks == {0} \cup (IF NoShiftSeen THEN {launches} ELSE {})

\* The second look at the process table; the state in memory names no launch.
WatchdogRecheck(w) ==
    /\ Watching(w, "recheck")
    /\ \/ /\ Running10L
          /\ WatchOnly(w, Idle)
          /\ UNCHANGED file
       \/ /\ ~watch[w].passed
          /\ WatchOnly(w, Idle)
          /\ file' = "HANDOFF_BLOCKED"
       \/ /\ watch[w].passed
          /\ \E saw \in ClearLooks :
                WatchOnly(w, [watch[w] EXCEPT !.pc = "launch", !.saw = saw])
          /\ UNCHANGED file
    /\ UNCHANGED byTimestamps

\* Popen: a shift process, launched by one that knew of that many launches.
Launch(p, saw) ==
    /\ p \notin Alive
    /\ launches < MaxLaunches
    /\ launches' = launches + 1
    /\ launch' = [launch EXCEPT ![p] = [no |-> launches + 1, saw |-> saw]]
    /\ shift' = [shift EXCEPT ![p].pc = "start"]
    /\ UNCHANGED <<rows, tx>>

WatchdogLaunches(w) ==
    /\ Watching(w, "launch")
    /\ \E p \in Procs : Launch(p, watch[w].saw)
    /\ watch' = [watch EXCEPT ![w] = [Idle EXCEPT !.pc = "save"]]
    /\ UNCHANGED <<clock, endurance, log, endured, file, byTimestamps>>

WatchdogSaves(w) ==
    /\ Watching(w, "save")
    /\ WatchOnly(w, Idle)
    /\ file' = "HANDOFF_LAUNCHED"
    /\ UNCHANGED byTimestamps

WatchdogDies(w) ==
    /\ ~Watching(w, "off")
    /\ WatchOnly(w, Idle)
    /\ UNCHANGED <<file, byTimestamps>>

WatchdogStep(w) ==
    \/ WatchdogStarts(w) \/ WatchdogThreshold(w) \/ WatchdogReleased(w) \/ WatchdogGate(w)
    \/ WatchdogRecheck(w) \/ WatchdogLaunches(w) \/ WatchdogSaves(w) \/ WatchdogDies(w)

----------------------------------------------------------------------------
(* The power is lost: every process is gone, and its session rolled back.  *)
Reboot ==
    /\ endurance' = Ended
    /\ watch' = [w \in Watchdogs |-> Idle]
    /\ shift' = [p \in Procs |-> Off]
    /\ tx' = NoTx
    /\ launch' = [p \in Procs |-> NoLaunch]
    /\ UNCHANGED <<rows, clock, log, endured, file, launches, byTimestamps>>

HandoffInit ==
    /\ ShiftInit
    /\ clock = 0 /\ log = 0 /\ endured = 0
    /\ endurance = [alive |-> TRUE, ran |-> 0, known |-> TRUE]
    /\ watch = [w \in Watchdogs |-> Idle]
    /\ file = "NONE"
    /\ launch = [p \in Procs |-> NoLaunch] /\ launches = 0
    /\ byTimestamps = FALSE

ShiftRuns ==
    /\ \/ \E p \in Procs : ShiftStep(p)
       \/ Around
    /\ launch' = [p \in Procs |-> IF shift'[p].pc = "off" THEN NoLaunch ELSE launch[p]]
    /\ UNCHANGED <<clock, endurance, log, endured, watch, file, launches, byTimestamps>>

HandoffNext ==
    \/ Tick \/ Checkpoint \/ EnduranceEnds \/ EnduranceRestarts
    \/ \E w \in Watchdogs : WatchdogStep(w)
    \/ Reboot \/ ShiftRuns

HandoffSpec == HandoffInit /\ [][HandoffNext]_handoffVars
----------------------------------------------------------------------------
(* Type correctness of the shift's rows and processes and of its starters. *)
HandoffTypeOK ==
    /\ rows \in Rows
    /\ tx # NoTx => tx.proc \in Alive /\ tx.rows \in Rows
    /\ \A p \in Procs : /\ shift[p].pc \in {"session", "commit"} <=> Owns(p)
                        /\ shift[p].cycles \in 0..MaxCycles
                        /\ shift[p].streak <= shift[p].failures
    /\ file \in WatchStatus
    /\ endured \in 0..MinDuration /\ log \in 0..endured

(* Endurance is earned: a travel shift is launched only after one process  *)
(* of the endurance shift has run the required time without a break, or if *)
(* none had written a line of its log when a gate looked.  Time that went  *)
(* by while the machine was down, or over two processes, is credited in    *)
(* that case only (verify_10j_acceptance_evidence).                        *)
HandoffIsEarned == Alive # {} => endured >= MinDuration \/ byTimestamps

(* One owner: two travel shifts run at once only if the watchdog that      *)
(* launched the later one had not seen the earlier one: it had looked      *)
(* before that was launched, or its look had failed (run_watchdog_loop,    *)
(* is_10l_already_running).                                                *)
SecondShiftOnlyByRace ==
    \A p, q \in Alive : launch[p].no < launch[q].no => launch[q].saw < launch[p].no
=============================================================================
