---------------------------- MODULE TravelShift ----------------------------
(***************************************************************************)
(* The unattended shift: scripts/run_shift_10l_travel_mode.py runs session *)
(* after session of BoundedContinuationService                             *)
(* (src/lucius/runtime/continuation.py); a session takes work from the     *)
(* queue and, when the queue has none, lets DarwinBacklogFeeder            *)
(* (runtime/feeder.py) and GlobalWorkPortfolioService                      *)
(* (portfolio/service.py) turn entries of the research backlog and of the  *)
(* project registry into workflows of one item each.                       *)
(*                                                                         *)
(* The first write of a session takes the lock of the SQLite file and its  *)
(* commit gives it back: until then its rows are its own, and a process    *)
(* that dies loses them.  Reads take no lock, which is what the feed at    *)
(* the start of a shift begins with.  Selection among the READY items,     *)
(* plans and the classes of waits have modules of their own (RuntimeLoop,  *)
(* DurableMission); here any READY item may be next and a wait is one that *)
(* releases its item when it is cleared.                                   *)
(***************************************************************************)
EXTENDS Integers, SequencesExt

CONSTANTS
    Procs,          \* the shift processes
    Entries,        \* the entries of the Darwin backlog
    Gates,          \* the next gates, READY, of the registered projects
    authority,      \* the authority class of an entry or gate
    withRefs,       \* entries that name provenance references
    rejected,       \* entries the regression guard rejects
    rank,           \* position by priority and id, different for each
    InitialMax,     \* items of the feed that opens a shift (10)
    SessionMax,     \* items of a feed inside a session (5)
    MaxCycles,      \* budget.max_cycles
    MaxConsecutive, \* budget.max_consecutive_failures
    MaxTotal,       \* budget.max_total_failures
    MaxFlows,       \* bound: number of workflows
    MaxWaits        \* bound: number of waits recorded

Sources == Entries \cup Gates
allowed_authority_classes == {"CLASS_A", "CLASS_B"}

ASSUME SourceAssumption ==
    /\ Entries \cap Gates = {} /\ IsFiniteSet(Sources)
    /\ authority \in [Sources -> allowed_authority_classes \cup {"CLASS_C", "CLASS_D"}]
    /\ withRefs \subseteq Entries /\ rejected \subseteq Entries
    /\ rank \in [Sources -> Nat]
    /\ \A e, f \in Sources : rank[e] = rank[f] => e = f
    /\ {InitialMax, SessionMax, MaxCycles, MaxConsecutive, MaxTotal} \subseteq Nat \ {0}
    /\ MaxFlows \in Nat /\ MaxWaits \in Nat

VARIABLES
    rows,           \* the committed rows of the shift's database
    tx,             \* the session in progress: who, and its own rows
    shift           \* the processes

shiftVars == <<rows, tx, shift>>

\* RUNNING is an item an operator started; WAITING_EXTERNAL is as WAITING_HUMAN.
ItemState == {"READY", "RUNNING", "COMPLETED", "WAITING_HUMAN", "WAITING_RESOURCE"}
\* A workflow and its item: the entry, who fed it, and how many workflows the
\* feeding process had seen when it read the keys of those that exist.
Flow == [entry : Sources, by : {"feeder", "portfolio"}, proc : Procs, seen : Nat,
         state : ItemState]
Rows == [flows : Seq(Flow), waits : SUBSET Sources, recorded : 0..MaxWaits,
         mission : {"NONE", "ACTIVE", "WAITING", "PAUSED", "COMPLETED"}]
NoTx == [proc |-> "nobody"]
Off == [pc |-> "off", seen |-> 0, cycles |-> 0, streak |-> 0, failures |-> 0,
        exhausted |-> FALSE, report |-> "NONE"]
Resting == [Off EXCEPT !.pc = "idle"]

----------------------------------------------------------------------------
(* The mission.                                                            *)

StatesOf(r) == {r.flows[k].state : k \in DOMAIN r.flows}

\* reconcile_mission_state; SLEEPING is as WAITING.
Reconciled(r) ==
    LET st == StatesOf(r)
    IN  [r EXCEPT !.mission =
            CASE "READY" \in st -> "ACTIVE"
              [] "READY" \notin st /\ @ = "PAUSED" -> "PAUSED"
              [] @ # "PAUSED" /\ r.waits = {} /\ st = {"COMPLETED"} -> "COMPLETED"
              [] OTHER -> "WAITING"]

SetState(flows, k, st) == [flows EXCEPT ![k].state = st]
\* _update_item_state: the item id names the entry, and the first workflow
\* that has it is changed.
FirstOf(r, e) ==
    LET with == {k \in DOMAIN r.flows : r.flows[k].entry = e}
    IN  IF with = {} THEN {} ELSE {Min(with)}
Updated(r, E, st) ==
    [k \in DOMAIN r.flows |-> IF \E e \in E : k \in FirstOf(r, e)
                              THEN [r.flows[k] EXCEPT !.state = st] ELSE r.flows[k]]
\* Waits cleared, whatever state the items have come to.
WithCleared(r, E) ==
    Reconciled([r EXCEPT !.waits = @ \ E, !.flows = Updated(r, E, "READY")])

----------------------------------------------------------------------------
(* The feed.  The owners of the backlog file change an entry's status when *)
(* they like: every reading of it finds statuses of its own.               *)
Readings == [Entries -> {"READY", "NEEDS_EVIDENCE", "OTHER"}]

\* A key is forgotten with its item.
MutKeys(r, seen) == {r.flows[k].entry : k \in {j \in 1..seen :
                        r.flows[j].state # "COMPLETED"}}
\* _get_existing_dedupe_keys: the entries of the workflows a reader saw.
Keys(r, seen) == {r.flows[k].entry : k \in 1..seen}

FirstN(s, n) == SubSeq(s, 1, IF n <= Len(s) THEN n ELSE Len(s))
\* the enumerations of a set in an order: one, for an order that is total
Listings(S, before) ==
    {s \in [1..Cardinality(S) -> S] :
        \A i, j \in DOMAIN s : i < j => <<s[i], s[j]>> \in before}
ByRank == {r \in Sources \X Sources : rank[r[1]] < rank[r[2]]}

\* discover_eligible_tasks, without the entries that have a workflow.
Candidates(keys, status) ==
    {e \in Entries \ keys : /\ status[e] = "READY"
                            /\ authority[e] \in allowed_authority_classes
                            /\ e \notin rejected}
Selections(keys, n, status) ==
    {FirstN(s, n) : s \in Listings(Candidates(keys, status), ByRank)}

\* The two adapters: only CLASS_C is held back, and no guard is asked.
BacklogPackages(status) ==
    {e \in withRefs : authority[e] # "CLASS_C" /\ status[e] \in {"READY", "NEEDS_EVIDENCE"}}
GatePackages == {g \in Gates : authority[g] # "CLASS_C"}
\* discover_global_work: READY packages before AUTO_PREPARABLE ones.
PreparedFirst(status) ==
    LET Prepared == Gates \cup {e \in Entries : status[e] = "READY"}
    IN  {r \in Sources \X Sources :
            IF r[1] \in Prepared <=> r[2] \in Prepared THEN r \in ByRank ELSE r[1] \in Prepared}
\* feed_portfolio_into_queue: those that have no workflow.
Portfolios(keys, n, status) ==
    {FirstN(s, n) : s \in Listings((BacklogPackages(status) \cup GatePackages) \ keys,
                                   PreparedFirst(status))}

\* feed_into_queue: the entries of the new workflows, in the order they are
\* created; the portfolio fills up before the selected entries are written,
\* and is not asked when no entry of the backlog is eligible, fed or not.  It
\* reads the keys again, a little later.
Batch(filled, selected) ==
    [k \in DOMAIN filled |-> <<filled[k], "portfolio">>]
        \o [k \in DOMAIN selected |-> <<selected[k], "feeder">>]
Batches(keys, later, n, status) ==
    UNION {{Batch(filled, selected) :
                filled \in IF Candidates({}, status) = {} THEN {<<>>}
                           ELSE Portfolios(later, n - Len(selected), status)} :
            selected \in Selections(keys, n, status)}
WithBatch(r, p, seen, batch) ==
    [r EXCEPT !.flows = @ \o [k \in DOMAIN batch |->
        [entry |-> batch[k][1], by |-> batch[k][2], proc |-> p, seen |-> seen,
         state |-> "READY"]]]

----------------------------------------------------------------------------
(* The process.                                                            *)

Alive == {p \in Procs : shift[p].pc # "off"}
At(p, pc) == shift[p].pc = pc
MayWrite == tx = NoTx
Owns(p) == tx # NoTx /\ tx.proc = p
Work(p, r) == tx' = [proc |-> p, rows |-> r]

ShiftInit ==
    /\ rows = [flows |-> <<>>, waits |-> {}, recorded |-> 0, mission |-> "NONE"]
    /\ tx = NoTx
    /\ shift = [p \in Procs |-> Off]

(* The mission is created, or recovered with its expired waits, and        *)
(* committed.                                                              *)
OpenShift(p) ==
    /\ At(p, "start") /\ MayWrite
    /\ \E expired \in SUBSET rows.waits :
        rows' = IF rows.mission = "NONE" THEN [rows EXCEPT !.mission = "ACTIVE"]
                ELSE WithCleared(rows, expired)
    /\ shift' = [shift EXCEPT ![p].pc = "keys"]
    /\ UNCHANGED tx

(* The opening feed reads the keys without a lock ...                      *)
ReadKeys(p) ==
    /\ At(p, "keys")
    /\ shift' = [shift EXCEPT ![p].pc = "ingest", ![p].seen = Len(rows.flows)]
    /\ UNCHANGED <<rows, tx>>

(* ... and writes and commits the workflows.                               *)
Ingest(p) ==
    /\ At(p, "ingest") /\ MayWrite
    /\ \E status \in Readings, again \in shift[p].seen..Len(rows.flows) :
        \E batch \in Batches(Keys(rows, shift[p].seen), Keys(rows, again), InitialMax, status) :
            /\ Len(rows.flows) + Len(batch) <= MaxFlows
            /\ rows' = WithBatch(rows, p, shift[p].seen, batch)
    /\ shift' = [shift EXCEPT ![p] = Resting]
    /\ UNCHANGED tx

(* run_session begins: the mission is recovered.                           *)
BeginSession(p) ==
    /\ At(p, "idle") /\ MayWrite
    /\ \E expired \in SUBSET rows.waits : Work(p, WithCleared(rows, expired))
    /\ shift' = [shift EXCEPT ![p] = [Off EXCEPT !.pc = "session"]]
    /\ UNCHANGED rows

WithinBudget(p) ==
    /\ shift[p].cycles < MaxCycles
    /\ shift[p].streak < MaxConsecutive
    /\ shift[p].failures < MaxTotal

\* One cycle of the session of p over its rows.
Cycle(p) == At(p, "session") /\ Owns(p) /\ WithinBudget(p)
\* Nothing is dispatched while any item is RUNNING.
Selectable(r) ==
    IF "RUNNING" \in StatesOf(r) THEN {}
    ELSE {k \in DOMAIN r.flows : r.flows[k].state = "READY"}
Spend(s) == [s EXCEPT !.cycles = @ + 1]

(* The run took an item.  FAILED is a failure beyond the task; others are  *)
(* recorded as BLOCKED; an escalation ends the session.                    *)
RunItem(p) ==
    /\ Cycle(p)
    /\ \E k \in Selectable(tx.rows), outcome \in {"COMPLETED", "BLOCKED", "FAILED", "ESCALATED"} :
        LET failed == IF outcome = "FAILED" THEN 1 ELSE 0
        IN  /\ Work(p, [tx.rows EXCEPT !.flows =
                    SetState(@, k, IF outcome = "COMPLETED" THEN "COMPLETED" ELSE "WAITING_HUMAN")])
            /\ shift' = [shift EXCEPT ![p] =
                    [Spend(shift[p]) EXCEPT
                        !.failures = @ + failed,
                        !.streak = IF outcome = "ESCALATED" THEN @ ELSE failed * (@ + 1),
                        !.pc = IF outcome = "ESCALATED" THEN "commit" ELSE @,
                        !.report = IF outcome = "ESCALATED" THEN "ESCALATED" ELSE @]]
    /\ UNCHANGED rows

(* It took none, and waits have expired meanwhile.                         *)
ClearWaits(p) ==
    /\ Cycle(p) /\ Selectable(tx.rows) = {}
    /\ \E expired \in SUBSET tx.rows.waits :
        expired # {} /\ Work(p, WithCleared(tx.rows, expired))
    /\ shift' = [shift EXCEPT ![p] = Spend(@)]
    /\ UNCHANGED rows

\* The feeder is asked unless a wait is open or it had nothing before.
AsksFeeder(p) == tx.rows.waits = {} /\ ~shift[p].exhausted
SessionBatches(status) ==
    LET keys == Keys(tx.rows, Len(tx.rows.flows))
    IN  Batches(keys, keys, SessionMax, status)

FeedMore(p) ==
    /\ Cycle(p) /\ Selectable(tx.rows) = {} /\ AsksFeeder(p)
    /\ \E status \in Readings :
        \E batch \in SessionBatches(status) :
            /\ batch # <<>>
            /\ Len(tx.rows.flows) + Len(batch) <= MaxFlows
            /\ Work(p, WithBatch(tx.rows, p, Len(tx.rows.flows), batch))
    /\ shift' = [shift EXCEPT ![p] = Spend(@)]
    /\ UNCHANGED rows

\* What the session counts as waiting leaves WAITING_HUMAN out.
WaitingCount(r) == "WAITING_RESOURCE" \in StatesOf(r) \/ r.waits # {}
MutReportOf(r) ==
    IF WaitingCount(r) THEN "WAITING"
    ELSE IF "WAITING_HUMAN" \notin StatesOf(r) THEN "COMPLETED" ELSE "IDLE"
ReportOf(r) ==
    IF Reconciled(r).mission = "COMPLETED" THEN "COMPLETED"
    ELSE IF WaitingCount(r) THEN "WAITING" ELSE "IDLE"

(* Nothing to run, to clear or to feed: the session rests.                 *)
Rest(p) ==
    /\ Cycle(p) /\ Selectable(tx.rows) = {}
    /\ AsksFeeder(p) => \E status \in Readings : <<>> \in SessionBatches(status)
    /\ Work(p, Reconciled(tx.rows))
    /\ shift' = [shift EXCEPT ![p] = [Spend(shift[p]) EXCEPT
            !.pc = "commit", !.exhausted = @ \/ AsksFeeder(p),
            !.report = ReportOf(tx.rows)]]
    /\ UNCHANGED rows

(* The cycles, the failures or the time of the session are used up.        *)
Exhaust(p) ==
    /\ At(p, "session") /\ Owns(p)
    /\ \E timeUp \in BOOLEAN :
        /\ timeUp \/ ~WithinBudget(p)
        /\ shift' = [shift EXCEPT ![p].pc = "commit", ![p].report =
                IF timeUp \/ shift[p].cycles >= MaxCycles THEN "BUDGET_EXHAUSTED" ELSE "FAILED"]
    /\ UNCHANGED <<rows, tx>>

(* The last reconciliation, the commit, and the sleep that follows.        *)
CommitSession(p) ==
    /\ At(p, "commit") /\ Owns(p)
    /\ rows' = Reconciled(tx.rows)
    /\ tx' = NoTx
    /\ shift' = [shift EXCEPT ![p] = Resting]

(* The shift's time is over, or a signal pauses the mission.               *)
EndShift(p) ==
    /\ At(p, "idle") /\ MayWrite
    /\ rows' = Reconciled(rows)
    /\ shift' = [shift EXCEPT ![p] = Off]
    /\ UNCHANGED tx
Interrupted(p) ==
    /\ At(p, "idle") /\ MayWrite
    /\ rows' = Reconciled([rows EXCEPT !.mission = "PAUSED"])
    /\ shift' = [shift EXCEPT ![p] = Off]
    /\ UNCHANGED tx

(* The process dies: killed, a write that waits ten seconds for the lock,  *)
(* or a mission whose canonical SHA is no longer HEAD.                     *)
ShiftDies(p) ==
    /\ p \in Alive
    /\ tx' = IF Owns(p) THEN NoTx ELSE tx
    /\ shift' = [shift EXCEPT ![p] = Off]
    /\ UNCHANGED rows

ShiftStep(p) ==
    \/ OpenShift(p) \/ ReadKeys(p) \/ Ingest(p)
    \/ BeginSession(p) \/ RunItem(p) \/ ClearWaits(p) \/ FeedMore(p) \/ Rest(p)
    \/ Exhaust(p) \/ CommitSession(p)
    \/ EndShift(p) \/ Interrupted(p) \/ ShiftDies(p)

----------------------------------------------------------------------------
(* Around the process: the queue's operators, and callers that record a    *)
(* wait for a fed item.                                                    *)
OperatorMoves(from, to) ==
    /\ MayWrite
    /\ \E k \in DOMAIN rows.flows :
        /\ rows.flows[k].state = from
        /\ rows' = [rows EXCEPT !.flows = SetState(@, k, to)]
    /\ UNCHANGED <<tx, shift>>
OperatorStarts == OperatorMoves("READY", "RUNNING")
OperatorResolves == OperatorMoves("WAITING_HUMAN", "READY")

RecordWait ==
    /\ MayWrite /\ rows.mission # "NONE" /\ rows.recorded < MaxWaits
    /\ \E k \in DOMAIN rows.flows :
        LET e == rows.flows[k].entry
        IN  rows' = Reconciled([rows EXCEPT !.waits = @ \cup {e}, !.recorded = @ + 1,
                                            !.flows = Updated(rows, {e}, "WAITING_RESOURCE")])
    /\ UNCHANGED <<tx, shift>>

Around == OperatorStarts \/ OperatorResolves \/ RecordWait
----------------------------------------------------------------------------
(* Work is fed once.  Two workflows of one entry come only from one call,  *)
(* by the portfolio first and the feeder next, or from two shifts at once, *)
(* the later of which read the keys before the earlier had written: not    *)
(* from crashes, rolled back sessions, restarts, a shift after a shift, or *)
(* an entry that changes its status.                                       *)
EntryFedOnce ==
    LET f == rows.flows
    IN  \A i, j \in DOMAIN f : i < j /\ f[i].entry = f[j].entry =>
            /\ i > f[j].seen
            /\ f[i].proc = f[j].proc =>
                    f[i].seen = f[j].seen /\ f[i].by = "portfolio" /\ f[j].by = "feeder"

(* What a session reports when it rests is so: it reports COMPLETED only   *)
(* when every item is COMPLETED, no wait could still release one and the   *)
(* feeder had nothing more; and no item is READY, unless an item that an   *)
(* operator left RUNNING holds up the queue.                               *)
RestIsJustified ==
    \A p \in Procs : At(p, "commit") /\ shift[p].report \in {"COMPLETED", "WAITING", "IDLE"} =>
        LET st == StatesOf(tx.rows)
        IN  /\ "READY" \in st => "RUNNING" \in st
            /\ shift[p].report = "COMPLETED" =>
                    st = {"COMPLETED"} /\ tx.rows.waits = {} /\ shift[p].exhausted
            /\ shift[p].report = "WAITING" <=>
                    shift[p].report # "COMPLETED" /\ WaitingCount(tx.rows)
=============================================================================
