------------------------ MODULE ShiftHandoff_proofs ------------------------
(***************************************************************************)
(* What the travel shift and its starters promise, for every number of     *)
(* processes, entries and gates and every budget.  The rows of the session *)
(* in progress are carried along with the committed ones: a commit is then *)
(* a step from one promise to the same promise.                            *)
(***************************************************************************)
EXTENDS ShiftHandoff, SequenceTheorems, FiniteSetTheorems, TLAPS

----------------------------------------------------------------------------
(* Lists of workflows.                                                     *)

\* The same workflows, but for the states of their items.
SameFeed(f, g) ==
    /\ Len(g) = Len(f)
    /\ \A k \in 1..Len(f) : /\ g[k].entry = f[k].entry /\ g[k].by = f[k].by
                            /\ g[k].proc = f[k].proc /\ g[k].seen = f[k].seen

LEMMA ItemStates ==
    /\ "READY" \in ItemState /\ "RUNNING" \in ItemState /\ "COMPLETED" \in ItemState
    /\ "WAITING_HUMAN" \in ItemState /\ "WAITING_RESOURCE" \in ItemState
BY DEF ItemState

LEMMA SetStateKeeps ==
    ASSUME NEW f \in Seq(Flow), NEW k \in DOMAIN f, NEW st \in ItemState
    PROVE  SetState(f, k, st) \in Seq(Flow) /\ SameFeed(f, SetState(f, k, st))
<1>0. \A j \in 1..Len(f) : f[j] \in Flow
  OBVIOUS
<1>1. [f[k] EXCEPT !.state = st] \in Flow
  <2>1. f[k] \in Flow
    BY <1>0
  <2> QED BY <2>1 DEF Flow
<1>2. SetState(f, k, st) = [f EXCEPT ![k] = [f[k] EXCEPT !.state = st]]
  BY DEF SetState
<1>3. SetState(f, k, st) \in Seq(Flow) /\ Len(SetState(f, k, st)) = Len(f)
  BY <1>1, <1>2
<1>4. ASSUME NEW j \in 1..Len(f)
      PROVE  /\ SetState(f, k, st)[j].entry = f[j].entry /\ SetState(f, k, st)[j].by = f[j].by
             /\ SetState(f, k, st)[j].proc = f[j].proc /\ SetState(f, k, st)[j].seen = f[j].seen
  <2>1. f[j] \in Flow /\ f[k] \in Flow
    BY <1>0
  <2>2. CASE j = k
    BY <1>2, <2>1, <2>2 DEF Flow
  <2>3. CASE j # k
    BY <1>2, <2>3
  <2> QED BY <2>2, <2>3
<1> QED BY <1>3, <1>4 DEF SameFeed

LEMMA RowsFields ==
    ASSUME NEW r \in Rows
    PROVE  /\ r.flows \in Seq(Flow) /\ r.waits \in SUBSET Sources /\ r.recorded \in 0..MaxWaits
           /\ r.mission \in {"NONE", "ACTIVE", "WAITING", "PAUSED", "COMPLETED"}
           /\ DOMAIN r.flows = 1..Len(r.flows) /\ Len(r.flows) \in Nat
           /\ \A k \in DOMAIN r.flows : r.flows[k] \in Flow
BY DEF Rows

\* A change of one part of the rows.
LEMMA RowsChange ==
    ASSUME NEW r \in Rows
    PROVE  /\ \A f \in Seq(Flow) : /\ [r EXCEPT !.flows = f] \in Rows
                                   /\ [r EXCEPT !.flows = f].flows = f
                                   /\ [r EXCEPT !.flows = f].waits = r.waits
           /\ \A m \in {"NONE", "ACTIVE", "WAITING", "PAUSED", "COMPLETED"} :
                /\ [r EXCEPT !.mission = m] \in Rows
                /\ [r EXCEPT !.mission = m].flows = r.flows
                /\ [r EXCEPT !.mission = m].waits = r.waits
                /\ [r EXCEPT !.mission = m].mission = m
           /\ \A w \in SUBSET Sources : /\ [r EXCEPT !.waits = w] \in Rows
                                        /\ [r EXCEPT !.waits = w].flows = r.flows
BY DEF Rows

LEMMA ReconciledKeeps ==
    ASSUME NEW r \in Rows
    PROVE  /\ Reconciled(r) \in Rows
           /\ Reconciled(r).flows = r.flows /\ Reconciled(r).waits = r.waits
           /\ Reconciled(r).mission = "COMPLETED" =>
                StatesOf(r) = {"COMPLETED"} /\ r.waits = {}
<1> DEFINE M == {"NONE", "ACTIVE", "WAITING", "PAUSED", "COMPLETED"}
           Done == StatesOf(r) = {"COMPLETED"} /\ r.waits = {}
<1>1. \E m \in M : Reconciled(r) = [r EXCEPT !.mission = m] /\ (m = "COMPLETED" => Done)
  <2> DEFINE st == StatesOf(r)
  <2>1. CASE "READY" \in st
    BY <2>1 DEF Reconciled
  <2>2. CASE "READY" \notin st /\ r.mission = "PAUSED"
    BY <2>2 DEF Reconciled
  <2>3. CASE r.mission # "PAUSED" /\ r.waits = {} /\ st = {"COMPLETED"}
    BY <2>3 DEF Reconciled
  <2>4. CASE /\ "READY" \notin st /\ r.mission # "PAUSED"
             /\ ~(r.waits = {} /\ st = {"COMPLETED"})
    BY <2>4 DEF Reconciled
  <2> QED BY <2>1, <2>2, <2>3, <2>4
<1>2. PICK m \in M : Reconciled(r) = [r EXCEPT !.mission = m] /\ (m = "COMPLETED" => Done)
  BY <1>1
<1> HIDE DEF Done
<1>3. Reconciled(r).mission = m /\ Reconciled(r).flows = r.flows /\ Reconciled(r).waits = r.waits
  BY <1>2 DEF Rows
<1>4. Reconciled(r) \in Rows
  BY <1>2 DEF Rows
<1> QED BY <1>2, <1>3, <1>4 DEF Done

LEMMA UpdatedKeeps ==
    ASSUME NEW r \in Rows, NEW E, NEW st \in ItemState
    PROVE  Updated(r, E, st) \in Seq(Flow) /\ SameFeed(r.flows, Updated(r, E, st))
<1> DEFINE g == Updated(r, E, st)
<1>1. DOMAIN g = 1..Len(r.flows) /\ Len(r.flows) \in Nat
  BY RowsFields DEF Updated
<1>2. ASSUME NEW k \in 1..Len(r.flows)
      PROVE  /\ g[k] \in Flow
             /\ g[k].entry = r.flows[k].entry /\ g[k].by = r.flows[k].by
             /\ g[k].proc = r.flows[k].proc /\ g[k].seen = r.flows[k].seen
  <2>1. r.flows[k] \in Flow /\ k \in DOMAIN r.flows
    BY RowsFields
  <2>2. g[k] = [r.flows[k] EXCEPT !.state = st] \/ g[k] = r.flows[k]
    BY <2>1 DEF Updated
  <2> QED BY <2>1, <2>2 DEF Flow
<1>3. g \in [1..Len(r.flows) -> Flow]
  BY <1>1, <1>2 DEF Updated
<1>4. g \in Seq(Flow) /\ Len(g) = Len(r.flows)
  BY <1>1, <1>3
<1> QED BY <1>2, <1>4 DEF SameFeed

LEMMA ClearedKeeps ==
    ASSUME NEW r \in Rows, NEW E
    PROVE  WithCleared(r, E) \in Rows /\ SameFeed(r.flows, WithCleared(r, E).flows)
<1> DEFINE f == Updated(r, E, "READY")
           c == [r EXCEPT !.waits = @ \ E, !.flows = f]
<1>1. f \in Seq(Flow) /\ SameFeed(r.flows, f)
  BY UpdatedKeeps, ItemStates
<1> HIDE DEF f
<1>2. c \in Rows /\ c.flows = f
  BY <1>1 DEF Rows
<1>3. WithCleared(r, E) = Reconciled(c)
  BY DEF WithCleared, f
<1> QED BY <1>1, <1>2, <1>3, ReconciledKeeps

----------------------------------------------------------------------------
(* Batches.                                                                *)

\* A listing names each of its entries once.
LEMMA ListingOnce ==
    ASSUME NEW S, IsFiniteSet(S), NEW before, \A e : <<e, e>> \notin before,
           NEW s \in Listings(S, before), NEW n \in Nat
    PROVE  /\ FirstN(s, n) \in Seq(S) /\ Len(FirstN(s, n)) \in 0..n
           /\ \A i, j \in 1..Len(FirstN(s, n)) : i # j => FirstN(s, n)[i] # FirstN(s, n)[j]
<1>1. Cardinality(S) \in Nat
  BY FS_CardinalityType
<1>2. /\ s \in Seq(S) /\ Len(s) = Cardinality(S)
      /\ \A i, j \in 1..Len(s) : i < j => <<s[i], s[j]>> \in before
  BY <1>1 DEF Listings
<1>3. ASSUME NEW i \in 1..Len(s), NEW j \in 1..Len(s), i < j PROVE s[i] # s[j]
  BY <1>2, <1>3
<1>4. PICK m \in 0..Len(s) : m <= n /\ FirstN(s, n) = SubSeq(s, 1, m)
  <2>1. Len(s) \in Nat
    BY <1>2
  <2>2. CASE n <= Len(s)
    BY <2>1, <2>2 DEF FirstN
  <2>3. CASE ~(n <= Len(s))
    BY <2>1, <2>3 DEF FirstN
  <2> QED BY <2>2, <2>3
<1>5. /\ FirstN(s, n) \in Seq(S) /\ Len(FirstN(s, n)) = m
      /\ \A i \in 1..m : FirstN(s, n)[i] = s[i]
  BY <1>2, <1>4, SubSeqProperties
<1>6. ASSUME NEW i \in 1..m, NEW j \in 1..m, i # j PROVE FirstN(s, n)[i] # FirstN(s, n)[j]
  <2>1. i \in 1..Len(s) /\ j \in 1..Len(s) /\ i \in Int /\ j \in Int
    BY <1>2
  <2>2. CASE i < j
    BY <2>1, <2>2, <1>3, <1>5
  <2>3. CASE j < i
    BY <2>1, <2>3, <1>3, <1>5
  <2> QED BY <2>1, <2>2, <2>3, <1>6
<1> QED BY <1>4, <1>5, <1>6

LEMMA OrdersAreStrict ==
    /\ \A e : <<e, e>> \notin ByRank
    /\ \A status, e : <<e, e>> \notin PreparedFirst(status)
BY SourceAssumption DEF ByRank, PreparedFirst

LEMMA SourcesFinite ==
    /\ \A keys, status : IsFiniteSet(Candidates(keys, status))
    /\ \A keys, status : IsFiniteSet((BacklogPackages(status) \cup GatePackages) \ keys)
<1>1. \A S : S \subseteq Sources => IsFiniteSet(S)
  BY SourceAssumption, FS_Subset
<1>2. \A keys, status : Candidates(keys, status) \subseteq Sources
  BY DEF Candidates, Sources
<1>3. \A keys, status : (BacklogPackages(status) \cup GatePackages) \ keys \subseteq Sources
  BY SourceAssumption DEF BacklogPackages, GatePackages, Sources
<1> QED BY <1>1, <1>2, <1>3

\* What a batch may hold: the portfolio's packages and then the feeder's
\* entries, each once, and none whose key was read.
Fresh(batch, keys, later) ==
    /\ batch \in Seq(Sources \X {"feeder", "portfolio"})
    /\ \A i \in 1..Len(batch) : /\ batch[i][2] = "feeder" => batch[i][1] \notin keys
                                /\ batch[i][2] = "portfolio" => batch[i][1] \notin later
    /\ \A i, j \in 1..Len(batch) : i < j /\ batch[i][1] = batch[j][1] =>
            batch[i][2] = "portfolio" /\ batch[j][2] = "feeder"

LEMMA BatchFresh ==
    ASSUME NEW keys, NEW later,
           NEW f \in Seq(Sources), NEW s \in Seq(Sources),
           \A i \in 1..Len(f) : f[i] \notin later,
           \A i \in 1..Len(s) : s[i] \notin keys,
           \A i, j \in 1..Len(f) : i # j => f[i] # f[j],
           \A i, j \in 1..Len(s) : i # j => s[i] # s[j]
    PROVE  Fresh(Batch(f, s), keys, later)
<1> DEFINE T == Sources \X {"feeder", "portfolio"}
           a == [k \in DOMAIN f |-> <<f[k], "portfolio">>]
           b == [k \in DOMAIN s |-> <<s[k], "feeder">>]
           c == Batch(f, s)
<1>0. Len(f) \in Nat /\ Len(s) \in Nat /\ DOMAIN f = 1..Len(f) /\ DOMAIN s = 1..Len(s)
  OBVIOUS
<1>1. a \in [1..Len(f) -> T] /\ b \in [1..Len(s) -> T]
  <2>1. \A k \in 1..Len(f) : f[k] \in Sources
    OBVIOUS
  <2>2. \A k \in 1..Len(s) : s[k] \in Sources
    OBVIOUS
  <2> QED BY <1>0, <2>1, <2>2
<1>2. a \in Seq(T) /\ b \in Seq(T) /\ Len(a) = Len(f) /\ Len(b) = Len(s)
  BY <1>0, <1>1
<1>3. c = a \o b
  BY DEF Batch
<1>4. /\ \A k \in 1..Len(f) : a[k][1] = f[k] /\ a[k][2] = "portfolio"
      /\ \A k \in 1..Len(s) : b[k][1] = s[k] /\ b[k][2] = "feeder"
  BY <1>0
<1> HIDE DEF a, b, c, T
<1>5. /\ c \in Seq(T) /\ Len(c) = Len(f) + Len(s)
      /\ \A i \in 1..Len(c) : c[i] = IF i <= Len(f) THEN a[i] ELSE b[i - Len(f)]
  <2>1. /\ a \o b \in Seq(T) /\ Len(a \o b) = Len(a) + Len(b)
        /\ \A i \in 1..Len(a) + Len(b) : (a \o b)[i] = IF i <= Len(a) THEN a[i] ELSE b[i - Len(a)]
    BY <1>2, ConcatProperties
  <2> QED BY <1>0, <1>2, <1>3, <2>1
<1>6. ASSUME NEW i \in 1..Len(c)
      PROVE  \/ i \in 1..Len(f) /\ c[i][1] = f[i] /\ c[i][2] = "portfolio"
             \/ i - Len(f) \in 1..Len(s) /\ c[i][1] = s[i - Len(f)] /\ c[i][2] = "feeder"
  <2>1. CASE i <= Len(f)
    <3>1. i \in 1..Len(f) /\ c[i] = a[i]
      BY <1>0, <1>5, <2>1
    <3> QED BY <3>1, <1>4
  <2>2. CASE ~(i <= Len(f))
    <3>1. i - Len(f) \in 1..Len(s) /\ c[i] = b[i - Len(f)]
      BY <1>0, <1>5, <2>2
    <3> QED BY <3>1, <1>4
  <2> QED BY <2>1, <2>2
<1>7. ASSUME NEW i \in 1..Len(c)
      PROVE  /\ c[i][2] = "feeder" => c[i][1] \notin keys
             /\ c[i][2] = "portfolio" => c[i][1] \notin later
  BY <1>6
<1>8. ASSUME NEW i \in 1..Len(c), NEW j \in 1..Len(c), i < j, c[i][1] = c[j][1]
      PROVE  c[i][2] = "portfolio" /\ c[j][2] = "feeder"
  <2>1. CASE i \in 1..Len(f) /\ j \in 1..Len(f)
    <3>1. c[i][1] = f[i] /\ c[j][1] = f[j]
      BY <1>0, <1>5, <1>6, <2>1
    <3>2. i # j
      BY <1>0, <1>8
    <3> QED BY <2>1, <1>8, <3>1, <3>2
  <2>2. CASE i - Len(f) \in 1..Len(s) /\ j - Len(f) \in 1..Len(s)
    <3>1. c[i][1] = s[i - Len(f)] /\ c[j][1] = s[j - Len(f)]
      BY <1>0, <1>5, <1>6, <2>2
    <3>2. i - Len(f) # j - Len(f)
      BY <1>0, <1>8
    <3> QED BY <2>2, <1>8, <3>1, <3>2
  <2>3. CASE i - Len(f) \in 1..Len(s) /\ j \in 1..Len(f)
    BY <1>0, <1>8, <2>3
  <2>4. CASE i \in 1..Len(f) /\ j - Len(f) \in 1..Len(s)
    BY <1>0, <1>6, <2>4
  <2> QED BY <1>6, <2>1, <2>2, <2>3, <2>4
<1>9. Fresh(c, keys, later)
  BY <1>5, <1>7, <1>8 DEF Fresh, T
<1> QED BY <1>9 DEF c

LEMMA BatchesFresh ==
    ASSUME NEW keys, NEW later, NEW n \in Nat, NEW status, NEW batch \in Batches(keys, later, n, status)
    PROVE  Fresh(batch, keys, later)
<1>1. PICK selected \in Selections(keys, n, status) :
        \E filled \in IF Candidates({}, status) = {} THEN {<<>>}
                      ELSE Portfolios(later, n - Len(selected), status) :
            batch = Batch(filled, selected)
  BY DEF Batches
<1>2. PICK filled \in IF Candidates({}, status) = {} THEN {<<>>}
                      ELSE Portfolios(later, n - Len(selected), status) :
        batch = Batch(filled, selected)
  BY <1>1
<1>3. /\ selected \in Seq(Sources) /\ Len(selected) \in 0..n
      /\ \A i \in 1..Len(selected) : selected[i] \notin keys
      /\ \A i, j \in 1..Len(selected) : i # j => selected[i] # selected[j]
  <2> DEFINE S == Candidates(keys, status)
  <2>1. PICK s \in Listings(S, ByRank) : selected = FirstN(s, n)
    BY <1>1 DEF Selections
  <2>2. /\ selected \in Seq(S) /\ Len(selected) \in 0..n
        /\ \A i, j \in 1..Len(selected) : i # j => selected[i] # selected[j]
    BY <2>1, ListingOnce, OrdersAreStrict, SourcesFinite
  <2>3. S \subseteq Sources /\ \A e \in S : e \notin keys
    BY DEF Candidates, Sources
  <2> HIDE DEF S
  <2>4. \A i \in 1..Len(selected) : selected[i] \in S
    BY <2>2
  <2>5. selected \in Seq(Sources)
    BY <2>2, <2>3, <2>4
  <2> QED BY <2>2, <2>3, <2>4, <2>5
<1>4. /\ filled \in Seq(Sources)
      /\ \A i \in 1..Len(filled) : filled[i] \notin later
      /\ \A i, j \in 1..Len(filled) : i # j => filled[i] # filled[j]
  <2>1. CASE Candidates({}, status) = {}
    <3>1. filled = <<>>
      BY <1>2, <2>1
    <3> QED BY <3>1
  <2>2. CASE Candidates({}, status) # {}
    <3> DEFINE S == (BacklogPackages(status) \cup GatePackages) \ later
               m == n - Len(selected)
    <3>1. m \in Nat
      BY <1>3
    <3> HIDE DEF m
    <3>2. PICK s \in Listings(S, PreparedFirst(status)) : filled = FirstN(s, m)
      BY <1>2, <2>2 DEF Portfolios, m
    <3>3. /\ filled \in Seq(S)
          /\ \A i, j \in 1..Len(filled) : i # j => filled[i] # filled[j]
      <4>1. IsFiniteSet(S)
        BY SourcesFinite
      <4>2. \A e : <<e, e>> \notin PreparedFirst(status)
        BY OrdersAreStrict
      <4> HIDE DEF S
      <4> QED BY <3>1, <3>2, <4>1, <4>2, ListingOnce
    <3>4. S \subseteq Sources /\ \A e \in S : e \notin later
      BY SourceAssumption DEF BacklogPackages, GatePackages, Sources
    <3> HIDE DEF S
    <3>5. \A i \in 1..Len(filled) : filled[i] \in S
      BY <3>3
    <3>6. filled \in Seq(Sources)
      BY <3>3, <3>4, <3>5
    <3> QED BY <3>3, <3>4, <3>5, <3>6
  <2> QED BY <2>1, <2>2
<1> QED BY <1>2, <1>3, <1>4, BatchFresh

\* The workflows of a batch follow the others.
LEMMA WithBatchFlows ==
    ASSUME NEW r \in Rows, NEW p \in Procs, NEW seen \in Nat,
           NEW batch \in Seq(Sources \X {"feeder", "portfolio"})
    PROVE  /\ WithBatch(r, p, seen, batch) \in Rows
           /\ Len(WithBatch(r, p, seen, batch).flows) = Len(r.flows) + Len(batch)
           /\ \A k \in 1..Len(r.flows) : WithBatch(r, p, seen, batch).flows[k] = r.flows[k]
           /\ \A k \in 1..Len(batch) :
                WithBatch(r, p, seen, batch).flows[Len(r.flows) + k] =
                    [entry |-> batch[k][1], by |-> batch[k][2], proc |-> p, seen |-> seen,
                     state |-> "READY"]
<1> DEFINE c == WithBatch(r, p, seen, batch)
           b == [k \in DOMAIN batch |->
                    [entry |-> batch[k][1], by |-> batch[k][2], proc |-> p, seen |-> seen,
                     state |-> "READY"]]
<1>1. Len(batch) \in Nat /\ DOMAIN batch = 1..Len(batch)
      /\ \A k \in 1..Len(batch) : batch[k] \in Sources \X {"feeder", "portfolio"}
  OBVIOUS
<1>2. \A k \in 1..Len(batch) : batch[k][1] \in Sources /\ batch[k][2] \in {"feeder", "portfolio"}
  BY <1>1
<1>3. b \in [1..Len(batch) -> Flow]
  BY <1>1, <1>2, ItemStates DEF Flow
<1>4. b \in Seq(Flow) /\ Len(b) = Len(batch)
  BY <1>1, <1>3
<1>5. \A k \in 1..Len(batch) :
        b[k] = [entry |-> batch[k][1], by |-> batch[k][2], proc |-> p, seen |-> seen,
                state |-> "READY"]
  BY <1>1
<1>6. c = [r EXCEPT !.flows = r.flows \o b]
  BY DEF WithBatch
<1> HIDE DEF b, c
<1>7. /\ r.flows \o b \in Seq(Flow) /\ Len(r.flows \o b) = Len(r.flows) + Len(b)
      /\ \A i \in 1..Len(r.flows) + Len(b) :
            (r.flows \o b)[i] = IF i <= Len(r.flows) THEN r.flows[i] ELSE b[i - Len(r.flows)]
  <2>1. r.flows \in Seq(Flow)
    BY RowsFields
  <2> QED BY <1>4, <2>1, ConcatProperties
<1>8. c \in Rows /\ c.flows = r.flows \o b
  BY <1>6, <1>7 DEF Rows
<1>9. Len(r.flows) \in Nat
  BY RowsFields
<1>10. ASSUME NEW k \in 1..Len(r.flows) PROVE c.flows[k] = r.flows[k]
  <2>1. k \in 1..Len(r.flows) + Len(b) /\ k <= Len(r.flows)
    BY <1>1, <1>4, <1>9
  <2> QED BY <2>1, <1>7, <1>8
<1>11. ASSUME NEW k \in 1..Len(batch) PROVE c.flows[Len(r.flows) + k] = b[k]
  <2> DEFINE i == Len(r.flows) + k
  <2>1. i \in 1..Len(r.flows) + Len(b) /\ ~(i <= Len(r.flows)) /\ i - Len(r.flows) = k
    BY <1>1, <1>4, <1>9
  <2> HIDE DEF i
  <2>2. c.flows[i] = b[k]
    BY <2>1, <1>7, <1>8
  <2> QED BY <2>2 DEF i
<1>12. Len(c.flows) = Len(r.flows) + Len(batch)
  BY <1>4, <1>7, <1>8
<1> QED BY <1>5, <1>8, <1>10, <1>11, <1>12 DEF c

----------------------------------------------------------------------------
(* The rows, the session and the processes keep their types.               *)

Pcs == {"off", "start", "keys", "ingest", "idle", "session", "commit"}
Reports == {"NONE", "ESCALATED", "BUDGET_EXHAUSTED", "FAILED", "COMPLETED", "WAITING", "IDLE"}
Process == [pc : Pcs, seen : Nat, cycles : 0..MaxCycles, streak : Nat, failures : Nat,
            exhausted : BOOLEAN, report : Reports]
Session == [proc : Procs, rows : Rows]
InSession(s) == s.pc \in {"session", "commit"}

\* A process is in a session when it holds the lock.
ShiftTyped ==
    /\ rows \in Rows
    /\ tx = NoTx \/ tx \in Session
    /\ shift \in [Procs -> Process]
    /\ \A p \in Procs : /\ InSession(shift[p]) <=> Owns(p)
                        /\ shift[p].streak <= shift[p].failures

LEMMA SessionIsOne == \A t \in Session : t # NoTx /\ t.proc \in Procs /\ t.rows \in Rows
<1> SUFFICES ASSUME NEW t \in Session PROVE t # NoTx /\ t.proc \in Procs /\ t.rows \in Rows
  OBVIOUS
<1>1. "rows" \in DOMAIN t /\ "rows" \notin DOMAIN NoTx
  BY DEF Session, NoTx
<1> QED BY <1>1 DEF Session

LEMMA SessionOf ==
    ASSUME NEW p \in Procs, NEW r \in Rows
    PROVE  /\ [proc |-> p, rows |-> r] \in Session
           /\ [proc |-> p, rows |-> r] # NoTx
           /\ [proc |-> p, rows |-> r].proc = p /\ [proc |-> p, rows |-> r].rows = r
<1>1. [proc |-> p, rows |-> r] \in Session
  BY DEF Session
<1> QED BY <1>1, SessionIsOne

\* The owner's rows.
LEMMA OwnerRows ==
    ASSUME ShiftTyped, NEW p \in Procs, Owns(p)
    PROVE  tx \in Session /\ tx # NoTx /\ tx.proc = p /\ tx.rows \in Rows
BY SessionIsOne DEF ShiftTyped, Owns

Opening == [Off EXCEPT !.pc = "session"]

LEMMA ProcessOff ==
    /\ Off \in Process /\ ~InSession(Off) /\ Off.streak <= Off.failures
    /\ Resting \in Process /\ ~InSession(Resting) /\ Resting.streak <= Resting.failures
    /\ Opening \in Process /\ InSession(Opening) /\ Opening.streak <= Opening.failures
    /\ Off.pc = "off" /\ Resting.pc = "idle" /\ Opening.pc = "session"
<1>0. MaxCycles \in Nat
  BY SourceAssumption
<1>1. "off" \in Pcs /\ "NONE" \in Reports /\ 0 \in 0..MaxCycles /\ FALSE \in BOOLEAN
  BY <1>0 DEF Pcs, Reports
<1>2. Off \in Process
  BY <1>1 DEF Off, Process
<1>3. Resting \in Process /\ Opening \in Process
  BY <1>2 DEF Resting, Opening, Process, Pcs
<1>4. /\ Off.pc = "off" /\ Resting.pc = "idle" /\ Opening.pc = "session"
      /\ Off.streak = 0 /\ Resting.streak = 0 /\ Opening.streak = 0
      /\ Off.failures = 0 /\ Resting.failures = 0 /\ Opening.failures = 0
  BY DEF Off, Resting, Opening
<1> QED BY <1>2, <1>3, <1>4 DEF InSession

LEMMA Limits ==
    /\ InitialMax \in Nat /\ SessionMax \in Nat
    /\ MaxCycles \in Nat \ {0} /\ MaxConsecutive \in Nat \ {0} /\ MaxTotal \in Nat \ {0}
    /\ MaxFlows \in Nat /\ MaxWaits \in Nat
BY SourceAssumption

\* One process moves on, and the lock with it.
LEMMA OneProcess ==
    ASSUME ShiftTyped, NEW p \in Procs, NEW s \in Process, s.streak <= s.failures,
           shift' = [shift EXCEPT ![p] = s],
           rows' \in Rows, tx' = NoTx \/ tx' \in Session,
           InSession(s) <=> Owns(p)',
           \A q \in Procs : q # p => (Owns(q)' <=> Owns(q))
    PROVE  ShiftTyped'
<1>1. shift' \in [Procs -> Process]
  BY DEF ShiftTyped
<1>2. ASSUME NEW q \in Procs
      PROVE  /\ InSession(shift[q])' <=> Owns(q)'
             /\ shift'[q].streak <= shift'[q].failures
  <2>1. CASE q = p
    <3>1. shift'[q] = s
      BY <2>1 DEF ShiftTyped
    <3> QED BY <2>1, <3>1 DEF InSession
  <2>2. CASE q # p
    <3>1. shift'[q] = shift[q]
      BY <2>2 DEF ShiftTyped
    <3> QED BY <2>2, <3>1 DEF ShiftTyped, InSession
  <2> QED BY <2>1, <2>2
<1> QED BY <1>1, <1>2 DEF ShiftTyped

LEMMA RowsInit == ShiftInit => ShiftTyped
<1> SUFFICES ASSUME ShiftInit PROVE ShiftTyped
  OBVIOUS
<1>1. rows \in Rows
  BY SourceAssumption DEF ShiftInit, Rows
<1>2. shift \in [Procs -> Process] /\ \A p \in Procs : shift[p] = Off
  BY ProcessOff DEF ShiftInit
<1>3. tx = NoTx
  BY DEF ShiftInit
<1> QED BY <1>1, <1>2, <1>3, ProcessOff DEF ShiftTyped, Owns, InSession

\* The steps that write and commit at once.
LEMMA RowsOutside ==
    ASSUME ShiftTyped, NEW p \in Procs,
           \/ OpenShift(p) \/ ReadKeys(p) \/ Ingest(p) \/ EndShift(p) \/ Interrupted(p)
    PROVE  ShiftTyped'
<1>0. /\ rows \in Rows /\ shift \in [Procs -> Process] /\ shift[p] \in Process
      /\ tx = NoTx \/ tx \in Session
      /\ shift[p].streak <= shift[p].failures
      /\ InSession(shift[p]) <=> Owns(p)
  BY DEF ShiftTyped
<1>1. ASSUME UNCHANGED tx, rows' \in Rows, NEW s \in Process,
             shift' = [shift EXCEPT ![p] = s], s.streak <= s.failures,
             ~InSession(s), ~InSession(shift[p])
      PROVE  ShiftTyped'
  <2>1. \A q : Owns(q)' <=> Owns(q)
    BY <1>1 DEF Owns
  <2> QED BY <1>0, <1>1, <2>1, OneProcess
<1>3. CASE OpenShift(p)
  <2> DEFINE s == [shift[p] EXCEPT !.pc = "keys"]
  <2>1. s \in Process /\ ~InSession(s) /\ s.streak <= s.failures /\ ~InSession(shift[p])
    BY <1>0, <1>3 DEF Process, InSession, Pcs, OpenShift, At
  <2>2. rows' \in Rows
    <3>1. PICK expired \in SUBSET rows.waits :
            rows' = IF rows.mission = "NONE" THEN [rows EXCEPT !.mission = "ACTIVE"]
                    ELSE WithCleared(rows, expired)
      BY <1>3 DEF OpenShift
    <3>2. [rows EXCEPT !.mission = "ACTIVE"] \in Rows
      BY <1>0 DEF Rows
    <3> QED BY <1>0, <3>1, <3>2, ClearedKeeps
  <2>3. shift' = [shift EXCEPT ![p] = s] /\ UNCHANGED tx
    BY <1>0, <1>3 DEF OpenShift
  <2> HIDE DEF s
  <2> QED BY <1>1, <2>1, <2>2, <2>3
<1>4. CASE ReadKeys(p)
  <2> DEFINE s == [shift[p] EXCEPT !.pc = "ingest", !.seen = Len(rows.flows)]
  <2>0. Len(rows.flows) \in Nat
    BY <1>0, RowsFields
  <2>1. s \in Process /\ ~InSession(s) /\ s.streak <= s.failures /\ ~InSession(shift[p])
    BY <1>0, <1>4, <2>0 DEF Process, InSession, Pcs, ReadKeys, At
  <2>2. rows' \in Rows
    BY <1>0, <1>4 DEF ReadKeys
  <2>3. shift' = [shift EXCEPT ![p] = s] /\ UNCHANGED tx
    BY <1>0, <1>4 DEF ReadKeys
  <2> HIDE DEF s
  <2> QED BY <1>1, <2>1, <2>2, <2>3
<1>5. CASE Ingest(p)
  <2>1. PICK status \in Readings, again \in shift[p].seen..Len(rows.flows) :
            \E batch \in Batches(Keys(rows, shift[p].seen), Keys(rows, again), InitialMax, status) :
                rows' = WithBatch(rows, p, shift[p].seen, batch)
    BY <1>5 DEF Ingest
  <2>2. PICK batch \in Batches(Keys(rows, shift[p].seen), Keys(rows, again), InitialMax, status) :
            rows' = WithBatch(rows, p, shift[p].seen, batch)
    BY <2>1
  <2>3. batch \in Seq(Sources \X {"feeder", "portfolio"})
    BY <2>2, BatchesFresh, Limits DEF Fresh
  <2>4. rows' \in Rows
    BY <1>0, <2>2, <2>3, WithBatchFlows DEF Process
  <2>5. ~InSession(shift[p])
    BY <1>5 DEF Ingest, At, InSession
  <2>6. shift' = [shift EXCEPT ![p] = Resting] /\ UNCHANGED tx
    BY <1>5 DEF Ingest
  <2> QED BY <1>1, <2>4, <2>5, <2>6, ProcessOff
<1>6. CASE EndShift(p) \/ Interrupted(p)
  <2>1. rows' \in Rows
    <3>1. [rows EXCEPT !.mission = "PAUSED"] \in Rows
      BY <1>0 DEF Rows
    <3> QED BY <1>0, <1>6, <3>1, ReconciledKeeps DEF EndShift, Interrupted
  <2>2. ~InSession(shift[p])
    BY <1>6 DEF EndShift, Interrupted, At, InSession
  <2>3. shift' = [shift EXCEPT ![p] = Off] /\ UNCHANGED tx
    BY <1>6 DEF EndShift, Interrupted
  <2> QED BY <1>1, <2>1, <2>2, <2>3, ProcessOff
<1> QED BY <1>3, <1>4, <1>5, <1>6

\* The steps of a session.
LEMMA RowsInside ==
    ASSUME ShiftTyped, NEW p \in Procs,
           \/ BeginSession(p) \/ RunItem(p) \/ ClearWaits(p) \/ FeedMore(p) \/ Rest(p)
           \/ Exhaust(p) \/ CommitSession(p) \/ ShiftDies(p)
    PROVE  ShiftTyped'
<1>0. /\ rows \in Rows /\ shift \in [Procs -> Process] /\ shift[p] \in Process
      /\ tx = NoTx \/ tx \in Session
      /\ shift[p].streak <= shift[p].failures
      /\ \A q \in Procs : InSession(shift[q]) <=> Owns(q)
  BY DEF ShiftTyped
\* The owner works on, or comes to hold the lock.
<1>1. ASSUME NEW r \in Rows, Work(p, r), UNCHANGED rows, NEW s \in Process,
             shift' = [shift EXCEPT ![p] = s], s.streak <= s.failures, InSession(s),
             tx = NoTx \/ Owns(p)
      PROVE  ShiftTyped'
  <2>1. tx' = [proc |-> p, rows |-> r]
    BY <1>1 DEF Work
  <2>2. tx' \in Session /\ tx' # NoTx /\ tx'.proc = p
    BY <2>1, SessionOf
  <2>3. Owns(p)' /\ \A q \in Procs : q # p => ~Owns(q)' /\ ~Owns(q)
    BY <1>1, <2>2 DEF Owns, NoTx
  <2> QED BY <1>0, <1>1, <2>2, <2>3, OneProcess
\* The lock is given back.
<1>2. ASSUME tx' = (IF Owns(p) THEN NoTx ELSE tx), rows' \in Rows, NEW s \in Process,
             shift' = [shift EXCEPT ![p] = s], s.streak <= s.failures, ~InSession(s)
      PROVE  ShiftTyped'
  <2>1. ~Owns(p)' /\ \A q \in Procs : q # p => (Owns(q)' <=> Owns(q))
    BY <1>2 DEF Owns
  <2>2. tx' = NoTx \/ tx' \in Session
    BY <1>0, <1>2
  <2> QED BY <1>0, <1>2, <2>1, <2>2, OneProcess
<1>3. CASE BeginSession(p)
  <2>1. PICK expired \in SUBSET rows.waits : Work(p, WithCleared(rows, expired))
    BY <1>3 DEF BeginSession
  <2>2. WithCleared(rows, expired) \in Rows
    BY <1>0, ClearedKeeps
  <2>3. shift' = [shift EXCEPT ![p] = Opening] /\ UNCHANGED rows /\ tx = NoTx
    BY <1>3 DEF BeginSession, Opening, MayWrite
  <2> QED BY <1>1, <2>1, <2>2, <2>3, ProcessOff
<1>4. ASSUME Cycle(p)
      PROVE  /\ shift[p].pc = "session" /\ Owns(p) /\ tx.rows \in Rows
             /\ shift[p].cycles + 1 \in 0..MaxCycles
  <2>1. shift[p].cycles \in 0..MaxCycles /\ shift[p].cycles < MaxCycles
    BY <1>0, <1>4 DEF Cycle, WithinBudget, Process
  <2> QED BY <2>1, <1>4, OwnerRows, Limits DEF Cycle, At
<1>5. CASE RunItem(p)
  <2>0. Cycle(p)
    BY <1>5 DEF RunItem
  <2>1. PICK k \in Selectable(tx.rows), outcome \in {"COMPLETED", "BLOCKED", "FAILED", "ESCALATED"} :
          LET failed == IF outcome = "FAILED" THEN 1 ELSE 0
          IN  /\ Work(p, [tx.rows EXCEPT !.flows =
                      SetState(@, k, IF outcome = "COMPLETED" THEN "COMPLETED" ELSE "WAITING_HUMAN")])
              /\ shift' = [shift EXCEPT ![p] =
                      [Spend(shift[p]) EXCEPT
                          !.failures = @ + failed,
                          !.streak = IF outcome = "ESCALATED" THEN @ ELSE failed * (@ + 1),
                          !.pc = IF outcome = "ESCALATED" THEN "commit" ELSE @,
                          !.report = IF outcome = "ESCALATED" THEN "ESCALATED" ELSE @]]
    BY <1>5 DEF RunItem
  <2> DEFINE st == IF outcome = "COMPLETED" THEN "COMPLETED" ELSE "WAITING_HUMAN"
             f == SetState(tx.rows.flows, k, st)
             failed == IF outcome = "FAILED" THEN 1 ELSE 0
             streak == IF outcome = "ESCALATED" THEN shift[p].streak
                       ELSE failed * (shift[p].streak + 1)
             pc == IF outcome = "ESCALATED" THEN "commit" ELSE "session"
             report == IF outcome = "ESCALATED" THEN "ESCALATED" ELSE shift[p].report
             s == [shift[p] EXCEPT !.cycles = shift[p].cycles + 1,
                     !.failures = shift[p].failures + failed, !.streak = streak,
                     !.pc = pc, !.report = report]
  <2>2. k \in DOMAIN tx.rows.flows
    BY <2>1 DEF Selectable
  <2>3. f \in Seq(Flow)
    BY <1>4, <2>0, <2>2, SetStateKeeps, RowsFields, ItemStates
  <2>4. [tx.rows EXCEPT !.flows = f] \in Rows
    BY <1>4, <2>0, <2>3, RowsChange
  <2>5. Work(p, [tx.rows EXCEPT !.flows = f])
    BY <2>1
  <2>6. shift' = [shift EXCEPT ![p] = s]
    BY <1>0, <1>4, <2>0, <2>1 DEF Spend, Process
  <2>7. /\ failed \in 0..1 /\ streak \in Nat
        /\ shift[p].failures + failed \in Nat /\ streak <= shift[p].failures + failed
    <3>1. shift[p].streak \in Nat /\ shift[p].failures \in Nat
      BY <1>0 DEF Process
    <3>2. CASE outcome = "ESCALATED"
      BY <1>0, <3>1, <3>2
    <3>3. CASE outcome = "FAILED"
      <4>1. failed = 1 /\ streak = shift[p].streak + 1
        BY <3>1, <3>3
      <4> QED BY <1>0, <3>1, <4>1
    <3>4. CASE outcome \notin {"ESCALATED", "FAILED"}
      <4>1. failed = 0 /\ streak = 0
        BY <3>1, <3>4
      <4> QED BY <1>0, <3>1, <4>1
    <3> QED BY <3>2, <3>3, <3>4
  <2>8. pc \in Pcs /\ pc \in {"session", "commit"} /\ report \in Reports
    BY <1>0 DEF Pcs, Reports, Process
  <2> HIDE DEF f, st, streak, failed, pc, report
  <2>9. s \in Process /\ InSession(s) /\ s.streak <= s.failures
    BY <1>0, <1>4, <2>0, <2>7, <2>8 DEF Process, InSession
  <2>10. UNCHANGED rows
    BY <1>5 DEF RunItem
  <2> HIDE DEF s
  <2> QED BY <1>1, <1>4, <2>0, <2>4, <2>5, <2>6, <2>9, <2>10
\* A cycle that leaves the process in its session.
<1>6. ASSUME Cycle(p), shift' = [shift EXCEPT ![p] = Spend(@)], NEW r \in Rows, Work(p, r),
             UNCHANGED rows
      PROVE  ShiftTyped'
  <2> DEFINE s == [shift[p] EXCEPT !.cycles = shift[p].cycles + 1]
  <2>1. s \in Process /\ InSession(s) /\ s.streak <= s.failures
    BY <1>0, <1>4, <1>6 DEF Process, InSession
  <2>2. shift' = [shift EXCEPT ![p] = s]
    BY <1>0, <1>6 DEF Spend
  <2> HIDE DEF s
  <2> QED BY <1>1, <1>4, <1>6, <2>1, <2>2
<1>7. CASE ClearWaits(p)
  <2>1. PICK expired \in SUBSET tx.rows.waits : Work(p, WithCleared(tx.rows, expired))
    BY <1>7 DEF ClearWaits
  <2>2. Cycle(p) /\ shift' = [shift EXCEPT ![p] = Spend(@)] /\ UNCHANGED rows
    BY <1>7 DEF ClearWaits
  <2> QED BY <1>4, <1>6, <2>1, <2>2, ClearedKeeps
<1>8. CASE FeedMore(p)
  <2>1. PICK status \in Readings : \E batch \in SessionBatches(status) :
            Work(p, WithBatch(tx.rows, p, Len(tx.rows.flows), batch))
    BY <1>8 DEF FeedMore
  <2>2. PICK batch \in SessionBatches(status) :
            Work(p, WithBatch(tx.rows, p, Len(tx.rows.flows), batch))
    BY <2>1
  <2>3. Cycle(p) /\ shift' = [shift EXCEPT ![p] = Spend(@)] /\ UNCHANGED rows
    BY <1>8 DEF FeedMore
  <2>4. batch \in Seq(Sources \X {"feeder", "portfolio"})
    <3> DEFINE keys == Keys(tx.rows, Len(tx.rows.flows))
    <3>1. batch \in Batches(keys, keys, SessionMax, status)
      BY <2>2 DEF SessionBatches
    <3> HIDE DEF keys
    <3>2. Fresh(batch, keys, keys)
      BY <3>1, BatchesFresh, Limits
    <3> QED BY <3>2 DEF Fresh
  <2>5. Len(tx.rows.flows) \in Nat /\ tx.rows \in Rows
    BY <1>4, <2>3, RowsFields
  <2>6. WithBatch(tx.rows, p, Len(tx.rows.flows), batch) \in Rows
    BY <2>4, <2>5, WithBatchFlows
  <2> QED BY <1>6, <2>2, <2>3, <2>6
<1>9. CASE Rest(p)
  <2>0. Cycle(p) /\ Work(p, Reconciled(tx.rows)) /\ UNCHANGED rows
    BY <1>9 DEF Rest
  <2>1. PICK exhausted \in BOOLEAN, report \in Reports :
            shift' = [shift EXCEPT ![p] = [shift[p] EXCEPT !.cycles = shift[p].cycles + 1,
                !.pc = "commit", !.exhausted = exhausted, !.report = report]]
    <3>1. (shift[p].exhausted \/ AsksFeeder(p)) \in BOOLEAN
      BY <1>0 DEF Process, AsksFeeder
    <3>2. ReportOf(tx.rows) \in Reports
      BY DEF ReportOf, Reports
    <3>3. shift' = [shift EXCEPT ![p] = [shift[p] EXCEPT !.cycles = shift[p].cycles + 1,
                !.pc = "commit", !.exhausted = shift[p].exhausted \/ AsksFeeder(p),
                !.report = ReportOf(tx.rows)]]
      BY <1>0, <1>9 DEF Rest, Spend, Process
    <3> QED BY <3>1, <3>2, <3>3
  <2> DEFINE s == [shift[p] EXCEPT !.cycles = shift[p].cycles + 1,
                !.pc = "commit", !.exhausted = exhausted, !.report = report]
  <2>2. s \in Process /\ InSession(s) /\ s.streak <= s.failures
    BY <1>0, <1>4, <2>0 DEF Process, InSession, Pcs
  <2>3. shift' = [shift EXCEPT ![p] = s]
    BY <2>1
  <2>4. Reconciled(tx.rows) \in Rows
    BY <1>4, <2>0, ReconciledKeeps
  <2> HIDE DEF s
  <2> QED BY <1>1, <1>4, <2>0, <2>2, <2>3, <2>4
<1>10. CASE Exhaust(p)
  <2>0. Owns(p) /\ UNCHANGED <<rows, tx>> /\ InSession(shift[p])
    BY <1>10 DEF Exhaust, At, InSession
  <2>1. PICK report \in Reports : shift' = [shift EXCEPT ![p] =
                [shift[p] EXCEPT !.pc = "commit", !.report = report]]
    <3>1. PICK timeUp \in BOOLEAN :
            shift' = [shift EXCEPT ![p].pc = "commit", ![p].report =
                IF timeUp \/ shift[p].cycles >= MaxCycles THEN "BUDGET_EXHAUSTED" ELSE "FAILED"]
      BY <1>10 DEF Exhaust
    <3> DEFINE report == IF timeUp \/ shift[p].cycles >= MaxCycles THEN "BUDGET_EXHAUSTED" ELSE "FAILED"
    <3>2. report \in Reports
      BY DEF Reports
    <3> HIDE DEF report
    <3>3. shift' = [shift EXCEPT ![p] = [shift[p] EXCEPT !.pc = "commit", !.report = report]]
      BY <1>0, <3>1 DEF report
    <3> QED BY <3>2, <3>3
  <2> DEFINE s == [shift[p] EXCEPT !.pc = "commit", !.report = report]
  <2>2. s \in Process /\ InSession(s) /\ s.streak <= s.failures
    BY <1>0 DEF Process, InSession, Pcs
  <2>3. shift' = [shift EXCEPT ![p] = s]
    BY <2>1
  <2> HIDE DEF s
  <2>4. \A q : Owns(q)' <=> Owns(q)
    BY <2>0 DEF Owns
  <2> QED BY <1>0, <2>0, <2>2, <2>3, <2>4, OneProcess
<1>11. CASE CommitSession(p)
  <2>1. rows' \in Rows
    BY <1>11, OwnerRows, ReconciledKeeps DEF CommitSession
  <2> QED BY <1>2, <1>11, <2>1, ProcessOff DEF CommitSession
<1>12. CASE ShiftDies(p)
  BY <1>0, <1>2, <1>12, ProcessOff DEF ShiftDies
<1> QED BY <1>3, <1>5, <1>7, <1>8, <1>9, <1>10, <1>11, <1>12

LEMMA RowsAround ==
    ASSUME ShiftTyped, Around
    PROVE  ShiftTyped'
<1>0. rows \in Rows
  BY DEF ShiftTyped
<1>1. UNCHANGED <<tx, shift>>
  BY DEF Around, OperatorStarts, OperatorResolves, OperatorMoves, RecordWait
<1>2. rows' \in Rows
  <2>1. ASSUME NEW from, NEW to \in ItemState, OperatorMoves(from, to) PROVE rows' \in Rows
    <3>1. PICK k \in DOMAIN rows.flows : rows' = [rows EXCEPT !.flows = SetState(@, k, to)]
      BY <2>1 DEF OperatorMoves
    <3>2. SetState(rows.flows, k, to) \in Seq(Flow)
      BY <1>0, SetStateKeeps, RowsFields
    <3> QED BY <1>0, <3>1, <3>2, RowsChange
  <2>2. CASE RecordWait
    <3>1. PICK k \in DOMAIN rows.flows :
            rows' = Reconciled([rows EXCEPT !.waits = @ \cup {rows.flows[k].entry},
                        !.recorded = @ + 1,
                        !.flows = Updated(rows, {rows.flows[k].entry}, "WAITING_RESOURCE")])
      BY <2>2 DEF RecordWait
    <3> DEFINE e == rows.flows[k].entry
               f == Updated(rows, {e}, "WAITING_RESOURCE")
               r == [rows EXCEPT !.waits = @ \cup {e}, !.recorded = @ + 1, !.flows = f]
    <3>2. e \in Sources
      BY <1>0, RowsFields DEF Flow
    <3>3. f \in Seq(Flow)
      BY <1>0, UpdatedKeeps, ItemStates
    <3>4. rows.recorded + 1 \in 0..MaxWaits
      BY <1>0, <2>2, RowsFields, Limits DEF RecordWait
    <3> HIDE DEF f, e
    <3>5. r \in Rows
      BY <1>0, <3>2, <3>3, <3>4 DEF Rows
    <3>6. rows' = Reconciled(r)
      BY <3>1 DEF e, f
    <3> QED BY <3>5, <3>6, ReconciledKeeps
  <2> QED BY <2>1, <2>2, ItemStates DEF Around, OperatorStarts, OperatorResolves
<1>3. \A p : Owns(p)' <=> Owns(p)
  BY <1>1 DEF Owns
<1> QED BY <1>1, <1>2, <1>3 DEF ShiftTyped

----------------------------------------------------------------------------
(* Work is fed once.  What is asked of the committed workflows is asked of *)
(* the session's too: those it adds are its own, and a process that has    *)
(* read the keys has added none since.                                     *)

FedOnce(f) ==
    \A i, j \in 1..Len(f) : i < j /\ f[i].entry = f[j].entry =>
        /\ i > f[j].seen
        /\ f[i].proc = f[j].proc =>
                f[i].seen = f[j].seen /\ f[i].by = "portfolio" /\ f[j].by = "feeder"
\* The workflows p has fed are among the first n.
FedBefore(f, p, n) == \A k \in 1..Len(f) : f[k].proc = p => k <= n
FeedKept ==
    /\ FedOnce(rows.flows)
    /\ \A p \in Procs : At(p, "ingest") => FedBefore(rows.flows, p, shift[p].seen)
    /\ tx # NoTx =>
        /\ FedOnce(tx.rows.flows)
        /\ \A k \in 1..Len(tx.rows.flows) :
            \/ tx.rows.flows[k].proc = tx.proc
            \/ k \in 1..Len(rows.flows) /\ tx.rows.flows[k].proc = rows.flows[k].proc

LEMMA SameFeedKeeps ==
    ASSUME NEW f, NEW g, SameFeed(f, g)
    PROVE  /\ FedOnce(f) => FedOnce(g)
           /\ \A p, n : FedBefore(f, p, n) => FedBefore(g, p, n)
BY DEF SameFeed, FedOnce, FedBefore

\* A batch without the entries of the first seen workflows, after which the
\* process has fed none.
LEMMA BatchKeepsOnce ==
    ASSUME NEW r \in Rows, NEW p \in Procs, NEW seen \in Nat,
           NEW again \in Nat, seen <= again, seen <= Len(r.flows),
           NEW batch, Fresh(batch, Keys(r, seen), Keys(r, again)),
           FedOnce(r.flows), FedBefore(r.flows, p, seen)
    PROVE  FedOnce(WithBatch(r, p, seen, batch).flows)
<1> DEFINE n == Len(r.flows)
           g == WithBatch(r, p, seen, batch).flows
<1>1. batch \in Seq(Sources \X {"feeder", "portfolio"})
  BY DEF Fresh
<1>2. /\ Len(g) = n + Len(batch)
      /\ \A k \in 1..n : g[k] = r.flows[k]
      /\ \A k \in 1..Len(batch) : /\ g[n + k].entry = batch[k][1] /\ g[n + k].by = batch[k][2]
                                  /\ g[n + k].proc = p /\ g[n + k].seen = seen
  <2>1. Len(g) = n + Len(batch) /\ \A k \in 1..n : g[k] = r.flows[k]
    BY <1>1, WithBatchFlows
  <2>2. ASSUME NEW k \in 1..Len(batch)
        PROVE  /\ g[n + k].entry = batch[k][1] /\ g[n + k].by = batch[k][2]
               /\ g[n + k].proc = p /\ g[n + k].seen = seen
    <3>1. g[n + k] = [entry |-> batch[k][1], by |-> batch[k][2], proc |-> p, seen |-> seen,
                      state |-> "READY"]
      BY <1>1, WithBatchFlows
    <3> QED BY <3>1
  <2> QED BY <2>1, <2>2
<1>3. n \in Nat /\ Len(batch) \in Nat
  BY <1>1, RowsFields
<1> HIDE DEF n, g
<1>4. \A k \in 1..n : k <= seen => r.flows[k].entry \in Keys(r, seen) \cap Keys(r, again)
  BY <1>3 DEF Keys
<1>5. SUFFICES ASSUME NEW i \in 1..Len(g), NEW j \in 1..Len(g), i < j, g[i].entry = g[j].entry
      PROVE  /\ i > g[j].seen
             /\ g[i].proc = g[j].proc =>
                    g[i].seen = g[j].seen /\ g[i].by = "portfolio" /\ g[j].by = "feeder"
  BY DEF FedOnce, g
<1>6. CASE j \in 1..n
  <2>1. i \in 1..n
    BY <1>3, <1>5, <1>6
  <2>2. g[i] = r.flows[i] /\ g[j] = r.flows[j]
    BY <1>2, <1>6, <2>1
  <2> QED BY <1>5, <1>6, <2>1, <2>2 DEF FedOnce, n
<1>7. CASE j \notin 1..n
  <2>1. PICK l \in 1..Len(batch) : j = n + l
    <3>1. j - n \in 1..Len(batch) /\ j = n + (j - n)
      BY <1>2, <1>3, <1>7
    <3> QED BY <3>1
  <2>2. g[j].entry = batch[l][1] /\ g[j].by = batch[l][2] /\ g[j].proc = p /\ g[j].seen = seen
    BY <1>2, <2>1
  <2>3. CASE i \in 1..n
    <3>1. g[i] = r.flows[i]
      BY <1>2, <2>3
    <3>2. batch[l][2] \in {"feeder", "portfolio"}
      <4>1. batch[l] \in Sources \X {"feeder", "portfolio"}
        BY <1>1
      <4> QED BY <4>1
    <3>3. batch[l][1] \notin Keys(r, seen) \cap Keys(r, again)
      BY <3>2 DEF Fresh
    <3>4. ~(i <= seen)
      BY <1>4, <1>5, <2>2, <2>3, <3>1, <3>3
    <3>5. r.flows[i].proc # p
      BY <2>3, <3>4 DEF FedBefore, n
    <3> QED BY <2>2, <3>1, <3>4, <3>5, <1>3
  <2>4. CASE i \notin 1..n
    <3>1. PICK k \in 1..Len(batch) : i = n + k
      <4>1. i - n \in 1..Len(batch) /\ i = n + (i - n)
        BY <1>2, <1>3, <2>4
      <4> QED BY <4>1
    <3>2. g[i].entry = batch[k][1] /\ g[i].by = batch[k][2] /\ g[i].proc = p /\ g[i].seen = seen
      BY <1>2, <3>1
    <3>3. k < l
      BY <1>3, <1>5, <2>1, <3>1
    <3>4. batch[k][2] = "portfolio" /\ batch[l][2] = "feeder"
      BY <1>5, <2>2, <3>2, <3>3 DEF Fresh
    <3>5. i > seen
      BY <1>3, <3>1 DEF n
    <3> QED BY <2>2, <3>2, <3>4, <3>5
  <2> QED BY <2>3, <2>4
<1> QED BY <1>6, <1>7

\* No process comes to have read the keys.
NoneReads == \A q \in Procs : At(q, "ingest")' => At(q, "ingest") /\ shift'[q].seen = shift[q].seen

LEMMA OthersRead ==
    ASSUME ShiftTyped, NEW p \in Procs, NEW s, shift' = [shift EXCEPT ![p] = s], s.pc # "ingest"
    PROVE  NoneReads /\ ~At(p, "ingest")'
BY DEF ShiftTyped, NoneReads, At

LEMMA FeedSame ==
    ASSUME FeedKept, tx = NoTx, UNCHANGED tx, SameFeed(rows.flows, rows'.flows), NoneReads
    PROVE  FeedKept'
<1>1. FedOnce(rows'.flows)
  BY SameFeedKeeps DEF FeedKept
<1>2. ASSUME NEW q \in Procs, At(q, "ingest")' PROVE FedBefore(rows'.flows, q, shift'[q].seen)
  <2>1. At(q, "ingest") /\ shift'[q].seen = shift[q].seen
    BY <1>2 DEF NoneReads
  <2>2. FedBefore(rows.flows, q, shift[q].seen)
    BY <2>1 DEF FeedKept
  <2> QED BY <2>1, <2>2, SameFeedKeeps
<1> QED BY <1>1, <1>2 DEF FeedKept

LEMMA SessionSame ==
    ASSUME ShiftTyped, FeedKept, NEW p \in Procs, NEW r \in Rows, Work(p, r), UNCHANGED rows,
           NoneReads, FedOnce(r.flows),
           \A k \in 1..Len(r.flows) :
                \/ r.flows[k].proc = p
                \/ k \in 1..Len(rows.flows) /\ r.flows[k].proc = rows.flows[k].proc
    PROVE  FeedKept'
<1>1. tx' = [proc |-> p, rows |-> r]
  BY DEF Work
<1>2. tx'.proc = p /\ tx'.rows = r
  BY <1>1
<1>3. ASSUME NEW q \in Procs, At(q, "ingest")' PROVE FedBefore(rows'.flows, q, shift'[q].seen)
  <2>1. At(q, "ingest") /\ shift'[q].seen = shift[q].seen
    BY <1>3 DEF NoneReads
  <2> QED BY <2>1 DEF FeedKept
<1> QED BY <1>2, <1>3 DEF FeedKept

LEMMA RowsFeedSelf ==
    ASSUME NEW r \in Rows PROVE SameFeed(r.flows, r.flows)
BY DEF SameFeed

LEMMA FeedOutside ==
    ASSUME ShiftTyped, FeedKept, NEW p \in Procs,
           \/ OpenShift(p) \/ ReadKeys(p) \/ Ingest(p) \/ EndShift(p) \/ Interrupted(p)
    PROVE  FeedKept'
<1>0. rows \in Rows /\ shift \in [Procs -> Process] /\ shift[p] \in Process
  BY DEF ShiftTyped
<1>1. CASE OpenShift(p)
  <2>1. SameFeed(rows.flows, rows'.flows)
    <3>1. PICK expired \in SUBSET rows.waits :
            rows' = IF rows.mission = "NONE" THEN [rows EXCEPT !.mission = "ACTIVE"]
                    ELSE WithCleared(rows, expired)
      BY <1>1 DEF OpenShift
    <3>2. [rows EXCEPT !.mission = "ACTIVE"].flows = rows.flows
      BY <1>0 DEF Rows
    <3> QED BY <1>0, <3>1, <3>2, ClearedKeeps, RowsFeedSelf
  <2>2. NoneReads
    <3> DEFINE s == [shift[p] EXCEPT !.pc = "keys"]
    <3>1. shift' = [shift EXCEPT ![p] = s] /\ s.pc # "ingest"
      BY <1>0, <1>1 DEF OpenShift, Process
    <3> HIDE DEF s
    <3> QED BY <3>1, OthersRead
  <2> QED BY <1>1, <2>1, <2>2, FeedSame DEF OpenShift, MayWrite
<1>2. CASE EndShift(p) \/ Interrupted(p)
  <2>1. SameFeed(rows.flows, rows'.flows)
    <3>1. [rows EXCEPT !.mission = "PAUSED"] \in Rows
          /\ [rows EXCEPT !.mission = "PAUSED"].flows = rows.flows
      BY <1>0 DEF Rows
    <3>2. rows'.flows = rows.flows
      BY <1>0, <1>2, <3>1, ReconciledKeeps DEF EndShift, Interrupted
    <3> QED BY <1>0, <3>2, RowsFeedSelf
  <2>2. NoneReads
    <3>1. shift' = [shift EXCEPT ![p] = Off]
      BY <1>2 DEF EndShift, Interrupted
    <3> QED BY <3>1, OthersRead, ProcessOff
  <2> QED BY <1>2, <2>1, <2>2, FeedSame DEF EndShift, Interrupted, MayWrite
<1>3. CASE ReadKeys(p)
  <2>1. UNCHANGED <<rows, tx>>
    BY <1>3 DEF ReadKeys
  <2>2. ASSUME NEW q \in Procs, At(q, "ingest")' PROVE FedBefore(rows.flows, q, shift'[q].seen)
    <3>1. CASE q = p
      <4>1. shift'[q].seen = Len(rows.flows)
        BY <1>0, <1>3, <3>1 DEF ReadKeys, Process
      <4>2. Len(rows.flows) \in Nat
        BY <1>0, RowsFields
      <4> QED BY <4>1, <4>2 DEF FedBefore
    <3>2. CASE q # p
      <4>1. shift'[q] = shift[q]
        BY <1>0, <1>3, <3>2 DEF ReadKeys
      <4> QED BY <2>2, <4>1 DEF FeedKept, At
    <3> QED BY <3>1, <3>2
  <2> QED BY <2>1, <2>2 DEF FeedKept
<1>4. CASE Ingest(p)
  <2>0. shift[p].seen \in Nat /\ Len(rows.flows) \in Nat
    BY <1>0, RowsFields DEF Process
  <2>1. PICK status \in Readings, again \in shift[p].seen..Len(rows.flows) :
            \E batch \in Batches(Keys(rows, shift[p].seen), Keys(rows, again), InitialMax, status) :
                rows' = WithBatch(rows, p, shift[p].seen, batch)
    BY <1>4 DEF Ingest
  <2>2. PICK batch \in Batches(Keys(rows, shift[p].seen), Keys(rows, again), InitialMax, status) :
            rows' = WithBatch(rows, p, shift[p].seen, batch)
    BY <2>1
  <2>3. Fresh(batch, Keys(rows, shift[p].seen), Keys(rows, again))
    BY <2>2, BatchesFresh, Limits
  <2>4. again \in Nat /\ shift[p].seen <= again /\ shift[p].seen <= Len(rows.flows)
    BY <2>0, <2>1
  <2>5. FedOnce(rows.flows) /\ FedBefore(rows.flows, p, shift[p].seen)
    BY <1>4 DEF FeedKept, Ingest
  <2>6. FedOnce(rows'.flows)
    BY <1>0, <2>0, <2>2, <2>3, <2>4, <2>5, BatchKeepsOnce
  <2>7. batch \in Seq(Sources \X {"feeder", "portfolio"})
    BY <2>3 DEF Fresh
  <2>8. NoneReads /\ ~At(p, "ingest")'
    <3>1. shift' = [shift EXCEPT ![p] = Resting]
      BY <1>4 DEF Ingest
    <3> QED BY <3>1, OthersRead, ProcessOff
  <2>9. ASSUME NEW q \in Procs, At(q, "ingest")' PROVE FedBefore(rows'.flows, q, shift'[q].seen)
    <3>1. At(q, "ingest") /\ shift'[q].seen = shift[q].seen /\ q # p
      BY <2>8, <2>9 DEF NoneReads
    <3>2. FedBefore(rows.flows, q, shift[q].seen)
      BY <3>1 DEF FeedKept
    <3>3. ASSUME NEW k \in 1..Len(rows'.flows), rows'.flows[k].proc = q PROVE k <= shift[q].seen
      <4>1. Len(rows'.flows) = Len(rows.flows) + Len(batch) /\ Len(batch) \in Nat
        BY <1>0, <2>0, <2>2, <2>7, WithBatchFlows
      <4>2. CASE k \in 1..Len(rows.flows)
        <5>1. rows'.flows[k] = rows.flows[k]
          BY <1>0, <2>0, <2>2, <2>7, <4>2, WithBatchFlows
        <5> QED BY <3>2, <3>3, <4>2, <5>1 DEF FedBefore
      <4>3. CASE k \notin 1..Len(rows.flows)
        <5> DEFINE l == k - Len(rows.flows)
        <5>1. l \in 1..Len(batch) /\ Len(rows.flows) + l = k
          BY <2>0, <4>1, <4>3
        <5> HIDE DEF l
        <5>2. rows'.flows[Len(rows.flows) + l] =
                [entry |-> batch[l][1], by |-> batch[l][2], proc |-> p,
                 seen |-> shift[p].seen, state |-> "READY"]
          BY <1>0, <2>0, <2>2, <2>7, <5>1, WithBatchFlows
        <5>3. rows'.flows[k].proc = p
          BY <5>1, <5>2
        <5> QED BY <3>1, <3>3, <5>3
      <4> QED BY <4>2, <4>3
    <3> QED BY <3>1, <3>3 DEF FedBefore
  <2>10. tx = NoTx /\ tx' = tx
    BY <1>4 DEF Ingest, MayWrite
  <2> QED BY <2>6, <2>9, <2>10 DEF FeedKept
<1> QED BY <1>1, <1>2, <1>3, <1>4

LEMMA FeedInside ==
    ASSUME ShiftTyped, FeedKept, NEW p \in Procs,
           \/ BeginSession(p) \/ RunItem(p) \/ ClearWaits(p) \/ FeedMore(p) \/ Rest(p)
           \/ Exhaust(p) \/ CommitSession(p) \/ ShiftDies(p)
    PROVE  FeedKept'
<1>0. /\ rows \in Rows /\ shift \in [Procs -> Process] /\ shift[p] \in Process
      /\ \A q \in Procs : InSession(shift[q]) <=> Owns(q)
  BY DEF ShiftTyped
\* No step of these reads the keys.
<1>1. NoneReads
  <2>1. CASE BeginSession(p)
    <3>1. shift' = [shift EXCEPT ![p] = Opening] /\ Opening.pc # "ingest"
      BY <2>1, ProcessOff DEF BeginSession, Opening
    <3> QED BY <3>1, OthersRead
  <2>2. CASE CommitSession(p) \/ ShiftDies(p)
    <3>1. (shift' = [shift EXCEPT ![p] = Resting] \/ shift' = [shift EXCEPT ![p] = Off])
      BY <2>2 DEF CommitSession, ShiftDies
    <3> QED BY <3>1, OthersRead, ProcessOff
  <2>3. CASE RunItem(p) \/ ClearWaits(p) \/ FeedMore(p) \/ Rest(p) \/ Exhaust(p)
    <3>1. At(p, "session")
      BY <2>3 DEF RunItem, ClearWaits, FeedMore, Rest, Exhaust, Cycle
    <3>2. shift'[p].pc \in {"session", "commit"}
          /\ \A q \in Procs : q # p => shift'[q] = shift[q]
      <4>1. CASE RunItem(p)
        <5>1. PICK k, outcome, failed : shift' = [shift EXCEPT ![p] =
                [Spend(shift[p]) EXCEPT
                    !.failures = @ + failed,
                    !.streak = IF outcome = "ESCALATED" THEN @ ELSE failed * (@ + 1),
                    !.pc = IF outcome = "ESCALATED" THEN "commit" ELSE @,
                    !.report = IF outcome = "ESCALATED" THEN "ESCALATED" ELSE @]]
          BY <4>1 DEF RunItem
        <5> QED BY <1>0, <3>1, <5>1 DEF Spend, Process, At
      <4>2. CASE ClearWaits(p) \/ FeedMore(p)
        <5>1. shift' = [shift EXCEPT ![p] = Spend(shift[p])]
          BY <4>2 DEF ClearWaits, FeedMore
        <5> QED BY <1>0, <3>1, <5>1 DEF Spend, Process, At
      <4>3. CASE Rest(p)
        <5>1. PICK exhausted, report : shift' = [shift EXCEPT ![p] =
                [Spend(shift[p]) EXCEPT !.pc = "commit", !.exhausted = exhausted, !.report = report]]
          BY <4>3 DEF Rest
        <5> QED BY <1>0, <5>1 DEF Spend, Process
      <4>4. CASE Exhaust(p)
        <5>1. PICK report : shift' = [shift EXCEPT ![p].pc = "commit", ![p].report = report]
          BY <4>4 DEF Exhaust
        <5> QED BY <1>0, <5>1 DEF Process
      <4> QED BY <2>3, <4>1, <4>2, <4>3, <4>4
    <3> QED BY <3>2 DEF NoneReads, At
  <2> QED BY <2>1, <2>2, <2>3
\* The session's rows are the same workflows.
<1>2. ASSUME NEW r0 \in Rows, NEW r \in Rows, SameFeed(r0.flows, r.flows), Work(p, r),
             UNCHANGED rows,
             (r0 = rows /\ tx = NoTx) \/ (Owns(p) /\ r0 = tx.rows)
      PROVE  FeedKept'
  <2>1. FedOnce(r0.flows)
    BY <1>2 DEF FeedKept, Owns
  <2>2. FedOnce(r.flows)
    BY <1>2, <2>1, SameFeedKeeps
  <2>3. ASSUME NEW k \in 1..Len(r.flows)
        PROVE  \/ r.flows[k].proc = p
               \/ k \in 1..Len(rows.flows) /\ r.flows[k].proc = rows.flows[k].proc
    <3>1. k \in 1..Len(r0.flows) /\ r.flows[k].proc = r0.flows[k].proc
      BY <1>2 DEF SameFeed
    <3> QED BY <1>2, <3>1 DEF FeedKept, Owns
  <2> QED BY <1>1, <1>2, <2>2, <2>3, SessionSame
<1>3. CASE BeginSession(p)
  <2>1. PICK expired \in SUBSET rows.waits : Work(p, WithCleared(rows, expired))
    BY <1>3 DEF BeginSession
  <2>2. WithCleared(rows, expired) \in Rows
        /\ SameFeed(rows.flows, WithCleared(rows, expired).flows)
    BY <1>0, ClearedKeeps
  <2>3. UNCHANGED rows /\ tx = NoTx
    BY <1>3 DEF BeginSession, MayWrite
  <2> DEFINE r == WithCleared(rows, expired)
  <2>4. Work(p, r) /\ r \in Rows /\ SameFeed(rows.flows, r.flows)
    BY <2>1, <2>2
  <2> HIDE DEF r
  <2> QED BY <1>0, <1>2, <2>3, <2>4
<1>4. CASE RunItem(p)
  <2>0. Cycle(p) /\ UNCHANGED rows
    BY <1>4 DEF RunItem
  <2>1. PICK k \in Selectable(tx.rows), st \in ItemState :
            Work(p, [tx.rows EXCEPT !.flows = SetState(@, k, st)])
    <3>1. \E k \in Selectable(tx.rows), outcome \in {"COMPLETED", "BLOCKED", "FAILED", "ESCALATED"} :
            Work(p, [tx.rows EXCEPT !.flows =
                SetState(@, k, IF outcome = "COMPLETED" THEN "COMPLETED" ELSE "WAITING_HUMAN")])
      BY <1>4 DEF RunItem
    <3> QED BY <3>1, ItemStates
  <2>2. tx.rows \in Rows /\ Owns(p)
    BY <2>0, OwnerRows DEF Cycle
  <2> DEFINE f == SetState(tx.rows.flows, k, st)
             r == [tx.rows EXCEPT !.flows = f]
  <2>3. f \in Seq(Flow) /\ SameFeed(tx.rows.flows, f)
    BY <2>1, <2>2, SetStateKeeps, RowsFields DEF Selectable
  <2>4. Work(p, r)
    BY <2>1
  <2> HIDE DEF f
  <2>5. r \in Rows /\ r.flows = f
    BY <2>2, <2>3, RowsChange
  <2> HIDE DEF r
  <2> QED BY <1>2, <2>0, <2>2, <2>3, <2>4, <2>5
<1>5. CASE ClearWaits(p)
  <2>1. PICK expired \in SUBSET tx.rows.waits : Work(p, WithCleared(tx.rows, expired))
    BY <1>5 DEF ClearWaits
  <2>2. Cycle(p) /\ UNCHANGED rows
    BY <1>5 DEF ClearWaits
  <2>3. tx.rows \in Rows /\ Owns(p)
    BY <2>2, OwnerRows DEF Cycle
  <2> QED BY <1>2, <2>1, <2>2, <2>3, ClearedKeeps
<1>6. CASE Rest(p)
  <2>1. Cycle(p) /\ UNCHANGED rows /\ Work(p, Reconciled(tx.rows))
    BY <1>6 DEF Rest
  <2>2. tx.rows \in Rows /\ Owns(p)
    BY <2>1, OwnerRows DEF Cycle
  <2>3. SameFeed(tx.rows.flows, Reconciled(tx.rows).flows) /\ Reconciled(tx.rows) \in Rows
    BY <2>2, ReconciledKeeps, RowsFeedSelf
  <2> QED BY <1>2, <2>1, <2>2, <2>3
<1>7. CASE FeedMore(p)
  <2> DEFINE n == Len(tx.rows.flows)
             keys == Keys(tx.rows, n)
  <2>0. PICK status \in Readings : \E batch \in SessionBatches(status) :
            Work(p, WithBatch(tx.rows, p, n, batch))
    BY <1>7 DEF FeedMore
  <2>1. PICK batch \in SessionBatches(status) : Work(p, WithBatch(tx.rows, p, n, batch))
    BY <2>0
  <2>2. Cycle(p) /\ UNCHANGED rows
    BY <1>7 DEF FeedMore
  <2>3. tx.rows \in Rows /\ Owns(p) /\ tx # NoTx /\ tx.proc = p /\ n \in Nat
    BY <2>2, OwnerRows, RowsFields DEF Cycle
  <2>4. Fresh(batch, keys, keys)
    <3>1. batch \in Batches(keys, keys, SessionMax, status)
      BY <2>1 DEF SessionBatches
    <3> HIDE DEF keys
    <3> QED BY <3>1, BatchesFresh, Limits
  <2>5. batch \in Seq(Sources \X {"feeder", "portfolio"})
    BY <2>4 DEF Fresh
  <2> DEFINE r == WithBatch(tx.rows, p, n, batch)
  <2>6. FedOnce(tx.rows.flows) /\ FedBefore(tx.rows.flows, p, n)
    BY <2>3 DEF FeedKept, FedBefore
  <2> HIDE DEF n
  <2>7. FedOnce(r.flows)
    BY <2>3, <2>4, <2>6, BatchKeepsOnce DEF n
  <2>8. r \in Rows
    BY <2>3, <2>5, WithBatchFlows
  <2>9. Len(r.flows) = n + Len(batch) /\ Len(batch) \in Nat
    <3>1. Len(batch) \in Nat
      BY <2>5
    <3>2. Len(r.flows) = Len(tx.rows.flows) + Len(batch)
      <4>1. n \in Nat /\ tx.rows \in Rows
        BY <2>3
      <4>2. \A r1 \in Rows, m \in Nat : Len(WithBatch(r1, p, m, batch).flows) = Len(r1.flows) + Len(batch)
        BY <2>5, WithBatchFlows
      <4> HIDE DEF n
      <4> QED BY <4>1, <4>2
    <3>3. Len(r.flows) = n + Len(batch)
      BY <3>2 DEF n
    <3> QED BY <3>1, <3>3
  <2>10. ASSUME NEW k \in 1..Len(r.flows)
         PROVE  \/ r.flows[k].proc = p
                \/ k \in 1..Len(rows.flows) /\ r.flows[k].proc = rows.flows[k].proc
    <3>1. CASE k \in 1..n
      <4>1. r.flows[k] = tx.rows.flows[k]
        BY <2>3, <2>5, <3>1, WithBatchFlows DEF n
      <4> QED BY <2>3, <3>1, <4>1 DEF FeedKept, n
    <3>2. CASE k \notin 1..n
      <4> DEFINE l == k - n
      <4>1. l \in 1..Len(batch) /\ n + l = k
        BY <2>3, <2>9, <3>2
      <4> HIDE DEF l
      <4>2. r.flows[n + l] = [entry |-> batch[l][1], by |-> batch[l][2], proc |-> p,
                              seen |-> n, state |-> "READY"]
        BY <2>3, <2>5, <4>1, WithBatchFlows DEF n
      <4> HIDE DEF r
      <4>3. r.flows[k].proc = p
        BY <4>1, <4>2
      <4> QED BY <4>3
    <3> QED BY <3>1, <3>2
  <2>11. Work(p, r)
    BY <2>1
  <2> HIDE DEF r
  <2> QED BY <1>1, <2>2, <2>7, <2>8, <2>10, <2>11, SessionSame
<1>8. CASE Exhaust(p)
  <2>1. UNCHANGED <<rows, tx>>
    BY <1>8 DEF Exhaust
  <2> QED BY <1>1, <2>1 DEF FeedKept, NoneReads
<1>9. CASE CommitSession(p)
  <2>1. tx.rows \in Rows /\ tx # NoTx /\ tx.proc = p /\ rows' = Reconciled(tx.rows) /\ tx' = NoTx
    BY <1>9, OwnerRows DEF CommitSession
  <2>2. rows'.flows = tx.rows.flows
    BY <2>1, ReconciledKeeps
  <2>3. FedOnce(rows'.flows)
    BY <2>1, <2>2 DEF FeedKept
  <2>4. ASSUME NEW q \in Procs, At(q, "ingest")' PROVE FedBefore(rows'.flows, q, shift'[q].seen)
    <3>1. At(q, "ingest") /\ shift'[q].seen = shift[q].seen
      BY <1>1, <2>4 DEF NoneReads
    <3>2. q # p
      BY <1>9, <3>1 DEF CommitSession, At
    <3>3. FedBefore(rows.flows, q, shift[q].seen)
      BY <3>1 DEF FeedKept
    <3> QED BY <2>1, <2>2, <3>1, <3>2, <3>3 DEF FedBefore, FeedKept
  <2> QED BY <2>1, <2>3, <2>4 DEF FeedKept
<1>10. CASE ShiftDies(p)
  <2>1. UNCHANGED rows /\ (tx' = NoTx \/ tx' = tx)
    BY <1>10 DEF ShiftDies
  <2> QED BY <1>1, <2>1 DEF FeedKept, NoneReads
<1> QED BY <1>3, <1>4, <1>5, <1>6, <1>7, <1>8, <1>9, <1>10

LEMMA FeedAround ==
    ASSUME ShiftTyped, FeedKept, Around
    PROVE  FeedKept'
<1>0. rows \in Rows
  BY DEF ShiftTyped
<1>1. UNCHANGED <<tx, shift>> /\ tx = NoTx
  BY DEF Around, OperatorStarts, OperatorResolves, OperatorMoves, RecordWait, MayWrite
<1>2. NoneReads
  BY <1>1 DEF NoneReads, At
<1>3. SameFeed(rows.flows, rows'.flows)
  <2>1. ASSUME NEW from, NEW to \in ItemState, OperatorMoves(from, to)
        PROVE  SameFeed(rows.flows, rows'.flows)
    <3>1. PICK k \in DOMAIN rows.flows : rows' = [rows EXCEPT !.flows = SetState(@, k, to)]
      BY <2>1 DEF OperatorMoves
    <3>2. SetState(rows.flows, k, to) \in Seq(Flow)
          /\ SameFeed(rows.flows, SetState(rows.flows, k, to))
      BY <1>0, SetStateKeeps, RowsFields
    <3> QED BY <1>0, <3>1, <3>2, RowsChange
  <2>2. CASE RecordWait
    <3>1. PICK k \in DOMAIN rows.flows :
            rows' = Reconciled([rows EXCEPT !.waits = @ \cup {rows.flows[k].entry},
                        !.recorded = @ + 1,
                        !.flows = Updated(rows, {rows.flows[k].entry}, "WAITING_RESOURCE")])
      BY <2>2 DEF RecordWait
    <3> DEFINE e == rows.flows[k].entry
               f == Updated(rows, {e}, "WAITING_RESOURCE")
               r == [rows EXCEPT !.waits = @ \cup {e}, !.recorded = @ + 1, !.flows = f]
    <3>2. e \in Sources
      BY <1>0, RowsFields DEF Flow
    <3>3. f \in Seq(Flow) /\ SameFeed(rows.flows, f)
      BY <1>0, UpdatedKeeps, ItemStates
    <3>4. rows.recorded + 1 \in 0..MaxWaits
      BY <1>0, <2>2, RowsFields, Limits DEF RecordWait
    <3> HIDE DEF f, e
    <3>5. r \in Rows /\ r.flows = f
      BY <1>0, <3>2, <3>3, <3>4 DEF Rows
    <3>6. rows' = Reconciled(r)
      BY <3>1 DEF e, f
    <3> QED BY <3>3, <3>5, <3>6, ReconciledKeeps
  <2> QED BY <2>1, <2>2, ItemStates DEF Around, OperatorStarts, OperatorResolves
<1> QED BY <1>1, <1>2, <1>3, FeedSame

----------------------------------------------------------------------------
(* What a resting session reports.  The report stands while the session is *)
(* about to commit: nothing but its own commit touches its rows.           *)

\* A step of the shift is of one process; the others stay as they are.
LEMMA StepOfOne ==
    ASSUME ShiftTyped, NEW q \in Procs, ShiftStep(q)
    PROVE  /\ \A p \in Procs : p # q => shift'[p] = shift[p]
           /\ \A p \in Procs : p # q /\ Owns(p) => tx' = tx
<1>1. \E s : shift' = [shift EXCEPT ![q] = s]
  <2>1. CASE OpenShift(q)
    BY <2>1 DEF OpenShift, ShiftTyped
  <2>2. CASE ReadKeys(q)
    BY <2>2 DEF ReadKeys, ShiftTyped
  <2>3. CASE Ingest(q) \/ BeginSession(q) \/ CommitSession(q) \/ EndShift(q) \/ Interrupted(q)
             \/ ShiftDies(q)
    BY <2>3 DEF Ingest, BeginSession, CommitSession, EndShift, Interrupted, ShiftDies
  <2>4. CASE RunItem(q)
    BY <2>4 DEF RunItem
  <2>5. CASE ClearWaits(q) \/ FeedMore(q) \/ Rest(q)
    BY <2>5 DEF ClearWaits, FeedMore, Rest
  <2>6. CASE Exhaust(q)
    BY <2>6 DEF Exhaust, ShiftTyped
  <2> QED BY <2>1, <2>2, <2>3, <2>4, <2>5, <2>6 DEF ShiftStep
<1>2. \A p \in Procs : p # q => shift'[p] = shift[p]
  BY <1>1 DEF ShiftTyped
<1>3. ASSUME NEW p \in Procs, p # q, Owns(p) PROVE tx' = tx
  <2>1. tx # NoTx /\ ~Owns(q)
    BY <1>3 DEF Owns
  <2>2. CASE OpenShift(q) \/ ReadKeys(q) \/ Ingest(q) \/ BeginSession(q) \/ EndShift(q)
             \/ Interrupted(q)
    BY <2>1, <2>2 DEF OpenShift, ReadKeys, Ingest, BeginSession, EndShift, Interrupted, MayWrite
  <2>3. CASE ShiftDies(q)
    BY <2>1, <2>3 DEF ShiftDies
  <2>4. CASE RunItem(q) \/ ClearWaits(q) \/ FeedMore(q) \/ Rest(q) \/ Exhaust(q) \/ CommitSession(q)
    BY <2>1, <2>4 DEF RunItem, ClearWaits, FeedMore, Rest, Exhaust, CommitSession, Cycle
  <2> QED BY <2>2, <2>3, <2>4 DEF ShiftStep
<1> QED BY <1>2, <1>3

\* RestIsJustified, of one process and its session.
Justified(s, r) ==
    /\ "READY" \in StatesOf(r) => "RUNNING" \in StatesOf(r)
    /\ s.report = "COMPLETED" => StatesOf(r) = {"COMPLETED"} /\ r.waits = {} /\ s.exhausted
    /\ s.report = "WAITING" <=> s.report # "COMPLETED" /\ WaitingCount(r)
Rested(s) == s.pc = "commit" /\ s.report \in {"COMPLETED", "WAITING", "IDLE"}

LEMMA RestReads ==
    RestIsJustified <=> \A p \in Procs : Rested(shift[p]) => Justified(shift[p], tx.rows)
BY DEF RestIsJustified, At, Rested, Justified

\* It has just rested.
LEMMA RestNow ==
    ASSUME ShiftTyped, NEW p \in Procs, Rest(p)
    PROVE  Justified(shift'[p], tx'.rows)
<1>0. shift \in [Procs -> Process] /\ shift[p] \in Process
  BY DEF ShiftTyped
<1>1. Cycle(p) /\ Selectable(tx.rows) = {} /\ Work(p, Reconciled(tx.rows))
  BY DEF Rest
<1>2. tx.rows \in Rows /\ Owns(p)
  BY <1>1, OwnerRows DEF Cycle
<1> DEFINE r == tx.rows
           c == Reconciled(r)
<1>3. tx' = [proc |-> p, rows |-> c]
  BY <1>1 DEF Work
<1>4. tx'.rows = c
  BY <1>3
<1>5. c.flows = r.flows /\ c.waits = r.waits
      /\ (c.mission = "COMPLETED" => StatesOf(r) = {"COMPLETED"} /\ r.waits = {})
  BY <1>2, ReconciledKeeps
<1> HIDE DEF c
<1>6. StatesOf(c) = StatesOf(r) /\ (WaitingCount(c) <=> WaitingCount(r))
  BY <1>5 DEF StatesOf, WaitingCount
<1>7. shift'[p].report = ReportOf(r) /\ shift'[p].exhausted = (shift[p].exhausted \/ AsksFeeder(p))
  <2>1. shift' = [shift EXCEPT ![p] = [Spend(shift[p]) EXCEPT
            !.pc = "commit", !.exhausted = @ \/ AsksFeeder(p), !.report = ReportOf(r)]]
    BY DEF Rest
  <2>2. Spend(shift[p]).exhausted = shift[p].exhausted
    BY <1>0 DEF Spend, Process
  <2>3. shift'[p] = [Spend(shift[p]) EXCEPT !.pc = "commit",
            !.exhausted = Spend(shift[p]).exhausted \/ AsksFeeder(p), !.report = ReportOf(r)]
    BY <1>0, <2>1
  <2>4. "report" \in DOMAIN Spend(shift[p]) /\ "exhausted" \in DOMAIN Spend(shift[p])
    BY <1>0 DEF Spend, Process
  <2> QED BY <2>2, <2>3, <2>4
<1>8. "READY" \in StatesOf(r) => "RUNNING" \in StatesOf(r)
  <2>1. ASSUME "READY" \in StatesOf(r), "RUNNING" \notin StatesOf(r) PROVE FALSE
    <3>1. PICK k \in DOMAIN r.flows : r.flows[k].state = "READY"
      BY <2>1 DEF StatesOf
    <3>2. k \in Selectable(r)
      BY <2>1, <3>1 DEF Selectable
    <3> QED BY <1>1, <3>2
  <2> QED BY <2>1
<1>9. CASE c.mission = "COMPLETED"
  <2>1. ReportOf(r) = "COMPLETED"
    BY <1>9 DEF ReportOf, c
  <2>2. shift[p].exhausted \/ AsksFeeder(p)
    BY <1>5, <1>9 DEF AsksFeeder
  <2> QED BY <1>4, <1>5, <1>6, <1>7, <1>8, <1>9, <2>1, <2>2 DEF Justified
<1>10. CASE c.mission # "COMPLETED" /\ WaitingCount(r)
  <2>1. ReportOf(r) = "WAITING"
    BY <1>10 DEF ReportOf, c
  <2> QED BY <1>4, <1>6, <1>7, <1>8, <1>10, <2>1 DEF Justified
<1>11. CASE c.mission # "COMPLETED" /\ ~WaitingCount(r)
  <2>1. ReportOf(r) = "IDLE"
    BY <1>11 DEF ReportOf, c
  <2> QED BY <1>4, <1>6, <1>7, <1>8, <1>11, <2>1 DEF Justified
<1> QED BY <1>9, <1>10, <1>11

LEMMA RestStep ==
    ASSUME ShiftTyped, RestIsJustified, NEW q \in Procs, ShiftStep(q)
    PROVE  RestIsJustified'
<1>0. /\ shift \in [Procs -> Process]
      /\ \A p \in Procs : InSession(shift[p]) <=> Owns(p)
  BY DEF ShiftTyped
<1>1. ASSUME NEW p \in Procs, Rested(shift'[p]) PROVE Justified(shift'[p], tx'.rows)
  <2>1. CASE p # q
    <3>1. shift'[p] = shift[p]
      BY <2>1, StepOfOne
    <3>2. Owns(p)
      BY <1>0, <1>1, <3>1 DEF Rested, InSession
    <3>3. tx' = tx
      BY <2>1, <3>2, StepOfOne
    <3> QED BY <1>1, <3>1, <3>3, RestReads
  <2>2. CASE p = q
    <3>1. CASE Rest(q)
      BY <2>2, <3>1, RestNow
    <3>2. CASE OpenShift(q) \/ ReadKeys(q) \/ Ingest(q) \/ BeginSession(q) \/ CommitSession(q)
               \/ EndShift(q) \/ Interrupted(q) \/ ShiftDies(q) \/ ClearWaits(q) \/ FeedMore(q)
      <4>1. shift'[q].pc # "commit"
        <5>1. shift[q] \in Process
          BY <1>0
        <5>2. CASE OpenShift(q) \/ ReadKeys(q)
          BY <1>0, <5>1, <5>2 DEF OpenShift, ReadKeys, Process
        <5>3. CASE BeginSession(q)
          <6>1. shift' = [shift EXCEPT ![q] = Opening]
            BY <5>3 DEF BeginSession, Opening
          <6> QED BY <1>0, <6>1, ProcessOff
        <5>4. CASE Ingest(q) \/ CommitSession(q) \/ EndShift(q) \/ Interrupted(q) \/ ShiftDies(q)
          <6>1. shift' = [shift EXCEPT ![q] = Resting] \/ shift' = [shift EXCEPT ![q] = Off]
            BY <5>4 DEF Ingest, CommitSession, EndShift, Interrupted, ShiftDies
          <6> QED BY <1>0, <6>1, ProcessOff
        <5>5. CASE ClearWaits(q) \/ FeedMore(q)
          <6>1. shift' = [shift EXCEPT ![q] = Spend(shift[q])] /\ shift[q].pc = "session"
            BY <5>5 DEF ClearWaits, FeedMore, Cycle, At
          <6> QED BY <1>0, <5>1, <6>1 DEF Spend, Process
        <5> QED BY <3>2, <5>2, <5>3, <5>4, <5>5
      <4> QED BY <1>1, <2>2, <4>1 DEF Rested
    <3>3. CASE RunItem(q)
      <4>1. PICK outcome, failures, streak : shift' = [shift EXCEPT ![q] =
                [Spend(shift[q]) EXCEPT !.failures = failures, !.streak = streak,
                    !.pc = IF outcome = "ESCALATED" THEN "commit" ELSE @,
                    !.report = IF outcome = "ESCALATED" THEN "ESCALATED" ELSE @]]
        BY <3>3 DEF RunItem
      <4>2. shift[q].pc = "session" /\ shift[q] \in Process
        BY <1>0, <3>3 DEF RunItem, Cycle, At
      <4>3. \/ shift'[q].pc = "session"
            \/ shift'[q].report = "ESCALATED"
        BY <1>0, <4>1, <4>2 DEF Spend, Process
      <4> QED BY <1>1, <2>2, <4>3 DEF Rested
    <3>4. CASE Exhaust(q)
      <4>1. PICK report \in {"BUDGET_EXHAUSTED", "FAILED"} :
                shift' = [shift EXCEPT ![q].pc = "commit", ![q].report = report]
        BY <3>4 DEF Exhaust
      <4>2. shift'[q].report = report
        BY <1>0, <4>1 DEF Process
      <4> QED BY <1>1, <2>2, <4>2 DEF Rested
    <3> QED BY <3>1, <3>2, <3>3, <3>4 DEF ShiftStep
  <2> QED BY <2>1, <2>2
<1>2. RestIsJustified' <=> \A p \in Procs : Rested(shift'[p]) => Justified(shift'[p], tx'.rows)
  BY DEF RestIsJustified, At, Rested, Justified
<1> QED BY <1>1, <1>2

----------------------------------------------------------------------------
(* The shifts, in all steps of the whole: launches, power losses, and      *)
(* steps that are not theirs.                                              *)

Shifts == ShiftTyped /\ FeedKept /\ RestIsJustified

LEMMA ShiftsInit == ShiftInit => Shifts
<1> SUFFICES ASSUME ShiftInit PROVE Shifts
  OBVIOUS
<1>1. ShiftTyped
  BY RowsInit
<1>2. rows.flows = <<>> /\ tx = NoTx /\ \A p \in Procs : shift[p] = Off
  BY DEF ShiftInit
<1>3. FeedKept
  <2>1. \A p \in Procs : ~At(p, "ingest")
    BY <1>2, ProcessOff DEF At
  <2>2. FedOnce(rows.flows)
    BY <1>2 DEF FedOnce
  <2> QED BY <1>2, <2>1, <2>2 DEF FeedKept
<1>4. RestIsJustified
  BY <1>2, ProcessOff DEF RestIsJustified, At
<1> QED BY <1>1, <1>3, <1>4 DEF Shifts

LEMMA ShiftsLaunch ==
    ASSUME Shifts, NEW p \in Procs, NEW saw, Launch(p, saw)
    PROVE  Shifts'
<1>0. /\ shift \in [Procs -> Process] /\ shift[p] \in Process /\ ShiftTyped
      /\ shift[p].streak <= shift[p].failures /\ rows \in Rows /\ (tx = NoTx \/ tx \in Session)
      /\ InSession(shift[p]) <=> Owns(p)
  BY DEF Shifts, ShiftTyped
<1>1. UNCHANGED <<rows, tx>> /\ shift[p].pc = "off"
  BY DEF Launch, Alive
<1> DEFINE s == [shift[p] EXCEPT !.pc = "start"]
<1>2. shift' = [shift EXCEPT ![p] = s]
  BY <1>0 DEF Launch
<1>3. s \in Process /\ s.pc = "start" /\ s.streak <= s.failures
  BY <1>0 DEF Process, Pcs
<1> HIDE DEF s
<1>4. \A q \in Procs : Owns(q)' <=> Owns(q)
  BY <1>1 DEF Owns
<1>5. ShiftTyped'
  BY <1>0, <1>1, <1>2, <1>3, <1>4, OneProcess DEF InSession
<1>6. \A q \in Procs : q # p => shift'[q] = shift[q]
  BY <1>0, <1>2
<1>7. shift'[p].pc = "start"
  BY <1>0, <1>2, <1>3
<1>8. FeedKept'
  BY <1>1, <1>6, <1>7 DEF Shifts, FeedKept, At
<1>9. RestIsJustified'
  BY <1>1, <1>6, <1>7 DEF Shifts, RestIsJustified, At
<1> QED BY <1>5, <1>8, <1>9 DEF Shifts

LEMMA ShiftsReboot ==
    ASSUME Shifts, Reboot
    PROVE  Shifts'
<1>1. UNCHANGED rows /\ tx' = NoTx /\ shift' = [p \in Procs |-> Off]
  BY DEF Reboot
<1>2. shift' \in [Procs -> Process] /\ \A p \in Procs : shift'[p] = Off
  BY <1>1, ProcessOff
<1>3. ShiftTyped'
  <2>1. \A p \in Procs : ~Owns(p)'
    BY <1>1 DEF Owns
  <2>2. \A p \in Procs : ~InSession(shift[p])' /\ shift'[p].streak <= shift'[p].failures
    BY <1>2, ProcessOff DEF InSession
  <2> QED BY <1>1, <1>2, <2>1, <2>2 DEF Shifts, ShiftTyped
<1>4. \A p \in Procs : shift'[p].pc = "off"
  BY <1>2, ProcessOff
<1>5. FeedKept'
  BY <1>1, <1>4 DEF Shifts, FeedKept, At
<1>6. RestIsJustified'
  BY <1>4 DEF RestIsJustified, At
<1> QED BY <1>3, <1>5, <1>6 DEF Shifts

LEMMA ShiftsRun ==
    ASSUME Shifts, ShiftRuns
    PROVE  Shifts'
<1>0. ShiftTyped /\ FeedKept /\ RestIsJustified
  BY DEF Shifts
<1>1. ASSUME NEW p \in Procs, ShiftStep(p) PROVE Shifts'
  <2>1. ShiftTyped' /\ FeedKept'
    <3>1. CASE OpenShift(p) \/ ReadKeys(p) \/ Ingest(p) \/ EndShift(p) \/ Interrupted(p)
      BY <1>0, <3>1, RowsOutside, FeedOutside
    <3>2. CASE \/ BeginSession(p) \/ RunItem(p) \/ ClearWaits(p) \/ FeedMore(p) \/ Rest(p)
               \/ Exhaust(p) \/ CommitSession(p) \/ ShiftDies(p)
      BY <1>0, <3>2, RowsInside, FeedInside
    <3> QED BY <1>1, <3>1, <3>2 DEF ShiftStep
  <2>2. RestIsJustified'
    BY <1>0, <1>1, RestStep
  <2> QED BY <2>1, <2>2 DEF Shifts
<1>2. ASSUME Around PROVE Shifts'
  <2>1. ShiftTyped' /\ FeedKept'
    BY <1>0, <1>2, RowsAround, FeedAround
  <2>2. UNCHANGED <<tx, shift>>
    BY <1>2 DEF Around, OperatorStarts, OperatorResolves, OperatorMoves, RecordWait
  <2>3. RestIsJustified'
    BY <1>0, <2>2 DEF RestIsJustified, At
  <2> QED BY <2>1, <2>3 DEF Shifts
<1> QED BY <1>1, <1>2 DEF ShiftRuns

LEMMA ShiftsElsewhere ==
    ASSUME Shifts, UNCHANGED shiftVars
    PROVE  Shifts'
<1>1. UNCHANGED <<rows, tx, shift>>
  BY DEF shiftVars
<1>2. ShiftTyped'
  BY <1>1 DEF Shifts, ShiftTyped, Owns
<1>3. FeedKept'
  BY <1>1 DEF Shifts, FeedKept, At
<1>4. RestIsJustified'
  BY <1>1 DEF Shifts, RestIsJustified, At
<1> QED BY <1>2, <1>3, <1>4 DEF Shifts

\* The steps that are no shift's.
NoShifts ==
    \/ Tick \/ Checkpoint \/ EnduranceEnds \/ EnduranceRestarts
    \/ \E w \in Watchdogs :
        \/ WatchdogStarts(w) \/ WatchdogThreshold(w) \/ WatchdogReleased(w) \/ WatchdogGate(w)
        \/ WatchdogRecheck(w) \/ WatchdogSaves(w) \/ WatchdogDies(w)
    \/ UNCHANGED handoffVars

LEMMA NoShiftsLeave ==
    NoShifts => UNCHANGED shiftVars /\ UNCHANGED <<launch, launches>>
BY DEF NoShifts, Tick, Checkpoint, EnduranceEnds, EnduranceRestarts,
       WatchdogStarts, WatchdogThreshold, WatchdogReleased, WatchdogGate, WatchdogRecheck,
       WatchdogSaves, WatchdogDies, WatchOnly, Phase, handoffVars, handoffOnly

LEMMA StepKinds ==
    ASSUME [HandoffNext]_handoffVars
    PROVE  \/ NoShifts \/ Reboot \/ ShiftRuns
           \/ \E w \in Watchdogs : WatchdogLaunches(w)
BY DEF HandoffNext, NoShifts, WatchdogStep

LEMMA ShiftsStep == Shifts /\ [HandoffNext]_handoffVars => Shifts'
<1> SUFFICES ASSUME Shifts, [HandoffNext]_handoffVars PROVE Shifts'
  OBVIOUS
<1>1. CASE NoShifts
  BY <1>1, NoShiftsLeave, ShiftsElsewhere
<1>2. CASE Reboot
  BY <1>2, ShiftsReboot
<1>3. CASE ShiftRuns
  BY <1>3, ShiftsRun
<1>4. ASSUME NEW w \in Watchdogs, WatchdogLaunches(w) PROVE Shifts'
  BY <1>4, ShiftsLaunch DEF WatchdogLaunches
<1> QED BY <1>1, <1>2, <1>3, <1>4, StepKinds

LEMMA ShiftsHold == HandoffSpec => []Shifts
<1>1. HandoffInit => Shifts
  BY ShiftsInit DEF HandoffInit
<1> QED BY <1>1, ShiftsStep, PTL DEF HandoffSpec

(* Two workflows of one entry come only from one call of the feeder, by    *)
(* the portfolio first and the feeder next, or from two shifts at once     *)
(* (runtime/feeder.py feed_into_queue, portfolio/service.py                *)
(* feed_portfolio_into_queue), for every backlog, order and budget.        *)
THEOREM FedOnceOnly == HandoffSpec => []EntryFedOnce
<1>1. Shifts => EntryFedOnce
  <2> SUFFICES ASSUME Shifts PROVE EntryFedOnce
    OBVIOUS
  <2>1. DOMAIN rows.flows = 1..Len(rows.flows) /\ FedOnce(rows.flows)
    BY RowsFields DEF Shifts, ShiftTyped, FeedKept
  <2> QED BY <2>1 DEF FedOnce, EntryFedOnce
<1> QED BY <1>1, ShiftsHold, PTL

(* A session that rests reports what is so: it reports COMPLETED only when *)
(* no item, wait or feeder could give it more work, and leaves no item     *)
(* READY unless one is RUNNING (runtime/continuation.py run_session).      *)
THEOREM RestJustified == HandoffSpec => []RestIsJustified
BY ShiftsHold, PTL DEF Shifts

----------------------------------------------------------------------------
(* The starters: types.                                                    *)

WatchState == [pc : {"off", "threshold", "release", "gate", "recheck", "launch", "save"},
               passed : BOOLEAN, saw : Nat]
StartersTyped ==
    /\ clock \in Nat
    /\ endurance \in [alive : BOOLEAN, ran : Nat, known : BOOLEAN] /\ endurance.ran <= endured
    /\ endured \in 0..MinDuration /\ log \in 0..endured
    /\ watch \in [Watchdogs -> WatchState]
    /\ file \in WatchStatus
    /\ launch \in [Procs -> [no : Nat, saw : Nat]] /\ launches \in Nat
    /\ byTimestamps \in BOOLEAN

LEMMA MinDurationNat == MinDuration \in Nat /\ MinDuration > 0
BY HandoffAssumption

LEMMA LargerOfTwo ==
    ASSUME NEW a \in Nat, NEW b \in Nat
    PROVE  Max({a, b}) \in {a, b} /\ Max({a, b}) >= a /\ Max({a, b}) >= b
<1>1. \E x \in {a, b} : \A y \in {a, b} : x >= y
  <2>1. CASE a >= b
    BY <2>1
  <2>2. CASE b >= a
    BY <2>2
  <2> QED BY <2>1, <2>2
<1> QED BY <1>1 DEF Max

LEMMA IdleTyped ==
    /\ Idle \in WatchState /\ [Idle EXCEPT !.pc = "save"] \in WatchState
    /\ Idle.pc = "off" /\ Idle.passed = FALSE /\ Idle.saw = 0
    /\ [Idle EXCEPT !.pc = "save"].pc = "save" /\ ~[Idle EXCEPT !.pc = "save"].passed
BY DEF Idle, WatchState

LEMMA StartersInit == HandoffInit => StartersTyped
<1> SUFFICES ASSUME HandoffInit PROVE StartersTyped
  OBVIOUS
<1>1. NoLaunch \in [no : Nat, saw : Nat]
  BY DEF NoLaunch
<1>2. endured \in 0..MinDuration /\ log \in 0..endured
  BY MinDurationNat DEF HandoffInit
<1>3. endurance \in [alive : BOOLEAN, ran : Nat, known : BOOLEAN] /\ endurance.ran <= endured
  BY DEF HandoffInit
<1> QED BY <1>1, <1>2, <1>3, IdleTyped DEF HandoffInit, StartersTyped, WatchStatus

LEMMA StartersEndurance ==
    ASSUME StartersTyped, Tick \/ Checkpoint \/ EnduranceEnds \/ EnduranceRestarts
    PROVE  StartersTyped'
<1>0. /\ clock \in Nat /\ endured \in 0..MinDuration /\ log \in 0..endured /\ endured \in Nat
      /\ endurance \in [alive : BOOLEAN, ran : Nat, known : BOOLEAN] /\ endurance.ran <= endured
  BY MinDurationNat DEF StartersTyped
<1>1. CASE Tick
  <2>1. clock' \in Nat /\ UNCHANGED <<log, watch, file, launch, launches, byTimestamps>>
    BY <1>0, <1>1 DEF Tick
  <2>2. CASE endurance.alive
    <3>1. endurance' = [endurance EXCEPT !.ran = endurance.ran + 1]
          /\ endured' = Max({endured, endurance.ran + 1})
          /\ endurance.ran < MinDuration
      BY <1>1, <2>2 DEF Tick
    <3>2. endurance.ran \in Nat /\ endurance.ran + 1 \in Nat /\ endurance.ran + 1 <= MinDuration
      BY <1>0, <3>1, MinDurationNat
    <3>3. /\ endured' \in {endured, endurance.ran + 1}
          /\ endured' >= endured /\ endured' >= endurance.ran + 1
      BY <1>0, <3>1, <3>2, LargerOfTwo
    <3>4. endurance' \in [alive : BOOLEAN, ran : Nat, known : BOOLEAN]
          /\ endurance'.ran = endurance.ran + 1
      BY <1>0, <3>1, <3>2
    <3>5. endured' \in 0..MinDuration /\ log' \in 0..endured' /\ endurance'.ran <= endured'
      BY <1>0, <2>1, <3>2, <3>3, <3>4, MinDurationNat
    <3> QED BY <2>1, <3>4, <3>5 DEF StartersTyped
  <2>3. CASE ~endurance.alive
    BY <1>1, <2>1, <2>3 DEF Tick, StartersTyped
  <2> QED BY <2>2, <2>3
<1>2. CASE Checkpoint
  <2>1. log' \in 0..endured /\ endured' = endured
    BY <1>0, <1>2 DEF Checkpoint
  <2> QED BY <1>2, <2>1 DEF Checkpoint, StartersTyped
<1>3. CASE EnduranceEnds \/ EnduranceRestarts
  <2>1. endurance' \in [alive : BOOLEAN, ran : Nat, known : BOOLEAN] /\ endurance'.ran = 0
    <3>1. CASE EnduranceEnds
      <4>1. Ended \in [alive : BOOLEAN, ran : Nat, known : BOOLEAN] /\ Ended.ran = 0
        BY DEF Ended
      <4> QED BY <3>1, <4>1 DEF EnduranceEnds
    <3>2. CASE EnduranceRestarts
      <4>1. endurance' = [alive |-> TRUE, ran |-> 0, known |-> FALSE]
        BY <3>2 DEF EnduranceRestarts
      <4> QED BY <4>1
    <3> QED BY <1>3, <3>1, <3>2
  <2>2. endurance'.ran <= endured
    BY <1>0, <2>1
  <2> QED BY <1>3, <2>1, <2>2 DEF EnduranceEnds, EnduranceRestarts, StartersTyped
<1> QED BY <1>1, <1>2, <1>3

\* A launch.
LEMMA LaunchTyped ==
    ASSUME StartersTyped, NEW p \in Procs, NEW saw \in Nat, Launch(p, saw)
    PROVE  /\ launch' \in [Procs -> [no : Nat, saw : Nat]] /\ launches' \in Nat
           /\ launches' = launches + 1
           /\ launch'[p].no = launches + 1 /\ launch'[p].saw = saw
           /\ \A q \in Procs : q # p => launch'[q] = launch[q]
<1>1. launches \in Nat /\ launch \in [Procs -> [no : Nat, saw : Nat]]
  BY DEF StartersTyped
<1>2. launch' = [launch EXCEPT ![p] = [no |-> launches + 1, saw |-> saw]] /\ launches' = launches + 1
  BY DEF Launch
<1> QED BY <1>1, <1>2

LEMMA AcceptedIsBoolean == Accepted \in BOOLEAN
<1>1. CASE log # 0
  <2>1. Accepted = (log >= MinDuration)
    BY <1>1 DEF Accepted
  <2> QED BY <2>1
<1>2. CASE log = 0
  <2>1. Accepted = (clock >= MinDuration)
    BY <1>2 DEF Accepted
  <2> QED BY <2>1
<1> QED BY <1>1, <1>2

LEMMA StartersWatch ==
    ASSUME StartersTyped, NEW w \in Watchdogs, WatchdogStep(w)
    PROVE  StartersTyped'
<1>0. /\ watch \in [Watchdogs -> WatchState] /\ watch[w] \in WatchState /\ file \in WatchStatus
      /\ launches \in Nat /\ byTimestamps \in BOOLEAN
  BY DEF StartersTyped
<1>1. ASSUME NEW st \in WatchState, WatchOnly(w, st), file' \in WatchStatus, byTimestamps' \in BOOLEAN
      PROVE  StartersTyped'
  <2>1. watch' \in [Watchdogs -> WatchState]
    BY <1>0, <1>1 DEF WatchOnly
  <2> QED BY <1>1, <2>1 DEF WatchOnly, StartersTyped
<1>2. CASE WatchdogStarts(w) \/ WatchdogThreshold(w) \/ WatchdogReleased(w)
  <2>1. PICK pc \in {"threshold", "release", "gate"}, st \in WatchStatus : Phase(w, pc, st)
    <3>1. FirstStatus \in WatchStatus
      BY <1>0 DEF FirstStatus, WatchStatus
    <3> QED BY <1>2, <3>1 DEF WatchdogStarts, WatchdogThreshold, WatchdogReleased, WatchStatus
  <2>2. [watch[w] EXCEPT !.pc = pc] \in WatchState
    BY <1>0 DEF WatchState
  <2> QED BY <1>0, <1>1, <2>1, <2>2 DEF Phase
<1>3. CASE WatchdogGate(w)
  <2>1. PICK b \in BOOLEAN : WatchOnly(w, [watch[w] EXCEPT !.pc = "recheck", !.passed = b])
    BY <1>3, AcceptedIsBoolean DEF WatchdogGate
  <2>2. [watch[w] EXCEPT !.pc = "recheck", !.passed = b] \in WatchState
    BY <1>0 DEF WatchState
  <2>3. byTimestamps' \in BOOLEAN /\ file' \in WatchStatus
    BY <1>0, <1>3 DEF WatchdogGate
  <2> QED BY <1>1, <2>1, <2>2, <2>3
<1>4. CASE WatchdogRecheck(w)
  <2>1. file' \in WatchStatus /\ byTimestamps' \in BOOLEAN
    BY <1>0, <1>4 DEF WatchdogRecheck, WatchStatus
  <2>2. CASE WatchOnly(w, Idle)
    BY <1>1, <2>1, <2>2, IdleTyped
  <2>3. CASE ~WatchOnly(w, Idle)
    <3>1. PICK saw \in ClearLooks : WatchOnly(w, [watch[w] EXCEPT !.pc = "launch", !.saw = saw])
      BY <1>4, <2>3 DEF WatchdogRecheck
    <3>2. saw \in Nat
      BY <1>0, <3>1 DEF ClearLooks
    <3>3. [watch[w] EXCEPT !.pc = "launch", !.saw = saw] \in WatchState
      BY <1>0, <3>2 DEF WatchState
    <3> QED BY <1>1, <2>1, <3>1, <3>3
  <2> QED BY <2>2, <2>3
<1>5. CASE WatchdogLaunches(w)
  <2>1. PICK p \in Procs : Launch(p, watch[w].saw)
    BY <1>5 DEF WatchdogLaunches
  <2>2. watch[w].saw \in Nat
    BY <1>0 DEF WatchState
  <2>3. launch' \in [Procs -> [no : Nat, saw : Nat]] /\ launches' \in Nat
    BY <2>1, <2>2, LaunchTyped
  <2>4. watch' \in [Watchdogs -> WatchState]
    BY <1>0, <1>5, IdleTyped DEF WatchdogLaunches
  <2> QED BY <1>5, <2>3, <2>4 DEF WatchdogLaunches, StartersTyped
<1>6. CASE WatchdogSaves(w) \/ WatchdogDies(w)
  <2>1. WatchOnly(w, Idle) /\ file' \in WatchStatus /\ byTimestamps' \in BOOLEAN
    BY <1>0, <1>6 DEF WatchdogSaves, WatchdogDies, WatchStatus
  <2> QED BY <1>1, <2>1, IdleTyped
<1> QED BY <1>2, <1>3, <1>4, <1>5, <1>6 DEF WatchdogStep

LEMMA StartersStep == StartersTyped /\ [HandoffNext]_handoffVars => StartersTyped'
<1> SUFFICES ASSUME StartersTyped, [HandoffNext]_handoffVars PROVE StartersTyped'
  OBVIOUS
<1>0. NoLaunch \in [no : Nat, saw : Nat]
  BY DEF NoLaunch
<1>1. CASE Reboot
  <2>1. watch' \in [Watchdogs -> WatchState] /\ launch' \in [Procs -> [no : Nat, saw : Nat]]
    BY <1>0, <1>1, IdleTyped DEF Reboot
  <2>2. endurance' \in [alive : BOOLEAN, ran : Nat, known : BOOLEAN] /\ endurance'.ran <= endured
    BY <1>1, MinDurationNat DEF Reboot, Ended, StartersTyped
  <2> QED BY <1>1, <2>1, <2>2 DEF Reboot, StartersTyped
<1>2. CASE ShiftRuns
  <2>1. launch' \in [Procs -> [no : Nat, saw : Nat]]
    BY <1>0, <1>2 DEF ShiftRuns, StartersTyped
  <2> QED BY <1>2, <2>1 DEF ShiftRuns, StartersTyped
<1>3. CASE UNCHANGED handoffVars
  BY <1>3 DEF handoffVars, handoffOnly, StartersTyped
<1> QED BY <1>1, <1>2, <1>3, StartersEndurance, StartersWatch DEF HandoffNext

LEMMA StartersHold == HandoffSpec => []StartersTyped
BY StartersInit, StartersStep, PTL DEF HandoffSpec

(* The shift's rows and processes and its starters keep their types, for   *)
(* every backlog and budget: a process is in a session exactly when it     *)
(* holds the lock, cycles stay in their budget, and the log of the         *)
(* endurance shift never shows more time than one of its processes ran.    *)
THEOREM HandoffTypeCorrect == HandoffSpec => []HandoffTypeOK
<1>1. Shifts /\ StartersTyped => HandoffTypeOK
  <2> SUFFICES ASSUME Shifts, StartersTyped PROVE HandoffTypeOK
    OBVIOUS
  <2>0. ShiftTyped /\ shift \in [Procs -> Process]
    BY DEF Shifts, ShiftTyped
  <2>1. ASSUME tx # NoTx PROVE tx.proc \in Alive /\ tx.rows \in Rows
    <3>1. tx.proc \in Procs /\ tx.rows \in Rows
      BY <2>0, <2>1, SessionIsOne DEF ShiftTyped
    <3>2. InSession(shift[tx.proc])
      BY <2>0, <2>1, <3>1 DEF ShiftTyped, Owns
    <3> QED BY <3>1, <3>2 DEF InSession, Alive
  <2>2. \A p \in Procs : /\ shift[p].pc \in {"session", "commit"} <=> Owns(p)
                         /\ shift[p].cycles \in 0..MaxCycles
                         /\ shift[p].streak <= shift[p].failures
    BY <2>0 DEF ShiftTyped, InSession, Process
  <2>3. rows \in Rows /\ file \in WatchStatus /\ endured \in 0..MinDuration /\ log \in 0..endured
    BY <2>0 DEF ShiftTyped, StartersTyped
  <2> QED BY <2>1, <2>2, <2>3 DEF HandoffTypeOK
<1> QED BY <1>1, ShiftsHold, StartersHold, PTL

----------------------------------------------------------------------------
(* Who is alive.                                                           *)

LEMMA AliveLaunch ==
    ASSUME Shifts, NEW p \in Procs, NEW saw, Launch(p, saw)
    PROVE  p \notin Alive /\ Alive' = Alive \cup {p}
<1>1. shift \in [Procs -> Process] /\ shift[p] \in Process
  BY DEF Shifts, ShiftTyped
<1>2. shift' = [shift EXCEPT ![p] = [shift[p] EXCEPT !.pc = "start"]] /\ p \notin Alive
  BY <1>1 DEF Launch
<1>3. shift'[p].pc = "start" /\ \A q \in Procs : q # p => shift'[q] = shift[q]
  BY <1>1, <1>2 DEF Process
<1> QED BY <1>2, <1>3 DEF Alive

\* A step of a shift gives life to none.
LEMMA AliveRuns ==
    ASSUME Shifts, ShiftRuns
    PROVE  /\ Alive' \subseteq Alive
           /\ \A p \in Alive' : launch'[p] = launch[p]
<1>0. ShiftTyped
  BY DEF Shifts
<1>1. ASSUME NEW q \in Procs, ShiftStep(q) PROVE Alive' \subseteq Alive
  <2>1. shift[q].pc # "off"
    <3>1. CASE OpenShift(q) \/ ReadKeys(q) \/ Ingest(q) \/ BeginSession(q) \/ Exhaust(q)
               \/ CommitSession(q) \/ EndShift(q) \/ Interrupted(q)
      BY <3>1 DEF OpenShift, ReadKeys, Ingest, BeginSession, Exhaust, CommitSession, EndShift,
                  Interrupted, At
    <3>2. CASE RunItem(q) \/ ClearWaits(q) \/ FeedMore(q) \/ Rest(q)
      BY <3>2 DEF RunItem, ClearWaits, FeedMore, Rest, Cycle, At
    <3>3. CASE ShiftDies(q)
      BY <3>3 DEF ShiftDies, Alive
    <3> QED BY <1>1, <3>1, <3>2, <3>3 DEF ShiftStep
  <2>2. \A p \in Procs : p # q => shift'[p] = shift[p]
    BY <1>0, <1>1, StepOfOne
  <2> QED BY <2>1, <2>2 DEF Alive
<1>2. ASSUME Around PROVE Alive' = Alive
  <2>1. UNCHANGED shift
    BY <1>2 DEF Around, OperatorStarts, OperatorResolves, OperatorMoves, RecordWait
  <2> QED BY <2>1 DEF Alive
<1>3. \A p \in Alive' : launch'[p] = launch[p]
  BY DEF ShiftRuns, Alive
<1> QED BY <1>1, <1>2, <1>3 DEF ShiftRuns

----------------------------------------------------------------------------
(* Endurance is earned.  The right to launch has been earned whenever      *)
(* anybody could act on it: a watchdog that has passed its gate, or is     *)
(* about to launch.                                                        *)

Earned == endured >= MinDuration \/ byTimestamps
Claims == Alive # {} \/ \E w \in Watchdogs : watch[w].passed \/ watch[w].pc = "launch"
EarnedKept == Claims => Earned

LEMMA EarnedStays ==
    ASSUME StartersTyped, [HandoffNext]_handoffVars, Earned
    PROVE  Earned'
<1>1. endured \in Nat /\ endurance.ran \in Nat /\ MinDuration \in Nat
  BY MinDurationNat DEF StartersTyped
<1>2. CASE Tick
  <2>1. endured' = endured \/ endured' = Max({endured, endurance.ran + 1})
    BY <1>2 DEF Tick
  <2>2. endured' \in Nat /\ endured' >= endured
    <3>1. endurance.ran + 1 \in Nat
      BY <1>1
    <3> QED BY <1>1, <2>1, <3>1, LargerOfTwo
  <2> QED BY <1>1, <1>2, <2>2 DEF Tick, Earned
<1>3. CASE Checkpoint \/ EnduranceEnds \/ EnduranceRestarts \/ Reboot \/ ShiftRuns
           \/ UNCHANGED handoffVars
  BY <1>3 DEF Checkpoint, EnduranceEnds, EnduranceRestarts, Reboot, ShiftRuns,
              handoffVars, handoffOnly, Earned
<1>4. ASSUME NEW w \in Watchdogs, WatchdogStep(w) PROVE Earned'
  BY <1>4 DEF WatchdogStep, WatchdogStarts, WatchdogThreshold, WatchdogReleased, WatchdogGate,
              WatchdogRecheck, WatchdogLaunches, WatchdogSaves, WatchdogDies, WatchOnly, Phase, Earned
<1> QED BY <1>2, <1>3, <1>4 DEF HandoffNext

\* The gate passes on what has been earned.
LEMMA GateEarns ==
    ASSUME StartersTyped, NEW w \in Watchdogs, WatchdogGate(w), watch'[w].passed
    PROVE  Earned'
<1>1. log \in Nat /\ endured \in Nat /\ log <= endured /\ MinDuration \in Nat
  BY MinDurationNat DEF StartersTyped
<1>2. watch \in [Watchdogs -> WatchState] /\ watch[w] \in WatchState
  BY DEF StartersTyped
<1>3. PICK b \in {FALSE, Accepted} :
        /\ watch' = [watch EXCEPT ![w] = [watch[w] EXCEPT !.pc = "recheck", !.passed = b]]
        /\ byTimestamps' = (byTimestamps \/ (log = 0 /\ b))
  BY DEF WatchdogGate, WatchOnly
<1>4. watch'[w].passed = b
  BY <1>2, <1>3 DEF WatchState
<1>5. b /\ Accepted
  <2>1. b \in BOOLEAN /\ (b = FALSE \/ b = Accepted)
    BY <1>3, AcceptedIsBoolean
  <2>2. b
    BY <1>4
  <2> QED BY <2>1, <2>2, Zenon
<1>6. CASE log = 0
  BY <1>3, <1>5, <1>6 DEF Earned
<1>7. CASE log # 0
  <2>1. log >= MinDuration
    BY <1>5, <1>7 DEF Accepted
  <2>2. endured' = endured
    BY DEF WatchdogGate, WatchOnly
  <2> QED BY <1>1, <2>1, <2>2 DEF Earned
<1> QED BY <1>6, <1>7

\* Without an earlier claim only the gate gives rise to one.
LEMMA NewClaims ==
    ASSUME Shifts, StartersTyped, [HandoffNext]_handoffVars, ~Claims,
           ~(\E w \in Watchdogs : WatchdogGate(w) /\ watch'[w].passed)
    PROVE  ~Claims'
<1>0. /\ watch \in [Watchdogs -> WatchState]
      /\ \A w \in Watchdogs : watch[w] \in WatchState
  BY DEF StartersTyped
<1>1. Alive = {} /\ \A w \in Watchdogs : ~watch[w].passed /\ watch[w].pc # "launch"
  BY DEF Claims
<1>2. CASE Tick \/ Checkpoint \/ EnduranceEnds \/ EnduranceRestarts \/ UNCHANGED handoffVars
  <2>1. UNCHANGED <<shift, watch>>
    BY <1>2 DEF Tick, Checkpoint, EnduranceEnds, EnduranceRestarts, handoffVars, handoffOnly, shiftVars
  <2> QED BY <1>1, <2>1 DEF Claims, Alive
<1>3. CASE Reboot
  <2>1. \A w \in Watchdogs : watch'[w] = Idle
    BY <1>3 DEF Reboot
  <2>2. Alive' = {}
    BY <1>3, ProcessOff DEF Reboot, Alive
  <2> QED BY <2>1, <2>2, IdleTyped DEF Claims
<1>4. CASE ShiftRuns
  <2>1. UNCHANGED watch
    BY <1>4 DEF ShiftRuns
  <2> QED BY <1>1, <1>4, <2>1, AliveRuns DEF Claims
<1>5. ASSUME NEW w \in Watchdogs, WatchdogStep(w) PROVE ~Claims'
  <2>1. ASSUME NEW st \in WatchState, WatchOnly(w, st), ~st.passed, st.pc # "launch"
        PROVE  ~Claims'
    <3>1. UNCHANGED shift
      BY <2>1 DEF WatchOnly, shiftVars
    <3>2. watch'[w] = st /\ \A v \in Watchdogs : v # w => watch'[v] = watch[v]
      BY <1>0, <2>1 DEF WatchOnly
    <3>3. \A v \in Watchdogs : ~watch'[v].passed /\ watch'[v].pc # "launch"
      BY <1>1, <2>1, <3>2
    <3> QED BY <1>1, <3>1, <3>3 DEF Claims, Alive
  <2>2. CASE WatchdogStarts(w) \/ WatchdogThreshold(w) \/ WatchdogReleased(w)
    <3>1. PICK pc \in {"threshold", "release", "gate"} :
            WatchOnly(w, [watch[w] EXCEPT !.pc = pc])
      BY <2>2 DEF WatchdogStarts, WatchdogThreshold, WatchdogReleased, Phase
    <3>2. [watch[w] EXCEPT !.pc = pc] \in WatchState /\ [watch[w] EXCEPT !.pc = pc].pc = pc
          /\ [watch[w] EXCEPT !.pc = pc].passed = watch[w].passed
      BY <1>0 DEF WatchState
    <3> QED BY <1>1, <2>1, <3>1, <3>2
  <2>3. CASE WatchdogGate(w)
    <3>1. PICK b \in BOOLEAN : WatchOnly(w, [watch[w] EXCEPT !.pc = "recheck", !.passed = b])
      BY <2>3, AcceptedIsBoolean DEF WatchdogGate
    <3> DEFINE st == [watch[w] EXCEPT !.pc = "recheck", !.passed = b]
    <3>2. st \in WatchState /\ st.passed = b /\ st.pc = "recheck"
      BY <1>0 DEF WatchState
    <3>3. WatchOnly(w, st)
      BY <3>1
    <3> HIDE DEF st
    <3>4. watch'[w] = st
      BY <1>0, <3>3 DEF WatchOnly
    <3>5. ~b
      BY <2>3, <3>2, <3>4
    <3> QED BY <2>1, <3>2, <3>3, <3>5
  <2>4. CASE WatchdogRecheck(w)
    <3>1. WatchOnly(w, Idle)
      BY <1>1, <2>4 DEF WatchdogRecheck
    <3> QED BY <2>1, <3>1, IdleTyped
  <2>5. CASE WatchdogLaunches(w)
    BY <1>1, <2>5 DEF WatchdogLaunches, Watching
  <2>6. CASE WatchdogSaves(w) \/ WatchdogDies(w)
    BY <2>1, <2>6, IdleTyped DEF WatchdogSaves, WatchdogDies
  <2> QED BY <1>5, <2>2, <2>3, <2>4, <2>5, <2>6 DEF WatchdogStep
<1> QED BY <1>2, <1>3, <1>4, <1>5 DEF HandoffNext

LEMMA EarnedInit == HandoffInit => EarnedKept
<1> SUFFICES ASSUME HandoffInit PROVE ~Claims
  BY DEF EarnedKept
<1>1. Alive = {}
  BY ProcessOff DEF HandoffInit, ShiftInit, Alive
<1> QED BY <1>1, IdleTyped DEF HandoffInit, ShiftInit, Claims

LEMMA EarnedStep ==
    Shifts /\ StartersTyped /\ EarnedKept /\ [HandoffNext]_handoffVars => EarnedKept'
<1> SUFFICES ASSUME Shifts, StartersTyped, EarnedKept, [HandoffNext]_handoffVars, Claims'
             PROVE  Earned'
  BY DEF EarnedKept
<1>1. CASE Claims
  BY <1>1, EarnedStays DEF EarnedKept
<1>2. CASE ~Claims
  <2>1. PICK w \in Watchdogs : WatchdogGate(w) /\ watch'[w].passed
    BY <1>2, NewClaims
  <2> QED BY <2>1, GateEarns
<1> QED BY <1>1, <1>2

(* A travel shift is launched only after one process of the endurance      *)
(* shift has run its time without a break, or when a gate looked before a  *)
(* line of its log was written: for any number of watchdogs, whoever dies, *)
(* is started again or loses power in between                              *)
(* (watchdog_shift_10j_to_10l.py run_watchdog_loop,                        *)
(* run_shift_10l_travel_mode.py verify_10j_acceptance_evidence).           *)
THEOREM LaunchIsEarned == HandoffSpec => []HandoffIsEarned
<1>1. EarnedKept => HandoffIsEarned
  BY DEF EarnedKept, Claims, Earned, HandoffIsEarned
<1> QED BY <1>1, EarnedInit, EarnedStep, ShiftsHold, StartersHold, PTL DEF HandoffSpec

----------------------------------------------------------------------------
(* One owner.  A watchdog about to launch has seen no shift.  If it could  *)
(* look, nothing was running: what runs by then has been launched later.   *)

\* Nothing that runs is among the launches it knew of.
Looked(saw) == saw <= launches /\ \A p \in Alive : launch[p].no > saw
OwnerKept ==
    /\ \A p \in Alive : launch[p].no > 0 /\ launch[p].no <= launches
    /\ SecondShiftOnlyByRace
    /\ \A w \in Watchdogs : watch[w].pc = "launch" => Looked(watch[w].saw)

\* Nothing is launched: what lives on keeps its number.
LEMMA OwnerStays ==
    ASSUME OwnerKept, Alive' \subseteq Alive, launches' = launches,
           \A p \in Alive' : launch'[p] = launch[p],
           \A w \in Watchdogs : watch'[w].pc = "launch" =>
                \/ watch[w].pc = "launch" /\ watch'[w].saw = watch[w].saw
                \/ watch'[w].saw \in ClearLooks,
           StartersTyped
    PROVE  OwnerKept'
<1>0. launches \in Nat
  BY DEF StartersTyped
<1>1. \A saw : Looked(saw) => (saw <= launches' /\ \A p \in Alive' : launch'[p].no > saw)
  BY DEF Looked
<1>2. \A saw \in ClearLooks : Looked(saw)
  BY <1>0 DEF ClearLooks, NoShiftSeen, Looked, OwnerKept
<1>3. \A w \in Watchdogs : watch'[w].pc = "launch" =>
        watch'[w].saw <= launches' /\ \A p \in Alive' : launch'[p].no > watch'[w].saw
  BY <1>1, <1>2 DEF OwnerKept
<1>4. SecondShiftOnlyByRace'
  BY DEF OwnerKept, SecondShiftOnlyByRace
<1>5. \A p \in Alive' : launch'[p].no > 0 /\ launch'[p].no <= launches'
  BY DEF OwnerKept
<1> QED BY <1>3, <1>4, <1>5 DEF OwnerKept, Looked

\* A launch by one that has looked.
LEMMA OwnerLaunch ==
    ASSUME Shifts, StartersTyped, OwnerKept, NEW p \in Procs, NEW saw \in Nat, Launch(p, saw),
           Looked(saw),
           \A w \in Watchdogs : watch'[w].pc = "launch" =>
                watch[w].pc = "launch" /\ watch'[w].saw = watch[w].saw
    PROVE  OwnerKept'
<1>1. launches \in Nat /\ launch \in [Procs -> [no : Nat, saw : Nat]]
  BY DEF StartersTyped
<1>2. /\ launches' = launches + 1 /\ launch'[p].no = launches + 1 /\ launch'[p].saw = saw
      /\ \A q \in Procs : q # p => launch'[q] = launch[q]
  BY LaunchTyped
<1>3. p \notin Alive /\ Alive' = Alive \cup {p}
  BY AliveLaunch
<1>4. \A q \in Alive : q # p /\ q \in Procs /\ launch[q].no \in Nat /\ launch'[q] = launch[q]
  BY <1>1, <1>2, <1>3 DEF Alive
<1>5. \A q \in Alive : launch'[q].no <= launches /\ launch'[q].no > saw
  BY <1>4 DEF OwnerKept, Looked
<1>6. \A q \in Alive' : launch'[q].no > 0 /\ launch'[q].no <= launches'
  <2>1. \A q \in Alive : launch[q].no > 0
    BY DEF OwnerKept
  <2> QED BY <1>1, <1>2, <1>3, <1>4, <1>5, <2>1
<1>7. ASSUME NEW o, Looked(o), o \in Nat
      PROVE  o <= launches' /\ \A q \in Alive' : launch'[q].no > o
  BY <1>1, <1>2, <1>3, <1>4, <1>7 DEF Looked
<1>8. SecondShiftOnlyByRace'
  <2> SUFFICES ASSUME NEW a \in Alive', NEW b \in Alive', launch'[a].no < launch'[b].no
               PROVE  launch'[b].saw < launch'[a].no
    BY DEF SecondShiftOnlyByRace
  <2>1. CASE a \in Alive /\ b \in Alive
    BY <1>4, <2>1 DEF OwnerKept, SecondShiftOnlyByRace
  <2>2. CASE a \in Alive /\ b = p
    BY <1>2, <1>5, <2>2
  <2>3. CASE a = p /\ b \in Alive
    BY <1>1, <1>2, <1>4, <1>5, <2>3
  <2>4. CASE a = p /\ b = p
    BY <1>1, <1>2, <2>4
  <2> QED BY <1>3, <2>1, <2>2, <2>3, <2>4
<1>9. ASSUME NEW w \in Watchdogs, watch'[w].pc = "launch"
      PROVE  watch'[w].saw <= launches' /\ \A q \in Alive' : launch'[q].no > watch'[w].saw
  <2>1. Looked(watch[w].saw) /\ watch'[w].saw = watch[w].saw
    BY <1>9 DEF OwnerKept
  <2>2. watch[w].saw \in Nat
    BY DEF StartersTyped, WatchState
  <2> QED BY <1>7, <2>1, <2>2
<1> QED BY <1>6, <1>8, <1>9 DEF OwnerKept, Looked

\* Who is about to launch, in a step that launches nothing.
LEMMA LookersElsewhere ==
    ASSUME StartersTyped, NoShifts
    PROVE  \A w \in Watchdogs : watch'[w].pc = "launch" =>
                \/ watch[w].pc = "launch" /\ watch'[w].saw = watch[w].saw
                \/ watch'[w].saw \in ClearLooks
<1>0. /\ watch \in [Watchdogs -> WatchState]
      /\ \A w \in Watchdogs : watch[w] \in WatchState
  BY DEF StartersTyped
<1>1. CASE Tick \/ Checkpoint \/ EnduranceEnds \/ EnduranceRestarts \/ UNCHANGED handoffVars
  BY <1>1 DEF Tick, Checkpoint, EnduranceEnds, EnduranceRestarts, handoffVars, handoffOnly
<1>2. ASSUME NEW v \in Watchdogs,
             \/ WatchdogStarts(v) \/ WatchdogThreshold(v) \/ WatchdogReleased(v) \/ WatchdogGate(v)
             \/ WatchdogRecheck(v) \/ WatchdogSaves(v) \/ WatchdogDies(v)
      PROVE  /\ \A w \in Watchdogs : w # v => watch'[w] = watch[w]
             /\ watch'[v].pc = "launch" => watch'[v].saw \in ClearLooks
  <2>1. CASE WatchdogStarts(v) \/ WatchdogThreshold(v) \/ WatchdogReleased(v)
    <3>1. PICK pc \in {"threshold", "release", "gate"} :
            WatchOnly(v, [watch[v] EXCEPT !.pc = pc])
      BY <2>1 DEF WatchdogStarts, WatchdogThreshold, WatchdogReleased, Phase
    <3> QED BY <1>0, <3>1 DEF WatchOnly, WatchState
  <2>2. CASE WatchdogGate(v)
    <3>1. PICK b : WatchOnly(v, [watch[v] EXCEPT !.pc = "recheck", !.passed = b])
      BY <2>2 DEF WatchdogGate
    <3> QED BY <1>0, <3>1 DEF WatchOnly, WatchState
  <2>3. CASE WatchdogRecheck(v)
    <3>1. CASE WatchOnly(v, Idle)
      BY <1>0, <3>1, IdleTyped DEF WatchOnly
    <3>2. CASE ~WatchOnly(v, Idle)
      <4>1. PICK saw \in ClearLooks :
              WatchOnly(v, [watch[v] EXCEPT !.pc = "launch", !.saw = saw])
        BY <2>3, <3>2 DEF WatchdogRecheck
      <4> QED BY <1>0, <4>1 DEF WatchOnly, WatchState
    <3> QED BY <3>1, <3>2
  <2>4. CASE WatchdogSaves(v) \/ WatchdogDies(v)
    <3>1. WatchOnly(v, Idle)
      BY <2>4 DEF WatchdogSaves, WatchdogDies
    <3> QED BY <1>0, <3>1, IdleTyped DEF WatchOnly
  <2> QED BY <1>2, <2>1, <2>2, <2>3, <2>4
<1>3. CASE \E w \in Watchdogs :
        \/ WatchdogStarts(w) \/ WatchdogThreshold(w) \/ WatchdogReleased(w) \/ WatchdogGate(w)
        \/ WatchdogRecheck(w) \/ WatchdogSaves(w) \/ WatchdogDies(w)
  <2>1. PICK v \in Watchdogs :
        \/ WatchdogStarts(v) \/ WatchdogThreshold(v) \/ WatchdogReleased(v) \/ WatchdogGate(v)
        \/ WatchdogRecheck(v) \/ WatchdogSaves(v) \/ WatchdogDies(v)
    BY <1>3
  <2>2. /\ \A w \in Watchdogs : w # v => watch'[w] = watch[w]
        /\ watch'[v].pc = "launch" => watch'[v].saw \in ClearLooks
    BY <1>2, <2>1
  <2> QED BY <2>2
<1> QED BY <1>1, <1>3 DEF NoShifts

LEMMA OwnerInit == HandoffInit => OwnerKept
<1> SUFFICES ASSUME HandoffInit PROVE OwnerKept
  OBVIOUS
<1>1. Alive = {}
  BY ProcessOff DEF HandoffInit, ShiftInit, Alive
<1> QED BY <1>1, IdleTyped DEF HandoffInit, OwnerKept, SecondShiftOnlyByRace

LEMMA OwnerStep ==
    Shifts /\ StartersTyped /\ OwnerKept /\ [HandoffNext]_handoffVars => OwnerKept'
<1> SUFFICES ASSUME Shifts, StartersTyped, OwnerKept, [HandoffNext]_handoffVars PROVE OwnerKept'
  OBVIOUS
<1>0. /\ watch \in [Watchdogs -> WatchState]
      /\ \A w \in Watchdogs : watch[w] \in WatchState
  BY DEF StartersTyped
<1>1. CASE NoShifts
  <2>1. UNCHANGED <<shift, launch, launches>>
    BY <1>1, NoShiftsLeave DEF shiftVars
  <2>2. Alive' = Alive
    BY <2>1 DEF Alive
  <2> QED BY <1>1, <2>1, <2>2, LookersElsewhere, OwnerStays
<1>2. CASE Reboot
  <2>1. \A w \in Watchdogs : watch'[w].pc # "launch"
    BY <1>2, IdleTyped DEF Reboot
  <2>2. Alive' = {} /\ launches' = launches
    BY <1>2, ProcessOff DEF Reboot, Alive
  <2> QED BY <2>1, <2>2, OwnerStays
<1>3. CASE ShiftRuns
  <2>1. UNCHANGED <<watch, launches>>
    BY <1>3 DEF ShiftRuns
  <2> QED BY <1>3, <2>1, AliveRuns, OwnerStays
<1>4. ASSUME NEW w \in Watchdogs, WatchdogLaunches(w) PROVE OwnerKept'
  <2>1. PICK p \in Procs : Launch(p, watch[w].saw)
    BY <1>4 DEF WatchdogLaunches
  <2>2. Looked(watch[w].saw) /\ watch[w].saw \in Nat
    BY <1>0, <1>4 DEF WatchdogLaunches, Watching, OwnerKept, WatchState
  <2>3. watch' = [watch EXCEPT ![w] = [Idle EXCEPT !.pc = "save"]]
    BY <1>4 DEF WatchdogLaunches
  <2>4. \A v \in Watchdogs : watch'[v].pc = "launch" => watch'[v] = watch[v]
    BY <1>0, <2>3, IdleTyped
  <2> QED BY <2>1, <2>2, <2>4, OwnerLaunch
<1> QED BY <1>1, <1>2, <1>3, <1>4, StepKinds

(* Two travel shifts run at once only if the watchdog that launched the    *)
(* later one had looked at the process table before the earlier one was    *)
(* launched, or could not read it: for any number of watchdogs and any     *)
(* number of deaths, restarts and launches                                 *)
(* (watchdog_shift_10j_to_10l.py run_watchdog_loop,                        *)
(* is_10l_already_running).                                                *)
THEOREM OneOwner == HandoffSpec => []SecondShiftOnlyByRace
<1>1. OwnerKept => SecondShiftOnlyByRace
  BY DEF OwnerKept
<1> QED BY <1>1, OwnerInit, OwnerStep, ShiftsHold, StartersHold, PTL DEF HandoffSpec
=============================================================================
