------------------------ MODULE ExecutionRouter_proofs ------------------------
(***************************************************************************)
(* Proofs about the execution router and the model gateway, for every set  *)
(* of providers, profiles, requests and files, and any number of retries,  *)
(* failovers, gateway calls and lost sessions.                             *)
(***************************************************************************)
EXTENDS ExecutionRouter, FiniteSetTheorems, WellFoundedInduction, TLAPS

----------------------------------------------------------------------------
(* Least and greatest numbers, the id counter, and orders.                 *)

LEMMA LeastNumber ==
    ASSUME NEW S \in SUBSET Nat, S # {}
    PROVE  Min(S) \in S /\ \A m \in S : Min(S) <= m
<1> DEFINE less == {r \in Nat \X Nat : r[1] < r[2]}
<1>1. IsWellFoundedOn(less, Nat)
  BY NatLessThanWellFounded DEF OpToRel
<1>2. \A m, n \in Nat : m < n => <<m, n>> \in less
  OBVIOUS
<1>3. PICK n \in S : \A m \in S : ~ (<<m, n>> \in less)
  <2> HIDE DEF less
  <2> QED BY <1>1, WFMin
<1>4. ASSUME NEW m \in S PROVE n <= m
  <2>1. m \in Nat /\ n \in Nat
    OBVIOUS
  <2>2. ~ (m < n)
    <3> HIDE DEF less
    <3> QED BY <1>2, <1>3, <2>1
  <2> QED BY <2>1, <2>2
<1> QED BY <1>4 DEF Min

LEMMA GreatestNumber ==
    ASSUME NEW S \in SUBSET Nat, S # {}, NEW b \in Nat, \A m \in S : m <= b
    PROVE  Max(S) \in S
<1> DEFINE above == {n \in Nat : \A m \in S : m <= n}
<1>1. above # {} /\ above \in SUBSET Nat
  OBVIOUS
<1>2. PICK n \in above : \A k \in above : n <= k
  <2> HIDE DEF above
  <2> QED BY <1>1, LeastNumber
<1>3. n \in S
  <2>1. SUFFICES ASSUME n \notin S PROVE FALSE
    OBVIOUS
  <2>2. \A m \in S : m \in Nat /\ m <= n /\ m # n
    BY <2>1
  <2>3. n # 0
    <3>1. PICK m \in S : TRUE
      OBVIOUS
    <3> HIDE DEF above
    <3> QED BY <2>2, <3>1
  <2>4. n - 1 \in Nat /\ \A m \in S : m <= n - 1
    BY <2>2, <2>3
  <2>5. n - 1 \in above
    BY <2>4
  <2> HIDE DEF above
  <2>6. n \in Nat
    BY <1>1
  <2> QED BY <1>2, <2>5, <2>6
<1>4. \A m \in S : n >= m
  OBVIOUS
<1> QED BY <1>3, <1>4 DEF Max

\* Rows under ids that the counter has given out.
RowsTyped(rows, next) ==
    /\ next \in Nat \ {0}
    /\ rows \in [DOMAIN rows -> Row]
    /\ DOMAIN rows \subseteq 1..(next - 1)

(* The counter is ahead of every row, so the persisted rows never decide   *)
(* the next id (persistence/repositories.py next_id).                      *)
LEMMA NextIdIsTheCounter ==
    ASSUME RowsTyped(executions, counter)
    PROVE  next_id = counter
<1> DEFINE S == {0} \cup DOMAIN executions
<1>1. S \in SUBSET Nat /\ S # {} /\ \A m \in S : m <= counter - 1
  BY DEF RowsTyped
<1>2. counter - 1 \in Nat /\ counter \in Nat
  BY DEF RowsTyped
<1>3. Max(S) \in S
  <2> HIDE DEF S
  <2> QED BY <1>1, <1>2, GreatestNumber
<1> HIDE DEF S
<1>4. ASSUME NEW m \in S PROVE ~ (counter < m + 1)
  <2>1. m \in Nat /\ m <= counter - 1
    BY <1>1
  <2> QED BY <1>2, <2>1
<1>5. ~ (counter < Max(S) + 1)
  BY <1>3, <1>4
<1> QED BY <1>5 DEF S, next_id, PersistedNext, Larger

LEMMA OneMoreRow ==
    ASSUME RowsTyped(executions, counter), NEW id \in Nat, NEW next \in Nat, NEW row \in Row,
           1 <= id, id < next, counter <= next
    PROVE  RowsTyped(WithRow(id, row), next)
<1>1. DOMAIN WithRow(id, row) = DOMAIN executions \cup {id}
  BY DEF WithRow
<1>2. \A i \in DOMAIN executions : i \in 1..(next - 1)
  BY DEF RowsTyped
<1>3. WithRow(id, row) \in [DOMAIN executions \cup {id} -> Row]
  BY DEF WithRow, RowsTyped
<1> QED BY <1>1, <1>2, <1>3 DEF RowsTyped

(* An order of a set names its elements, all of them if any.               *)
LEMMA OrderType ==
    ASSUME NEW T, NEW S \in SUBSET T, IsFiniteSet(S), NEW key, NEW s \in InOrder(S, key)
    PROVE  /\ s \in Seq(T) /\ Len(s) = Cardinality(S)
           /\ \A i \in DOMAIN s : s[i] \in S
           /\ S # {} => Len(s) >= 1
<1>1. Cardinality(S) \in Nat /\ (S # {} => Cardinality(S) >= 1)
  BY FS_CardinalityType, FS_EmptySet
<1>2. s \in [1..Cardinality(S) -> S]
  BY DEF InOrder
<1> QED BY <1>1, <1>2

(* No element has two places, when the keys are tuples of numbers.         *)
LEMMA OrderedOnce ==
    ASSUME NEW S, IsFiniteSet(S), NEW key, \A e \in S : key[e] \in Seq(Int), NEW s \in InOrder(S, key),
           NEW i \in DOMAIN s, NEW j \in DOMAIN s, s[i] = s[j]
    PROVE  i = j
<1>1. Cardinality(S) \in Nat
  BY FS_CardinalityType
<1>2. s \in [1..Cardinality(S) -> S]
  BY DEF InOrder
<1>3. i \in Nat /\ j \in Nat /\ s[i] \in S
  BY <1>1, <1>2
<1>4. ~ SortsBefore(key[s[i]], key[s[i]])
  <2>1. key[s[i]] \in Seq(Int)
    BY <1>3
  <2>2. \A n \in DOMAIN key[s[i]] : key[s[i]][n] \in Int
    BY <2>1
  <2> QED BY <2>2 DEF SortsBefore
<1>5. ~ (i < j) /\ ~ (j < i)
  BY <1>4 DEF InOrder
<1> QED BY <1>3, <1>5

LEMMA EligibleProfilesType ==
    ASSUME NEW q
    PROVE  EligibleProfiles(q) \in SUBSET Profiles /\ IsFiniteSet(EligibleProfiles(q))
BY FS_Subset, GatewayAssumption DEF EligibleProfiles, GatewayAssumption

(* A routed call has a profile to try.                                     *)
LEMMA AttemptsType ==
    ASSUME NEW q \in GatewayRequests, EligibleProfiles(q) # {},
           NEW order \in order_eligible(q)
    PROVE  Attempts(q, order) \in Seq(Profiles) /\ 1 \in DOMAIN Attempts(q, order)
<1>1. order \in Seq(Profiles) /\ Len(order) >= 1
  BY EligibleProfilesType, OrderType DEF order_eligible
<1>2. Len(order) \in Nat
  BY <1>1
<1> DEFINE n == IF q.fallback_allowed THEN Len(order) ELSE 1
           k == IF q.max_attempts \in 1..n THEN q.max_attempts ELSE n
<1>3. n \in 1..Len(order)
  BY <1>1, <1>2
<1>4. k \in 1..Len(order)
  BY <1>2, <1>3
<1>5. Attempts(q, order) = SubSeq(order, 1, k)
  BY DEF Attempts
<1> HIDE DEF n, k
<1>6. SubSeq(order, 1, k) \in Seq(Profiles) /\ Len(SubSeq(order, 1, k)) = k
  BY <1>1, <1>2, <1>4
<1> QED BY <1>4, <1>5, <1>6

----------------------------------------------------------------------------
(* Types: the router's record, the files, the rows and the gateway's call. *)

Mark == [by : Nat, how : {"HEAD", "edit", "command", "repair"}]
Call == [request : Nat, targets : Seq(Profiles), attempt : Nat]

\* Between the invocation of a provider and the record of the attempt.
Called == {"validate", "model", "write", "scope", "accept", "restore", "enforce", "record"}

TreeTyped == tree \in [Paths -> Mark] /\ \A p \in Paths : tree[p].by <= invocations

\* A provider is at hand when it is called, and a result when it is recorded.
InPlace ==
    /\ job.eligible \subseteq job.asked
    /\ job.place \in 0..Len(job.order)
    /\ job.at \in Called \cup {"invoke"} => job.place >= 1
    /\ job.at \in {"enforce", "record"} => job.result.status # "NONE"
    /\ job.at # "idle" => job.id \in 1..(counter - 1)
    /\ call # NoCall => call.attempt \in DOMAIN call.targets

Base ==
    /\ job \in Job /\ call \in Call
    /\ {calls, invocations, requests, previews} \subseteq Nat
    /\ TreeTyped
    /\ RowsTyped(executions, counter) /\ RowsTyped(saved.executions, saved.counter)
    /\ InPlace

\* What a call in progress leaves alone: the request, its providers, its count.
SameCall ==
    /\ job'.id = job.id /\ job'.request = job.request /\ job'.timeout = job.timeout
    /\ job'.asked = job.asked /\ job'.eligible = job.eligible /\ job'.order = job.order
    /\ job'.place = job.place /\ job'.attempt = job.attempt
    /\ job'.failovers = job.failovers /\ job'.called = job.called

\* A step of the provider or of the contract: files and the result may change.
Works ==
    /\ job.at \in Called \ {"record"} /\ job'.at \in Called
    /\ job' \in Job /\ SameCall
    /\ job'.at \in {"enforce", "record"} => job'.result.status # "NONE"
    /\ TreeTyped'
    /\ UNCHANGED <<executions, counter, call, calls, saved, counts>>

LEMMA ResultTypes ==
    /\ Completed \in Results /\ Completed.status # "NONE"
    /\ \A r \in RetryClasses : Failed(r) \in Results /\ Failed(r).status # "NONE"
    /\ NoResult \in Results
    /\ {"NON_RETRYABLE", "RETRYABLE_OR_FAILOVERABLE"} \subseteq RetryClasses
BY DEF Completed, Failed, NoResult, Results, RetryClasses

LEMMA IdleType == Idle \in Job
<1>1. (CHOOSE r \in Requests : TRUE) \in Requests
  BY RouterAssumption DEF RouterAssumption
<1>2. NoResult \in Results /\ << >> \in Seq(Providers) /\ << >> \in Seq(Providers \X Nat)
  BY ResultTypes
<1> QED BY <1>1, <1>2 DEF Idle, Job, Labels

LEMMA ReturnsStep ==
    ASSUME job \in Job, NEW result \in Results, result.status # "NONE", Returns(result)
    PROVE  /\ job' \in Job /\ SameCall
           /\ job'.at = "enforce" /\ job'.result = result /\ job'.contract = 1
BY DEF Returns, Job, SameCall, Labels

LEMMA GoToStep ==
    ASSUME job \in Job, NEW label \in Labels, GoTo(label)
    PROVE  /\ job' \in Job /\ SameCall /\ job'.at = label /\ job'.edits = job.edits
           /\ job'.written = job.written
BY DEF GoTo, Job, SameCall

LEMMA WrittenType ==
    ASSUME invocations \in Nat, NEW how \in {"edit", "command", "repair"}
    PROVE  Written(how) \in Mark /\ Written(how).by = invocations
BY DEF Written, Mark

(* Every step between a call and its record is of this one kind.           *)
LEMMA WorkingSteps ==
    ASSUME Base,
           \/ ValidateWorkspace \/ ModelUnreachable \/ ModelAnswers \/ WriteEdit
           \/ VerifyScope \/ Accept \/ RestoreWorkspace \/ RestoreRaises
           \/ EnforceFile \/ Judge
    PROVE  Works
<1>t. job \in Job /\ invocations \in Nat /\ TreeTyped /\ InPlace
  BY DEF Base
<1>l. /\ {"validate", "model", "write", "accept", "restore", "enforce"} \subseteq Called \ {"record"}
      /\ Called \subseteq Labels
  BY DEF Called, Labels
<1>s. UNCHANGED tree /\ UNCHANGED invocations => TreeTyped'
  BY <1>t DEF TreeTyped
<1>f. ASSUME UNCHANGED <<filesAndRows, counts>>, job.at \in Called \ {"record"},
             job'.at \in Called, job' \in Job, SameCall,
             job'.at \in {"enforce", "record"} => job'.result.status # "NONE"
      PROVE  Works
  BY <1>s, <1>f DEF Works, filesAndRows, counts
<1>r. ASSUME NEW result \in Results, result.status # "NONE", Returns(result)
      PROVE  job' \in Job /\ SameCall /\ job'.at \in Called /\ job'.result.status # "NONE"
  BY <1>t, <1>l, <1>r, ReturnsStep
<1>g. ASSUME NEW label \in {"model", "write", "accept", "restore"}, GoTo(label)
      PROVE  /\ job' \in Job /\ SameCall /\ job'.at \in Called
             /\ job'.at \notin {"enforce", "record"}
  BY <1>t, <1>l, <1>g, GoToStep
<1>1. CASE ValidateWorkspace
  <2>1. \/ Returns(Failed("NON_RETRYABLE"))
        \/ GoTo("model")
    BY <1>1 DEF ValidateWorkspace
  <2> QED BY <1>1, <1>f, <1>r, <1>g, <1>l, <2>1, ResultTypes DEF ValidateWorkspace
<1>2. CASE ModelUnreachable
  BY <1>2, <1>f, <1>r, <1>l, ResultTypes DEF ModelUnreachable
<1>3. CASE ModelAnswers
  <2>1. ASSUME NEW E \in SUBSET Paths, job' = [job EXCEPT !.at = "write", !.edits = E]
        PROVE  job' \in Job /\ SameCall /\ job'.at = "write"
    BY <1>t, <2>1 DEF Job, SameCall, Labels
  <2>2. job.request.paths \in SUBSET Paths
    BY <1>t, RouterAssumption DEF Job, RouterAssumption, Request
  <2>3. \/ \E r \in {"NON_RETRYABLE", "RETRYABLE_OR_FAILOVERABLE"} : Returns(Failed(r))
        \/ Returns(Completed)
        \/ GoTo("restore")
        \/ \E E \in SUBSET Paths : job' = [job EXCEPT !.at = "write", !.edits = E]
    <3>1. ReadOnlyAnswer => Returns(Completed) \/ Returns(Failed("NON_RETRYABLE"))
      BY DEF ReadOnlyAnswer
    <3>2. MutationAnswer => \/ GoTo("restore")
                            \/ \E E \in SUBSET Paths : job' = [job EXCEPT !.at = "write", !.edits = E]
      BY <2>2 DEF MutationAnswer, materialize_compact_edits, request
    <3>3. \/ Returns(Failed("RETRYABLE_OR_FAILOVERABLE")) \/ Returns(Failed("NON_RETRYABLE"))
          \/ ReadOnlyAnswer \/ MutationAnswer
      BY <1>3 DEF ModelAnswers, parse_model_payload
    <3> QED BY <3>1, <3>2, <3>3
  <2>4. job' \in Job /\ SameCall /\ job'.at \in Called
        /\ (job'.at \in {"enforce", "record"} => job'.result.status # "NONE")
    BY <1>r, <1>g, <1>l, <2>1, <2>3, ResultTypes
  <2> QED BY <1>3, <1>f, <1>l, <2>4 DEF ModelAnswers
<1>4. CASE WriteEdit
  <2>1. PICK p \in job.edits :
            /\ tree' \in {tree, [tree EXCEPT ![p] = Written("edit")]}
            /\ \/ job' = [job EXCEPT !.edits = @ \ {p}, !.written = @ \cup {p}]
               \/ Returns(Failed("NON_RETRYABLE"))
    BY <1>4 DEF WriteEdit
  <2>2. p \in Paths /\ UNCHANGED invocations
    BY <1>t, <1>4 DEF Job, WriteEdit, counts
  <2>3. TreeTyped'
    BY <1>t, <2>1, <2>2, WrittenType DEF TreeTyped
  <2>4. job' = [job EXCEPT !.edits = @ \ {p}, !.written = @ \cup {p}]
            => job' \in Job /\ SameCall /\ job'.at = job.at
    <3>1. job.edits \ {p} \in SUBSET Paths /\ job.written \cup {p} \in SUBSET Paths
      BY <1>t, <2>2 DEF Job
    <3> QED BY <1>t, <3>1 DEF Job, SameCall
  <2>5. job.at = "write"
    BY <1>4 DEF WriteEdit
  <2> QED BY <1>4, <1>r, <1>l, <2>1, <2>3, <2>4, <2>5, ResultTypes DEF WriteEdit, Works, counts
<1>5. CASE VerifyScope
  BY <1>5, <1>f, <1>g, <1>l DEF VerifyScope
<1>6. CASE Accept
  <2>1. \/ UNCHANGED tree
        \/ \E K \in SUBSET Paths :
                tree' = [p \in Paths |-> IF p \in K THEN Written("command") ELSE tree[p]]
    BY <1>6 DEF Accept, LeftBehind
  <2>2. UNCHANGED invocations
    BY <1>6 DEF Accept, counts
  <2>3. TreeTyped'
    BY <1>t, <2>1, <2>2, WrittenType DEF TreeTyped
  <2>4. job.at = "accept" /\ (Returns(Completed) \/ GoTo("restore"))
    BY <1>6 DEF Accept
  <2> QED BY <1>6, <1>r, <1>g, <1>l, <2>3, <2>4, ResultTypes DEF Accept, Works, counts
<1>7. CASE RestoreWorkspace
  <2>1. \/ tree' = [p \in Paths |-> Clean]
        \/ \E K \in SUBSET Paths : tree' = [p \in Paths |-> IF p \in K THEN tree[p] ELSE Clean]
    BY <1>7 DEF RestoreWorkspace, Changed
  <2>2. UNCHANGED invocations
    BY <1>7 DEF RestoreWorkspace, counts
  <2>3. Clean \in Mark /\ Clean.by = 0
    BY DEF Clean, Mark
  <2>4. TreeTyped'
    BY <1>t, <2>1, <2>2, <2>3 DEF TreeTyped
  <2> QED BY <1>7, <1>r, <1>l, <2>4, ResultTypes DEF RestoreWorkspace, Works, counts
<1>8. CASE RestoreRaises
  BY <1>8, <1>f, <1>r, <1>l, ResultTypes DEF RestoreRaises
<1>9. CASE EnforceFile
  <2>1. \E b \in BOOLEAN : job' = [job EXCEPT !.contract = @ + 1, !.issues = b]
    <3>1. \A v : (job.issues \/ v = "issue") \in BOOLEAN
      OBVIOUS
    <3> QED BY <1>9, <3>1 DEF EnforceFile
  <2>2. tree' = tree \/ \E q : tree' = [tree EXCEPT ![q] = Written("repair")]
    BY <1>9 DEF EnforceFile
  <2>3. /\ job.at = "enforce" /\ job.result.status # "NONE" /\ UNCHANGED invocations
        /\ UNCHANGED <<executions, counter, call, calls, saved, counts>>
    BY <1>9, <1>t DEF EnforceFile, counts, InPlace
  <2>4. TreeTyped'
    BY <1>t, <2>2, <2>3, WrittenType DEF TreeTyped
  <2>5. job' \in Job /\ SameCall /\ job'.at = job.at /\ job'.result = job.result
    <3>1. PICK b \in BOOLEAN : job' = [job EXCEPT !.contract = @ + 1, !.issues = b]
      BY <2>1
    <3>2. job.contract + 1 \in Nat
      BY <1>t DEF Job
    <3>3. job' \in Job
      BY <1>t, <3>1, <3>2 DEF Job
    <3> QED BY <1>t, <3>1, <3>3 DEF Job, SameCall
  <2> QED BY <1>l, <2>3, <2>4, <2>5 DEF Works
<1>10. CASE Judge
  <2>1. PICK unsupported \in quality_issues :
          job' = [job EXCEPT !.at = "record", !.contract = 0, !.issues = FALSE,
                    !.result = IF job.issues \/ unsupported THEN Failed("NON_RETRYABLE") ELSE @]
    BY <1>10 DEF Judge
  <2>2. job.at = "enforce" /\ job.result.status # "NONE"
    BY <1>10, <1>t DEF Judge, InPlace
  <2>3. job' \in Job /\ SameCall /\ job'.at = "record" /\ job'.result.status # "NONE"
    BY <1>t, <2>1, <2>2, ResultTypes DEF Job, SameCall, Labels
  <2>4. "record" \in Called
    BY DEF Called
  <2> QED BY <1>10, <1>f, <1>l, <2>2, <2>3, <2>4 DEF Judge
<1> QED BY <1>1, <1>2, <1>3, <1>4, <1>5, <1>6, <1>7, <1>8, <1>9, <1>10

\* The row of an attempt gets an id that no row has: the request's own, or the
\* next one.
RowAdded(row) ==
    \E id \in Nat \ {0} :
        /\ id \notin DOMAIN executions
        /\ executions' = WithRow(id, row)
        /\ \/ id = counter /\ counter' = counter + 1
           \/ id = job.id /\ counter' = counter /\ job.attempt <= 1 /\ job.at = "record"

Attempt == [by |-> "router", request |-> job.id, target |-> provider,
            attempt |-> job.attempt, status |-> job.result.status, retry |-> job.result.retry]

LEMMA ProviderAtHand ==
    ASSUME Base, job.at \in Called \cup {"invoke"}
    PROVE  provider \in Providers /\ job.place \in DOMAIN job.order
<1>1. job.order \in Seq(Providers) /\ job.place \in 1..Len(job.order)
  BY DEF Base, InPlace, Job
<1> QED BY <1>1 DEF provider

LEMMA RecordAddsRow ==
    ASSUME Base, RecordAttempt
    PROVE  /\ RowAdded(Attempt) /\ Attempt \in Row
           /\ UNCHANGED <<call, calls, tree, saved, invocations, requests, previews>>
<1>1. job.at = "record" /\ "record" \in Called
  BY DEF RecordAttempt, Called
<1>2. /\ RowsTyped(executions, counter) /\ job \in Job
      /\ job.id \in 1..(counter - 1) /\ job.result.status # "NONE"
  BY <1>1 DEF Base, InPlace
<1>3. next_id = counter /\ counter \in Nat \ {0} /\ counter \notin DOMAIN executions
  BY <1>2, NextIdIsTheCounter DEF RowsTyped
<1>4. Attempt \in Row
  <2>1. provider \in Nat
    BY <1>1, ProviderAtHand, RouterAssumption DEF RouterAssumption
  <2>2. job.id \in Nat /\ job.attempt \in Nat
        /\ job.result.status \in {"COMPLETED", "FAILED"} /\ job.result.retry \in RetryClasses
    BY <1>2 DEF Job, Results
  <2> QED BY <2>1, <2>2 DEF Attempt, Row
<1>5. RowAdded(Attempt)
  <2>1. executions' = WithRow(RecordId, Attempt)
        /\ counter' = IF RecordId = job.id THEN counter ELSE RecordId + 1
    BY DEF RecordAttempt, Attempt
  <2>2. CASE job.attempt > 1 \/ job.id \in DOMAIN executions
    <3>1. RecordId = counter /\ RecordId # job.id
      BY <1>2, <1>3, <2>2 DEF RecordId
    <3> QED BY <1>3, <2>1, <3>1 DEF RowAdded
  <2>3. CASE ~ (job.attempt > 1 \/ job.id \in DOMAIN executions)
    <3>1. RecordId = job.id
      BY <2>3 DEF RecordId
    <3>2. job.attempt <= 1 /\ job.id \in Nat \ {0}
      BY <1>2, <2>3 DEF Job
    <3> QED BY <1>1, <2>1, <2>3, <3>1, <3>2 DEF RowAdded
  <2> QED BY <2>2, <2>3
<1> QED BY <1>4, <1>5 DEF RecordAttempt, counts

LEMMA AddedRowTyped ==
    ASSUME Base, NEW row \in Row, RowAdded(row)
    PROVE  RowsTyped(executions, counter)' /\ counter' \in Nat /\ counter <= counter'
<1>1. RowsTyped(executions, counter) /\ counter \in Nat
  BY DEF Base, RowsTyped
<1>2. job.at = "record" => job.id \in 1..(counter - 1)
  BY DEF Base, InPlace
<1>3. PICK id \in Nat \ {0} :
        /\ executions' = WithRow(id, row)
        /\ \/ id = counter /\ counter' = counter + 1
           \/ id = job.id /\ counter' = counter /\ job.at = "record"
  BY DEF RowAdded
<1>4. counter' \in Nat /\ counter <= counter' /\ 1 <= id /\ id < counter'
  BY <1>1, <1>2, <1>3
<1>5. RowsTyped(WithRow(id, row), counter')
  BY <1>1, <1>4, OneMoreRow
<1> QED BY <1>3, <1>4, <1>5 DEF RowsTyped

(* Rows beside the request in progress: the gateway's.                     *)
TriedRow(outcome) == GatewayRow(call.targets[call.attempt], call.attempt, outcome)
BlockedRow == [by |-> "gateway", request |-> calls + 1, target |-> 0, attempt |-> 1,
               status |-> "FAILED", retry |-> "NON_RETRYABLE"]

LEMMA GatewayAddsRow ==
    ASSUME Base, NEW outcome \in Outcomes, AttemptExecution(outcome)
    PROVE  RowAdded(TriedRow(outcome)) /\ TriedRow(outcome) \in Row
<1>1. RowsTyped(executions, counter) /\ call \in Call /\ call.attempt \in DOMAIN call.targets
  BY DEF Base, InPlace, AttemptExecution
<1>2. next_id = counter /\ counter \in Nat \ {0} /\ counter \notin DOMAIN executions
  BY <1>1, NextIdIsTheCounter DEF RowsTyped
<1>3. call.targets[call.attempt] \in Nat /\ call.attempt \in Nat /\ call.request \in Nat
  <2>1. call.targets \in Seq(Profiles) /\ call.attempt \in Nat /\ call.request \in Nat
    BY <1>1 DEF Call
  <2>2. call.targets[call.attempt] \in Profiles
    BY <1>1, <2>1
  <2> QED BY <2>1, <2>2, GatewayAssumption DEF GatewayAssumption
<1>4. TriedRow(outcome) \in Row
  BY <1>3 DEF TriedRow, GatewayRow, Row, RetryClasses
<1>5. executions' = WithRow(next_id, TriedRow(outcome)) /\ counter' = next_id + 1
  BY DEF AttemptExecution, TriedRow
<1> QED BY <1>2, <1>4, <1>5 DEF RowAdded

LEMMA BlockAddsRow ==
    ASSUME Base, executions' = WithRow(next_id, BlockedRow), counter' = next_id + 1
    PROVE  RowAdded(BlockedRow) /\ BlockedRow \in Row
<1>1. RowsTyped(executions, counter) /\ calls \in Nat
  BY DEF Base
<1>2. next_id = counter /\ counter \in Nat \ {0} /\ counter \notin DOMAIN executions
  BY <1>1, NextIdIsTheCounter DEF RowsTyped
<1>3. BlockedRow \in Row
  BY <1>1 DEF Row, RetryClasses, BlockedRow
<1> QED BY <1>2, <1>3 DEF RowAdded

(* Every step keeps the types.                                             *)
LEMMA BaseStep ==
    ASSUME Base, [RouterNext]_vars
    PROVE  Base'
<1>t. /\ job \in Job /\ call \in Call /\ TreeTyped /\ InPlace
      /\ calls \in Nat /\ invocations \in Nat /\ requests \in Nat /\ previews \in Nat
      /\ RowsTyped(executions, counter) /\ RowsTyped(saved.executions, saved.counter)
      /\ counter \in Nat \ {0} /\ next_id = counter
  BY NextIdIsTheCounter DEF Base, RowsTyped
<1>n. NoCall \in Call
  <2>1. << >> \in Seq(Profiles)
    OBVIOUS
  <2> QED BY <2>1 DEF NoCall, Call
<1>tree. UNCHANGED <<tree, invocations>> => TreeTyped'
  BY <1>t DEF TreeTyped
<1>rows. ASSUME UNCHANGED executions, counter' \in Nat, counter <= counter'
         PROVE  RowsTyped(executions, counter)'
  BY <1>t, <1>rows DEF RowsTyped
<1>saved. UNCHANGED saved => RowsTyped(saved.executions, saved.counter)'
  BY <1>t DEF RowsTyped
<1>idle. ASSUME job' = Idle, call' = NoCall \/ UNCHANGED call PROVE job' \in Job /\ InPlace'
  <2>1. /\ job'.eligible = {} /\ job'.asked = {} /\ job'.place = 0 /\ job'.order = << >>
        /\ job'.at = "idle"
    BY <1>idle DEF Idle
  <2>2. job'.at \notin Called \cup {"invoke"}
    BY <2>1 DEF Called
  <2> QED BY <1>t, <1>idle, <2>1, <2>2, IdleType DEF InPlace
<1>1. CASE UNCHANGED vars
  BY <1>1, <1>t DEF vars, gatewayVars, routerVars, Base, TreeTyped, InPlace, RowsTyped
<1>2. CASE AcceptRequest
  <2>1. PICK r \in Requests :
          job' = [Idle EXCEPT !.id = next_id, !.request = r, !.timeout = r.timeout,
                     !.at = IF ~r.read_only /\ ~r.scope_valid THEN "answered" ELSE "evaluate",
                     !.result = IF ~r.read_only /\ ~r.scope_valid
                                THEN Failed("NON_RETRYABLE") ELSE NoResult]
    BY <1>2 DEF AcceptRequest
  <2>2. r.timeout \in Nat \cup {NoTimeout}
    BY RouterAssumption DEF RouterAssumption, Request
  <2>3. job' \in Job /\ job'.at \in {"answered", "evaluate"} /\ job'.id = counter
    BY <1>t, <2>1, <2>2, IdleType, ResultTypes DEF Job, Labels
  <2>4. job'.eligible = {} /\ job'.asked = {} /\ job'.place = 0 /\ job'.order = << >>
    BY <2>1 DEF Idle
  <2>5. counter' = counter + 1 /\ requests' = requests + 1
        /\ UNCHANGED <<executions, call, calls, tree, saved, invocations, previews>>
    BY <1>2, <1>t DEF AcceptRequest
  <2>6. InPlace'
    BY <1>t, <2>3, <2>4, <2>5 DEF InPlace, Called
  <2> QED BY <1>t, <1>tree, <1>rows, <1>saved, <2>3, <2>5, <2>6 DEF Base
<1>3. CASE Preview
  <2>1. counter' = counter + 1 /\ previews' = previews + 1 /\ job.at = "idle"
        /\ UNCHANGED <<executions, call, calls, job, tree, saved, invocations, requests>>
    BY <1>3, <1>t DEF Preview
  <2>2. InPlace'
    BY <1>t, <2>1 DEF InPlace, Called
  <2> QED BY <1>t, <1>tree, <1>rows, <1>saved, <2>1, <2>2 DEF Base
<1>w. ASSUME UNCHANGED <<filesAndRows, requests, previews>>, invocations' \in Nat,
             TreeTyped', job' \in Job, InPlace'
      PROVE  Base'
  BY <1>t, <1>w, <1>rows, <1>saved DEF Base, filesAndRows
<1>4. CASE EvaluateProvider
  <2> DEFINE p == Min(Providers \ job.asked)
  <2>1. p \in Providers
    <3>1. job.asked \in SUBSET Providers /\ job.asked # Providers /\ Providers \in SUBSET Nat
      BY <1>4, <1>t, RouterAssumption DEF RouterAssumption, EvaluateProvider, Job
    <3>2. Providers \ job.asked \in SUBSET Nat /\ Providers \ job.asked # {}
      BY <3>1
    <3> QED BY <3>2, LeastNumber
  <2>2. registration[p].default_timeout \in Nat
    BY <2>1, RouterAssumption DEF RouterAssumption, Registration
  <2>3. \E e \in BOOLEAN : job' = [job EXCEPT
                !.asked = @ \cup {p},
                !.eligible = IF e THEN @ \cup {p} ELSE @,
                !.timeout = IF e /\ request.unattended /\ @ = NoTimeout
                            THEN registration[p].default_timeout ELSE @]
    <3>1. PICK available \in BOOLEAN : job' = [job EXCEPT
                !.asked = @ \cup {p},
                !.eligible = IF available /\ Suits(p) THEN @ \cup {p} ELSE @,
                !.timeout = IF (available /\ Suits(p)) /\ request.unattended /\ @ = NoTimeout
                            THEN registration[p].default_timeout ELSE @]
      BY <1>4 DEF EvaluateProvider
    <3> HIDE DEF p
    <3>2. CASE available /\ Suits(p)
      BY <3>1, <3>2
    <3>3. CASE ~ (available /\ Suits(p))
      BY <3>1, <3>3
    <3> QED BY <3>2, <3>3
  <2> HIDE DEF p
  <2>e. \E E \in {job.eligible, job.eligible \cup {p}}, T \in Nat \cup {NoTimeout} :
          job' = [job EXCEPT !.asked = @ \cup {p}, !.eligible = E, !.timeout = T]
    <3>1. job.timeout \in Nat \cup {NoTimeout}
      BY <1>t DEF Job
    <3> QED BY <2>2, <2>3, <3>1
  <2>4. /\ job' \in Job /\ job'.eligible \subseteq job'.asked
        /\ job'.at = "evaluate" /\ job'.id = job.id /\ job'.place = job.place
        /\ job'.order = job.order
    <3>1. job.asked \cup {p} \in SUBSET Providers /\ job.eligible \cup {p} \in SUBSET Providers
      BY <1>t, <2>1 DEF Job
    <3>2. PICK E \in {job.eligible, job.eligible \cup {p}}, T \in Nat \cup {NoTimeout} :
            job' = [job EXCEPT !.asked = @ \cup {p}, !.eligible = E, !.timeout = T]
      BY <2>e
    <3>3. E \in SUBSET Providers /\ job.eligible \in SUBSET Providers
          /\ E \subseteq job.asked \cup {p}
      BY <1>t, <2>1, <3>1 DEF Job, InPlace
    <3>4. job' \in Job
      BY <1>t, <3>1, <3>2, <3>3 DEF Job
    <3> QED BY <1>4, <1>t, <3>2, <3>3, <3>4 DEF Job, EvaluateProvider
  <2>5. InPlace'
    BY <1>4, <1>t, <2>4 DEF InPlace, Called, EvaluateProvider, filesAndRows
  <2> QED BY <1>4, <1>t, <1>w, <1>tree, <2>4, <2>5 DEF EvaluateProvider, counts, filesAndRows
<1>5. CASE SelectProvider
  <2>1. CASE job' = [job EXCEPT !.at = "answered", !.result = Failed("NON_RETRYABLE")]
    <3>1. job' \in Job /\ job'.at = "answered" /\ job'.id = job.id /\ job'.place = job.place
          /\ job'.order = job.order /\ job'.eligible = job.eligible /\ job'.asked = job.asked
      BY <1>t, <2>1, ResultTypes DEF Job, Labels
    <3>2. InPlace'
      BY <1>5, <1>t, <3>1 DEF InPlace, Called, SelectProvider, filesAndRows
    <3> QED BY <1>5, <1>t, <1>w, <1>tree, <3>1, <3>2 DEF SelectProvider, counts, filesAndRows
  <2>2. ASSUME job.eligible # {}, NEW order \in InOrder(job.eligible, provider_selection_key),
               job' = [job EXCEPT !.at = "invoke", !.place = 1, !.attempt = 1, !.order = order]
        PROVE  Base'
    <3>1. job.eligible \in SUBSET Providers /\ IsFiniteSet(job.eligible)
      BY <1>t, FS_Subset, RouterAssumption DEF Job, RouterAssumption
    <3>a. order \in Seq(Providers) /\ Len(order) >= 1
      <4> HIDE DEF provider_selection_key
      <4> QED BY <2>2, <3>1, OrderType
    <3>2. order \in Seq(Providers) /\ Len(order) \in Nat /\ Len(order) >= 1
      BY <3>a
    <3>3. job' \in Job /\ job'.at = "invoke" /\ job'.id = job.id /\ job'.place = 1
          /\ job'.order = order /\ job'.eligible = job.eligible /\ job'.asked = job.asked
      BY <1>t, <2>2, <3>2 DEF Job, Labels
    <3>b. job'.place \in 0..Len(job'.order) /\ job'.place >= 1
      BY <3>2, <3>3
    <3>c. job.at = "evaluate" /\ UNCHANGED filesAndRows
      BY <1>5 DEF SelectProvider
    <3>4. InPlace'
      BY <1>t, <3>3, <3>b, <3>c DEF InPlace, filesAndRows
    <3> QED BY <1>5, <1>t, <1>w, <1>tree, <3>3, <3>4 DEF SelectProvider, counts, filesAndRows
  <2> QED BY <1>5, <2>1, <2>2 DEF SelectProvider
<1>6. CASE InvokeProvider
  <2>1. provider \in Providers
    BY <1>6, ProviderAtHand DEF InvokeProvider
  <2> DEFINE t == IF job.timeout \in {NoTimeout, 0}
                  THEN registration[provider].own_timeout ELSE job.timeout
  <2>2. t \in Nat
    BY <1>t, <2>1, RouterAssumption DEF RouterAssumption, Registration, Job
  <2>3. job' = [job EXCEPT !.at = "validate", !.called = Append(@, <<provider, t>>)]
    BY <1>6 DEF InvokeProvider
  <2> HIDE DEF t
  <2>4. Append(job.called, <<provider, t>>) \in Seq(Providers \X Nat)
    BY <1>t, <2>1, <2>2 DEF Job
  <2>5. job' \in Job /\ job'.at = "validate" /\ job'.id = job.id /\ job'.place = job.place
        /\ job'.order = job.order /\ job'.eligible = job.eligible /\ job'.asked = job.asked
    BY <1>t, <2>3, <2>4 DEF Job, Labels
  <2>6. job.at = "invoke" /\ invocations' = invocations + 1
        /\ UNCHANGED <<filesAndRows, requests, previews>>
    BY <1>6 DEF InvokeProvider
  <2>7. InPlace'
    BY <1>t, <2>5, <2>6 DEF InPlace, filesAndRows
  <2>8. TreeTyped'
    <3>1. UNCHANGED tree /\ \A p \in Paths : tree[p].by \in Nat /\ tree[p].by <= invocations
      BY <1>t, <2>6 DEF filesAndRows, TreeTyped, Mark
    <3> QED BY <1>t, <2>6, <3>1 DEF TreeTyped
  <2> QED BY <1>t, <1>w, <2>5, <2>6, <2>7, <2>8
<1>7. CASE Works
  <2>a. /\ job.at # "idle" /\ job.place >= 1 /\ SameCall
        /\ job'.at \in {"enforce", "record"} => job'.result.status # "NONE"
        /\ UNCHANGED <<counter, call>>
    BY <1>7, <1>t DEF Works, InPlace, Called
  <2>b. job.id \in 1..(counter - 1) /\ job.place \in 0..Len(job.order)
    BY <1>t, <2>a DEF InPlace
  <2>1. InPlace'
    BY <1>t, <2>a, <2>b DEF SameCall, InPlace
  <2> QED BY <1>7, <1>t, <1>rows, <1>saved, <2>1 DEF Works, Base, counts
<1>8. CASE RecordAttempt
  <2>1. /\ RowAdded(Attempt) /\ Attempt \in Row /\ job.at = "record"
        /\ UNCHANGED <<call, calls, tree, saved, invocations, requests, previews>>
    BY <1>8, RecordAddsRow DEF RecordAttempt
  <2>2. RowsTyped(executions, counter)' /\ counter' \in Nat /\ counter <= counter'
    BY <2>1, AddedRowTyped
  <2>3. /\ job' \in Job /\ job'.id = job.id /\ job'.order = job.order
        /\ job'.eligible = job.eligible /\ job'.asked = job.asked
        /\ job'.at \in {"invoke", "answered"}
        /\ job'.place = job.place \/ (job'.place = job.place + 1 /\ job.place < Len(job.order))
    <3>1. CASE MayRetry
      <4>1. job' = [job EXCEPT !.at = "invoke", !.attempt = @ + 1]
        BY <1>8, <3>1 DEF RecordAttempt
      <4>2. job.attempt + 1 \in Nat
        BY <1>t DEF Job
      <4> QED BY <1>t, <4>1, <4>2 DEF Job, Labels
    <3>2. CASE ~MayRetry /\ MayFailOver
      <4>1. job' = [job EXCEPT !.at = "invoke", !.attempt = 1, !.place = @ + 1,
                               !.failovers = @ + 1]
        BY <1>8, <3>2 DEF RecordAttempt
      <4>2. job.place + 1 \in Nat /\ job.failovers + 1 \in Nat /\ job.place < Len(job.order)
        BY <1>t, <3>2 DEF Job, MayFailOver
      <4> QED BY <1>t, <4>1, <4>2 DEF Job, Labels
    <3>3. CASE ~MayRetry /\ ~MayFailOver
      <4>1. job' = [job EXCEPT !.at = "answered"]
        BY <1>8, <3>3 DEF RecordAttempt
      <4> QED BY <1>t, <4>1 DEF Job, Labels
    <3> QED BY <3>1, <3>2, <3>3
  <2>4. job'.place \in 0..Len(job'.order) /\ job'.place >= 1
    <3>1. job.place \in 1..Len(job.order) /\ Len(job.order) \in Nat
      BY <1>t, <2>1 DEF InPlace, Called, Job
    <3> QED BY <2>3, <3>1
  <2>5. job'.id \in 1..(counter' - 1)
    BY <1>t, <2>1, <2>2, <2>3 DEF InPlace
  <2>6. InPlace'
    BY <1>t, <2>1, <2>3, <2>4, <2>5 DEF InPlace
  <2> QED BY <1>t, <1>tree, <1>saved, <2>1, <2>2, <2>3, <2>6 DEF Base
<1>9. CASE TakeAnswer
  <2>1. job' = Idle /\ UNCHANGED <<filesAndRows, counts>>
    BY <1>9 DEF TakeAnswer
  <2> QED BY <1>t, <1>w, <1>tree, <1>idle, <2>1 DEF filesAndRows, counts
<1>10. CASE GatewayStep
  <2>1. job.at = "idle" /\ UNCHANGED routerVars
    BY <1>10 DEF GatewayStep
  <2>2. ASSUME call' \in Call, call' # NoCall => call'.attempt \in DOMAIN call'.targets,
               calls' \in Nat, RowsTyped(executions, counter)'
        PROVE  Base'
    <3>1. InPlace'
      BY <1>t, <2>1, <2>2 DEF InPlace, routerVars, Called
    <3> QED BY <1>t, <1>tree, <1>saved, <2>1, <2>2, <3>1 DEF Base, routerVars
  <2>3. CASE RouteModelRequest
    <3>1. calls' = calls + 1 /\ call = NoCall
      BY <2>3 DEF RouteModelRequest
    <3>2. PICK q \in GatewayRequests :
            IF EligibleProfiles(q) = {}
            THEN executions' = WithRow(next_id, BlockedRow) /\ counter' = next_id + 1
                 /\ UNCHANGED call
            ELSE /\ \E order \in order_eligible(q) :
                      call' = [request |-> calls + 1, targets |-> Attempts(q, order),
                               attempt |-> 1]
                 /\ UNCHANGED <<executions, counter>>
      BY <2>3 DEF RouteModelRequest, BlockedRow
    <3>3. CASE EligibleProfiles(q) = {}
      <4>1. RowsTyped(executions, counter)'
        BY <3>2, <3>3, BlockAddsRow, AddedRowTyped
      <4> QED BY <1>t, <2>2, <3>1, <3>2, <3>3, <4>1
    <3>4. CASE EligibleProfiles(q) # {}
      <4>1. PICK order \in order_eligible(q) :
              call' = [request |-> calls + 1, targets |-> Attempts(q, order), attempt |-> 1]
        BY <3>2, <3>4
      <4>2. Attempts(q, order) \in Seq(Profiles) /\ 1 \in DOMAIN Attempts(q, order)
        BY <3>4, AttemptsType
      <4>3. call' \in Call /\ call'.attempt \in DOMAIN call'.targets
        BY <1>t, <4>1, <4>2 DEF Call
      <4>4. RowsTyped(executions, counter)'
        BY <1>t, <1>rows, <3>2, <3>4
      <4> QED BY <1>t, <2>2, <3>1, <4>3, <4>4
    <3> QED BY <3>3, <3>4
  <2>4. ASSUME NEW outcome \in Outcomes, AttemptExecution(outcome) PROVE Base'
    <3>1. RowsTyped(executions, counter)'
      BY <2>4, GatewayAddsRow, AddedRowTyped
    <3>2. UNCHANGED calls /\ call.attempt \in DOMAIN call.targets
      BY <1>t, <2>4 DEF AttemptExecution, InPlace
    <3>3. CASE call' = NoCall
      BY <1>t, <1>n, <2>2, <3>1, <3>2, <3>3
    <3>4. CASE call.attempt < Len(call.targets) /\ call' = [call EXCEPT !.attempt = @ + 1]
      <4>1. call.targets \in Seq(Profiles) /\ call.attempt \in Nat
        BY <1>t DEF Call
      <4>2. call.attempt + 1 \in DOMAIN call.targets
        BY <3>4, <4>1
      <4>3. call' \in Call /\ call'.attempt = call.attempt + 1 /\ call'.targets = call.targets
        BY <1>t, <3>4, <4>1 DEF Call
      <4> QED BY <1>t, <2>2, <3>1, <3>2, <4>2, <4>3
    <3> QED BY <2>4, <3>3, <3>4 DEF AttemptExecution
  <2> QED BY <1>10, <2>3, <2>4 DEF GatewayStep, GatewayNext
<1>11. CASE SessionCommits
  <2>1. saved'.executions = executions /\ saved'.counter = counter
        /\ UNCHANGED <<executions, counter, call, calls, job, tree, counts>>
    BY <1>11 DEF SessionCommits
  <2>2. InPlace' /\ RowsTyped(executions, counter)' /\ RowsTyped(saved.executions, saved.counter)'
    BY <1>t, <2>1 DEF InPlace, RowsTyped
  <2> QED BY <1>t, <1>tree, <2>1, <2>2 DEF Base, counts
<1>12. CASE SessionRollsBack
  <2>1. executions' = saved.executions /\ counter' = saved.counter /\ job' = Idle
        /\ call' = NoCall /\ UNCHANGED <<calls, tree, saved, counts>>
    BY <1>12 DEF SessionRollsBack
  <2>2. RowsTyped(executions, counter)'
    BY <1>t, <2>1 DEF RowsTyped
  <2> QED BY <1>t, <1>n, <1>idle, <1>tree, <1>saved, <2>1, <2>2 DEF Base, counts
<1> QED
  BY <1>1, <1>2, <1>3, <1>4, <1>5, <1>6, <1>7, <1>8, <1>9, <1>10, <1>11, <1>12, WorkingSteps
  DEF RouterNext, RouterStep

LEMMA BaseInit == RouterInit => Base
<1> SUFFICES ASSUME RouterInit PROVE Base
  OBVIOUS
<1>1. job = Idle /\ call = NoCall /\ executions = << >> /\ counter = 1
      /\ saved.executions = << >> /\ saved.counter = 1
      /\ invocations = 0 /\ requests = 0 /\ previews = 0 /\ calls = 0
      /\ tree = [p \in Paths |-> Clean]
  BY DEF RouterInit, GatewayInit
<1>2. NoCall \in Call
  <2>1. << >> \in Seq(Profiles)
    OBVIOUS
  <2> QED BY <2>1 DEF NoCall, Call
<1>3. TreeTyped
  BY <1>1 DEF TreeTyped, Clean, Mark
<1>4. /\ job.eligible = {} /\ job.asked = {} /\ job.place = 0 /\ job.order = << >>
      /\ job.at = "idle"
  BY <1>1 DEF Idle
<1>5. InPlace
  BY <1>1, <1>4 DEF InPlace, Called
<1>6. RowsTyped(executions, counter) /\ RowsTyped(saved.executions, saved.counter)
  <2>1. << >> \in [DOMAIN << >> -> Row] /\ DOMAIN << >> = {}
    OBVIOUS
  <2> QED BY <1>1, <2>1 DEF RowsTyped
<1> QED BY <1>1, <1>2, <1>3, <1>5, <1>6, IdleType DEF Base

LEMMA BaseHolds == RouterSpec => []Base
BY BaseInit, BaseStep, PTL DEF RouterSpec

(* The router's record, the workspace and the rows keep their types for    *)
(* every number of providers, requests and sessions (runtime/router.py     *)
(* execute, models/gateway.py execute_with_fallback).                      *)
THEOREM RoutingTypeCorrect == RouterSpec => []RoutingTypeOK
<1>1. Base => RoutingTypeOK
  <2> SUFFICES ASSUME Base PROVE RoutingTypeOK
    OBVIOUS
  <2>1. \A p \in Paths : tree[p].by \in 0..invocations
    <3>1. invocations \in Nat /\ \A p \in Paths : tree[p].by \in Nat /\ tree[p].by <= invocations
      BY DEF Base, TreeTyped, Mark
    <3> QED BY <3>1
  <2>2. \A i \in DOMAIN executions : i \in 1..(counter - 1) /\ executions[i] \in Row
    BY DEF Base, RowsTyped
  <2> QED BY <2>1, <2>2 DEF Base, InPlace, RoutingTypeOK
<1> QED BY <1>1, BaseHolds, PTL

----------------------------------------------------------------------------
(* A completed mutation is the work of the reported call.                  *)

\* Every file that differs from HEAD was changed by the call in progress.
Own ==
    \A p \in Changed :
        /\ tree[p].by = invocations
        /\ tree[p].how = "edit" => p \in request.paths
        /\ tree[p].how = "repair" => \E i \in DOMAIN request.contract :
                    request.contract[i] = [path |-> p, repair |-> TRUE]

\* The model is asked about a clean workspace; the edits it gives stay inside
\* the frozen scope; and what passes the scope check has changed something.
WorkIsOwn ==
    /\ job.at = "enforce" => job.contract >= 1
    /\ ~request.read_only =>
         /\ job.at = "model" => Changed = {}
         /\ job.at = "write" => /\ job.edits \cup job.written \subseteq request.paths
                               /\ job.edits \cup job.written # {}
         /\ job.at \in {"write", "accept"} => Own
         /\ job.at = "accept" => Changed # {}
         /\ job.at \in {"enforce", "record", "answered"} /\ job.result = Completed
                => Changed # {} /\ Own

\* Files are noted as written from the first edit to the end of the call.
Blank == job.written # {} => job.at \in {"write", "accept", "restore"}

LEMMA BlankStep ==
    ASSUME Base, Blank, [RouterNext]_vars
    PROVE  Blank'
<1>t. job \in Job
  BY DEF Base
<1>o. job'.written = {} => Blank'
  BY DEF Blank
<1>i. Idle.written = {}
  BY DEF Idle
<1>r. \A result : Returns(result) => Blank'
  BY <1>t DEF Returns, Job, Blank
<1>s. ASSUME job'.written = job.written, job.at \notin {"write", "accept", "restore"}
      PROVE  Blank'
  BY <1>s DEF Blank
<1>g. ASSUME NEW label \in {"accept", "restore"}, GoTo(label) PROVE Blank'
  BY <1>t, <1>g, GoToStep DEF Blank, Labels
<1>1. CASE UNCHANGED vars
  BY <1>1 DEF vars, routerVars, Blank
<1>2. CASE AcceptRequest
  <2>1. job'.written = {}
    BY <1>2 DEF AcceptRequest, Idle
  <2> QED BY <1>o, <2>1
<1>3. CASE EvaluateProvider
  <2>1. job'.written = job.written /\ job.at = "evaluate"
    BY <1>3, <1>t DEF EvaluateProvider, Job
  <2> QED BY <1>s, <2>1
<1>4. CASE SelectProvider
  <2>1. job'.written = job.written /\ job.at = "evaluate"
    BY <1>4, <1>t DEF SelectProvider, Job
  <2> QED BY <1>s, <2>1
<1>5. CASE InvokeProvider
  <2>1. job'.written = job.written /\ job.at = "invoke"
    BY <1>5, <1>t DEF InvokeProvider, Job
  <2> QED BY <1>s, <2>1
<1>6. CASE ValidateWorkspace
  <2>1. job.at = "validate" /\ (GoTo("model") \/ \E result : Returns(result))
    BY <1>6 DEF ValidateWorkspace
  <2>2. GoTo("model") => job'.written = job.written
    BY <1>t DEF GoTo, Job
  <2> QED BY <1>r, <1>s, <2>1, <2>2
<1>7. CASE ModelUnreachable
  BY <1>7, <1>r DEF ModelUnreachable
<1>8. CASE ModelAnswers
  <2>1. \/ \E result : Returns(result)
        \/ GoTo("restore")
        \/ \E E : job' = [job EXCEPT !.at = "write", !.edits = E]
    BY <1>8 DEF ModelAnswers, ReadOnlyAnswer, MutationAnswer, parse_model_payload
  <2>2. \A E : job' = [job EXCEPT !.at = "write", !.edits = E] => job'.at = "write"
    BY <1>t DEF Job
  <2> QED BY <1>r, <1>g, <2>1, <2>2 DEF Blank
<1>9. CASE WriteEdit
  <2>1. \/ \E result : Returns(result)
        \/ \E p : job' = [job EXCEPT !.edits = @ \ {p}, !.written = @ \cup {p}]
    BY <1>9 DEF WriteEdit
  <2>2. \A p : job' = [job EXCEPT !.edits = @ \ {p}, !.written = @ \cup {p}] => job'.at = job.at
    BY <1>t DEF Job
  <2>3. job.at = "write"
    BY <1>9 DEF WriteEdit
  <2> QED BY <1>r, <2>1, <2>2, <2>3 DEF Blank
<1>10. CASE VerifyScope
  BY <1>10, <1>g DEF VerifyScope
<1>11. CASE Accept
  BY <1>11, <1>r, <1>g DEF Accept
<1>12. CASE RestoreWorkspace \/ RestoreRaises
  BY <1>12, <1>r DEF RestoreWorkspace, RestoreRaises
<1>13. CASE EnforceFile
  <2>1. job'.written = job.written /\ job.at = "enforce"
    BY <1>13, <1>t DEF EnforceFile, Job
  <2> QED BY <1>s, <2>1
<1>14. CASE Judge
  <2>1. job'.written = job.written /\ job.at = "enforce"
    BY <1>14, <1>t DEF Judge, Job
  <2> QED BY <1>s, <2>1
<1>15. CASE RecordAttempt
  <2>1. job'.written = job.written /\ job.at = "record"
    BY <1>15, <1>t DEF RecordAttempt, Job
  <2> QED BY <1>s, <2>1
<1>16. CASE TakeAnswer \/ SessionRollsBack
  BY <1>16, <1>i, <1>o DEF TakeAnswer, SessionRollsBack
<1>17. CASE Preview \/ GatewayStep \/ SessionCommits
  BY <1>17 DEF Preview, GatewayStep, SessionCommits, routerVars, Blank
<1> QED
  BY <1>1, <1>2, <1>3, <1>4, <1>5, <1>6, <1>7, <1>8, <1>9, <1>10, <1>11, <1>12, <1>13, <1>14,
     <1>15, <1>16, <1>17 DEF RouterNext, RouterStep

LEMMA NotCompleted ==
    /\ \A r : Failed(r) # Completed
    /\ NoResult # Completed
<1>1. Completed.status = "COMPLETED" /\ NoResult.status = "NONE"
  BY DEF Completed, NoResult
<1>2. \A r : Failed(r).status = "FAILED"
  BY DEF Failed
<1> QED BY <1>1, <1>2

LEMMA Unmoved ==
    ASSUME UNCHANGED <<tree, invocations>>, job'.request = job.request
    PROVE  /\ Changed' = Changed /\ request' = request /\ (Own' <=> Own)
<1>1. Changed' = Changed /\ request' = request
  BY DEF Changed, request
<1> QED BY <1>1 DEF Own

(* A mark of the call in progress is a change, and one of its own.         *)
LEMMA MarkedByCall ==
    ASSUME Base, Own, UNCHANGED invocations, job'.request = job.request,
           NEW K \in SUBSET Paths, NEW how \in {"edit", "command", "repair"},
           \A p \in Paths : tree'[p] = IF p \in K THEN Written(how) ELSE tree[p],
           how = "edit" => K \subseteq request.paths,
           how = "repair" => \A p \in K : \E i \in DOMAIN request.contract :
                request.contract[i] = [path |-> p, repair |-> TRUE]
    PROVE  Own' /\ Changed \subseteq Changed'
<1>1. request' = request
  BY DEF request
<1>2. Written(how).by = invocations /\ Written(how).how = how /\ Written(how) # Clean
  BY DEF Written, Clean
<1>3. \A p \in Changed' : p \in K \/ (p \in Changed /\ tree'[p] = tree[p])
  BY DEF Changed
<1>4. ASSUME NEW p \in Changed', p \in K
      PROVE  /\ tree'[p].by = invocations /\ tree'[p].how = how
  BY <1>2, <1>4 DEF Changed
<1>5. Own'
  BY <1>1, <1>3, <1>4 DEF Own
<1>6. Changed \subseteq Changed'
  BY <1>2 DEF Changed
<1> QED BY <1>5, <1>6

LEMMA WorkIsOwnStep ==
    ASSUME Base, Blank, WorkIsOwn, [RouterNext]_vars
    PROVE  WorkIsOwn'
<1>t. job \in Job /\ TreeTyped /\ InPlace /\ Clean \in Mark
  BY DEF Base, Clean, Mark
<1>o. ASSUME job'.at \in {"idle", "evaluate", "invoke", "validate", "restore"} PROVE WorkIsOwn'
  BY <1>o DEF WorkIsOwn
<1>f. ASSUME job'.at = "answered", job'.result # Completed PROVE WorkIsOwn'
  BY <1>f DEF WorkIsOwn
<1>r. ASSUME NEW r \in RetryClasses, Returns(Failed(r)) PROVE WorkIsOwn'
  <2>1. job'.at = "enforce" /\ job'.result # Completed /\ job'.contract = 1
    BY <1>t, <1>r, ReturnsStep, ResultTypes, NotCompleted
  <2> QED BY <2>1 DEF WorkIsOwn
<1>R. \A r \in {"NON_RETRYABLE", "RETRYABLE_OR_FAILOVERABLE"} : r \in RetryClasses
  BY ResultTypes
<1>g. GoTo("restore") => WorkIsOwn'
  BY <1>o, <1>t, GoToStep DEF Labels
<1>u. UNCHANGED vars => WorkIsOwn'
  <2>1. UNCHANGED <<tree, invocations, job>> => WorkIsOwn'
    BY Unmoved DEF WorkIsOwn
  <2> QED BY <2>1 DEF vars, routerVars
<1>1. CASE AcceptRequest
  <2>1. PICK r \in Requests :
          job' = [Idle EXCEPT !.id = next_id, !.request = r, !.timeout = r.timeout,
                     !.at = IF ~r.read_only /\ ~r.scope_valid THEN "answered" ELSE "evaluate",
                     !.result = IF ~r.read_only /\ ~r.scope_valid
                                THEN Failed("NON_RETRYABLE") ELSE NoResult]
    BY <1>1 DEF AcceptRequest
  <2>2. job'.at \in {"answered", "evaluate"} /\ job'.result # Completed
    BY <2>1, NotCompleted DEF Idle
  <2> QED BY <1>o, <1>f, <2>2
<1>2. CASE EvaluateProvider
  <2>1. job'.at = "evaluate"
    BY <1>2, <1>t DEF EvaluateProvider, Job
  <2> QED BY <1>o, <2>1
<1>3. CASE SelectProvider
  <2>1. CASE job' = [job EXCEPT !.at = "answered", !.result = Failed("NON_RETRYABLE")]
    BY <1>f, <1>t, <2>1, NotCompleted DEF Job
  <2>2. ASSUME NEW order, job' = [job EXCEPT !.at = "invoke", !.place = 1, !.attempt = 1,
                                             !.order = order]
        PROVE  WorkIsOwn'
    BY <1>o, <1>t, <2>2 DEF Job
  <2> QED BY <1>3, <2>1, <2>2 DEF SelectProvider
<1>4. CASE InvokeProvider
  <2>1. job'.at = "validate"
    BY <1>4, <1>t DEF InvokeProvider, Job
  <2> QED BY <1>o, <2>1
<1>5. CASE ValidateWorkspace
  <2>1. CASE Returns(Failed("NON_RETRYABLE"))
    BY <1>r, <1>R, <2>1
  <2>2. CASE GoTo("model") /\ (~request.read_only => MayMutate)
    <3>1. job'.at = "model" /\ job'.request = job.request
      BY <1>t, <2>2, GoToStep DEF Labels, SameCall
    <3>2. UNCHANGED <<tree, invocations>>
      BY <1>5 DEF ValidateWorkspace, filesAndRows, counts
    <3>3. ~request.read_only => Changed = {}
      BY <2>2 DEF MayMutate
    <3>4. Changed' = Changed /\ request' = request
      BY <3>1, <3>2, Unmoved
    <3> QED BY <3>1, <3>3, <3>4 DEF WorkIsOwn
  <2>3. \/ Returns(Failed("NON_RETRYABLE"))
        \/ GoTo("model") /\ (~request.read_only => MayMutate)
    BY <1>5 DEF ValidateWorkspace
  <2> QED BY <2>1, <2>2, <2>3
<1>6. CASE ModelUnreachable
  BY <1>6, <1>r, <1>R DEF ModelUnreachable
<1>7. CASE ModelAnswers
  <2>1. job.at = "model" /\ UNCHANGED <<tree, invocations>>
    BY <1>7 DEF ModelAnswers, filesAndRows, counts
  <2>2. CASE request.read_only /\ Returns(Completed)
    <3>1. job'.request = job.request /\ job'.at = "enforce" /\ job'.contract = 1
      BY <1>t, <2>2, ReturnsStep, ResultTypes DEF SameCall
    <3>2. request'.read_only
      BY <2>2, <3>1 DEF request
    <3> QED BY <3>1, <3>2 DEF WorkIsOwn
  <2>3. ASSUME NEW E \in SUBSET request.paths, E # {}, ~request.read_only,
               job' = [job EXCEPT !.at = "write", !.edits = E]
        PROVE  WorkIsOwn'
    <3>1. job'.request = job.request /\ job'.at = "write" /\ job'.edits = E
          /\ job'.written = job.written
      BY <1>t, <2>3 DEF Job
    <3>2. Changed = {} /\ Own
      BY <2>1, <2>3 DEF WorkIsOwn, Own
    <3>3. request' = request /\ Own'
      BY <2>1, <3>1, <3>2, Unmoved
    <3>4. job.written = {}
      BY <2>1 DEF Blank
    <3> QED BY <2>3, <3>1, <3>3, <3>4 DEF WorkIsOwn
  <2>4. ReadOnlyAnswer => Returns(Completed) \/ Returns(Failed("NON_RETRYABLE"))
    BY DEF ReadOnlyAnswer
  <2>5. MutationAnswer => \/ GoTo("restore")
                          \/ \E E \in SUBSET request.paths :
                                E # {} /\ job' = [job EXCEPT !.at = "write", !.edits = E]
    BY DEF MutationAnswer, materialize_compact_edits
  <2>6. \/ Returns(Failed("RETRYABLE_OR_FAILOVERABLE")) \/ Returns(Failed("NON_RETRYABLE"))
        \/ request.read_only /\ ReadOnlyAnswer
        \/ ~request.read_only /\ MutationAnswer
    BY <1>7 DEF ModelAnswers, parse_model_payload
  <2> QED BY <1>r, <1>R, <1>g, <2>2, <2>3, <2>4, <2>5, <2>6
<1>8. CASE WriteEdit
  <2>1. PICK p \in job.edits :
            /\ tree' \in {tree, [tree EXCEPT ![p] = Written("edit")]}
            /\ \/ job' = [job EXCEPT !.edits = @ \ {p}, !.written = @ \cup {p}]
               \/ Returns(Failed("NON_RETRYABLE"))
    BY <1>8 DEF WriteEdit
  <2>2. job.at = "write" /\ UNCHANGED invocations /\ p \in Paths
    BY <1>8, <1>t DEF WriteEdit, counts, Job
  <2>3. CASE job' = [job EXCEPT !.edits = @ \ {p}, !.written = @ \cup {p}]
    <3>1. job'.request = job.request /\ job'.at = "write"
          /\ job'.edits = job.edits \ {p} /\ job'.written = job.written \cup {p}
      BY <1>t, <2>2, <2>3 DEF Job
    <3>2. request' = request
      BY <3>1 DEF request
    <3>3. SUFFICES ASSUME ~request.read_only
                   PROVE  WorkIsOwn'
      BY <3>1, <3>2 DEF WorkIsOwn
    <3>4. Own /\ job.edits \cup job.written \subseteq request.paths
      BY <2>2, <3>3 DEF WorkIsOwn
    <3>5. Own'
      <4>1. CASE tree' = tree
        BY <2>2, <3>1, <3>4, <4>1, Unmoved
      <4>2. CASE tree' = [tree EXCEPT ![p] = Written("edit")]
        <5>1. \A q \in Paths : tree'[q] = IF q \in {p} THEN Written("edit") ELSE tree[q]
          BY <1>t, <2>2, <4>2 DEF TreeTyped
        <5>2. {p} \in SUBSET Paths /\ {p} \subseteq request.paths
          BY <2>2, <3>4
        <5> QED BY <2>2, <3>1, <3>4, <5>1, <5>2, MarkedByCall
      <4> QED BY <2>1, <4>1, <4>2
    <3>6. job'.edits \cup job'.written \subseteq request.paths /\ p \in job'.written
      BY <3>1, <3>4
    <3> QED BY <3>1, <3>2, <3>5, <3>6 DEF WorkIsOwn
  <2> QED BY <1>r, <1>R, <2>1, <2>3
<1>9. CASE VerifyScope
  <2>1. CASE ScopeHolds /\ GoTo("accept")
    <3>1. job'.request = job.request /\ job'.at = "accept" /\ job.at = "write" /\ job.edits = {}
          /\ UNCHANGED <<tree, invocations>>
      BY <1>9, <1>t, <2>1, GoToStep DEF VerifyScope, Labels, SameCall, filesAndRows, counts
    <3>2. Changed' = Changed /\ request' = request /\ (Own' <=> Own)
      BY <3>1, Unmoved
    <3>3. ~request.read_only => Own /\ Changed # {}
      BY <2>1, <3>1 DEF WorkIsOwn, ScopeHolds
    <3> QED BY <3>1, <3>2, <3>3 DEF WorkIsOwn
  <2> QED BY <1>9, <1>g, <2>1 DEF VerifyScope
<1>10. CASE Accept
  <2>1. CASE Returns(Completed)
    <3>1. /\ job'.request = job.request /\ job'.at = "enforce" /\ job'.contract = 1
          /\ job.at = "accept" /\ UNCHANGED invocations
      BY <1>10, <1>t, <2>1, ReturnsStep, ResultTypes DEF Accept, SameCall, counts
    <3>2. request' = request
      BY <3>1 DEF request
    <3>3. SUFFICES ASSUME ~request.read_only PROVE WorkIsOwn'
      BY <3>1, <3>2 DEF WorkIsOwn
    <3>4. Own /\ Changed # {}
      BY <3>1, <3>3 DEF WorkIsOwn
    <3>5. \E K \in SUBSET Paths : \A p \in Paths :
                tree'[p] = IF p \in K THEN Written("command") ELSE tree[p]
      <4>1. CASE tree' = tree
        <5>1. \A p \in Paths : tree'[p] = IF p \in {} THEN Written("command") ELSE tree[p]
          BY <4>1
        <5>2. {} \in SUBSET Paths
          OBVIOUS
        <5> QED BY <5>1, <5>2
      <4>2. ASSUME NEW K \in SUBSET Paths, tree' = LeftBehind(K)
            PROVE  \A p \in Paths : tree'[p] = IF p \in K THEN Written("command") ELSE tree[p]
        BY <4>2 DEF LeftBehind
      <4> QED BY <1>10, <4>1, <4>2 DEF Accept
    <3>6. Own' /\ Changed' # {}
      BY <3>1, <3>4, <3>5, MarkedByCall
    <3> QED BY <3>1, <3>6 DEF WorkIsOwn
  <2> QED BY <1>10, <1>g, <2>1 DEF Accept
<1>11. CASE RestoreWorkspace
  BY <1>11, <1>r, <1>R DEF RestoreWorkspace
<1>12. CASE RestoreRaises
  <2>1. \E r \in {"NON_RETRYABLE", "RETRYABLE_OR_FAILOVERABLE"} : Returns(Failed(r))
    BY <1>12 DEF RestoreRaises
  <2> QED BY <1>r, <1>R, <2>1
<1>13. CASE EnforceFile
  <2> DEFINE file == request.contract[job.contract]
  <2>1. /\ job.at = "enforce" /\ job.result = Completed /\ job.contract <= Len(request.contract)
        /\ UNCHANGED invocations
    BY <1>13 DEF EnforceFile, counts
  <2>2. request.contract \in Seq([path : Paths, repair : BOOLEAN])
    BY <1>t, RouterAssumption DEF RouterAssumption, Request, Job, request
  <2>3. job.contract \in DOMAIN request.contract
    <3>1. job.contract \in Nat /\ job.contract >= 1
      BY <1>t, <2>1 DEF Job, WorkIsOwn
    <3> QED BY <2>1, <2>2, <3>1
  <2>4. file \in [path : Paths, repair : BOOLEAN]
    <3>1. \A T : \A s \in Seq(T) : \A i \in DOMAIN s : s[i] \in T
      OBVIOUS
    <3> QED BY <2>2, <2>3, <3>1, Zenon
  <2>5. \/ UNCHANGED tree
        \/ file.repair /\ tree' = [tree EXCEPT ![file.path] = Written("repair")]
    <3> HIDE DEF file
    <3>1. \E verdict \in FileVerdicts(file) :
             tree' = IF verdict = "repaired"
                     THEN [tree EXCEPT ![file.path] = Written("repair")] ELSE tree
      BY <1>13 DEF EnforceFile, file
    <3> QED BY <3>1 DEF FileVerdicts
  <2>6. job'.request = job.request /\ job'.at = "enforce" /\ job'.result = Completed
        /\ job'.contract = job.contract + 1 /\ job.contract \in Nat /\ job'.contract >= 1
    <3>1. job'.request = job.request /\ job'.at = job.at /\ job'.result = job.result
          /\ job'.contract = job.contract + 1
      BY <1>13, <1>t DEF EnforceFile, Job
    <3>2. job.contract \in Nat
      BY <1>t DEF Job
    <3> QED BY <2>1, <3>1, <3>2
  <2>7. request' = request
    BY <2>6 DEF request
  <2>8. SUFFICES ASSUME ~request.read_only PROVE WorkIsOwn'
    BY <2>6, <2>7 DEF WorkIsOwn
  <2>9. Own /\ Changed # {}
    BY <2>1, <2>8 DEF WorkIsOwn
  <2>10. Own' /\ Changed' # {}
    <3>1. CASE UNCHANGED tree
      BY <2>1, <2>6, <2>9, <3>1, Unmoved
    <3>2. CASE file.repair /\ tree' = [tree EXCEPT ![file.path] = Written("repair")]
      <4>1. file = [path |-> file.path, repair |-> TRUE] /\ file.path \in Paths
        <5> HIDE DEF file
        <5> QED BY <2>4, <3>2
      <4>2. \A q \in Paths : tree'[q] = IF q \in {file.path} THEN Written("repair") ELSE tree[q]
        <5> HIDE DEF file
        <5> QED BY <1>t, <3>2, <4>1 DEF TreeTyped
      <4>3. \A q \in {file.path} : \E i \in DOMAIN request.contract :
                request.contract[i] = [path |-> q, repair |-> TRUE]
        BY <2>3, <4>1
      <4>4. {file.path} \in SUBSET Paths
        BY <4>1
      <4> HIDE DEF file
      <4> QED BY <2>1, <2>6, <2>9, <4>2, <4>3, <4>4, MarkedByCall
    <3> QED BY <2>5, <3>1, <3>2
  <2> QED BY <2>6, <2>7, <2>10 DEF WorkIsOwn
<1>14. CASE Judge
  <2>1. job.at = "enforce" /\ UNCHANGED <<tree, invocations>>
    BY <1>14 DEF Judge, filesAndRows, counts
  <2>2. /\ job'.request = job.request /\ job'.at = "record"
        /\ job'.result = Failed("NON_RETRYABLE") \/ job'.result = job.result
    BY <1>14, <1>t DEF Judge, Job
  <2>3. Changed' = Changed /\ request' = request /\ (Own' <=> Own)
    BY <2>1, <2>2, Unmoved
  <2> QED BY <2>1, <2>2, <2>3, NotCompleted DEF WorkIsOwn
<1>15. CASE RecordAttempt
  <2>1. job.at = "record" /\ UNCHANGED <<tree, invocations>>
    BY <1>15 DEF RecordAttempt, counts
  <2>2. /\ job'.request = job.request /\ job'.at \in {"invoke", "answered"}
        /\ job'.result = job.result
    BY <1>15, <1>t DEF RecordAttempt, Job
  <2>3. Changed' = Changed /\ request' = request /\ (Own' <=> Own)
    BY <2>1, <2>2, Unmoved
  <2> QED BY <2>1, <2>2, <2>3 DEF WorkIsOwn
<1>16. CASE TakeAnswer \/ SessionRollsBack
  BY <1>16, <1>o DEF TakeAnswer, SessionRollsBack, Idle
<1>17. CASE Preview \/ GatewayStep \/ SessionCommits
  <2>1. job'.at = "idle"
    BY <1>17 DEF Preview, GatewayStep, SessionCommits, routerVars
  <2> QED BY <1>o, <2>1
<1> QED
  BY <1>u, <1>1, <1>2, <1>3, <1>4, <1>5, <1>6, <1>7, <1>8, <1>9, <1>10, <1>11, <1>12, <1>13,
     <1>14, <1>15, <1>16, <1>17 DEF RouterNext, RouterStep

(* A mutation that is answered with "completed" is about its own work, for *)
(* every number of attempts, providers and requests: what an earlier one   *)
(* left in the workspace never passes for it (runtime/ollama.py invoke).   *)
THEOREM OwnWork == RouterSpec => []CompletionIsOwnWork
<1>1. RouterInit => Blank /\ WorkIsOwn
  BY DEF RouterInit, Idle, Blank, WorkIsOwn
<1>2. RouterSpec => [](Base /\ Blank /\ WorkIsOwn)
  BY <1>1, BaseInit, BaseStep, BlankStep, WorkIsOwnStep, PTL DEF RouterSpec
<1>3. WorkIsOwn => CompletionIsOwnWork
  BY DEF WorkIsOwn, Own, CompletionIsOwnWork
<1> QED BY <1>2, <1>3, PTL

----------------------------------------------------------------------------
(* An unattended request stays within the profiles of its providers.       *)

OrderIsEligible == \A i \in DOMAIN job.order : job.order[i] \in job.eligible

\* The timeout of the request, once a provider is eligible, is a time that the
\* profile of every eligible provider allows; so the calls made are too.
WithinProfiles ==
    (job.at # "idle" /\ request.unattended /\ request.timeout # 0) =>
        /\ job.timeout # 0
        /\ job.eligible # {} => job.timeout # NoTimeout
        /\ \A p \in job.eligible : job.timeout <= registration[p].max_timeout
        /\ \A i \in DOMAIN job.called :
                job.called[i][2] <= registration[job.called[i][1]].max_timeout

SameProfiles ==
    /\ job'.request = job.request /\ job'.timeout = job.timeout /\ job'.eligible = job.eligible
    /\ job'.order = job.order /\ job'.called = job.called

LEMMA EvaluateStep ==
    ASSUME Base, OrderIsEligible, WithinProfiles, EvaluateProvider
    PROVE  OrderIsEligible' /\ WithinProfiles'
<1>t. job \in Job /\ job.at = "evaluate"
  BY DEF Base, EvaluateProvider
<1> DEFINE p == Min(Providers \ job.asked)
<1>1. p \in Providers
  <2>1. job.asked \in SUBSET Providers /\ job.asked # Providers /\ Providers \in SUBSET Nat
    BY <1>t, RouterAssumption DEF RouterAssumption, EvaluateProvider, Job
  <2>2. Providers \ job.asked \in SUBSET Nat /\ Providers \ job.asked # {}
    BY <2>1
  <2> QED BY <2>2, LeastNumber
<1>2. PICK available \in BOOLEAN : job' = [job EXCEPT
            !.asked = @ \cup {p},
            !.eligible = IF available /\ Suits(p) THEN @ \cup {p} ELSE @,
            !.timeout = IF (available /\ Suits(p)) /\ request.unattended /\ @ = NoTimeout
                        THEN registration[p].default_timeout ELSE @]
  BY DEF EvaluateProvider
<1> HIDE DEF p
<1>3. /\ job'.at = "evaluate" /\ job'.request = job.request /\ job'.order = job.order
      /\ job'.called = job.called /\ job.eligible \subseteq job'.eligible
      /\ job'.eligible = IF available /\ Suits(p) THEN job.eligible \cup {p} ELSE job.eligible
      /\ job'.timeout = IF (available /\ Suits(p)) /\ request.unattended /\ job.timeout = NoTimeout
                        THEN registration[p].default_timeout ELSE job.timeout
  BY <1>t, <1>2 DEF Job
<1>4. request' = request
  BY <1>3 DEF request
<1>5. OrderIsEligible'
  BY <1>3 DEF OrderIsEligible
<1>6. SUFFICES ASSUME request.unattended, request.timeout # 0
               PROVE  WithinProfiles'
  BY <1>4, <1>5 DEF WithinProfiles
<1>7. /\ job.timeout # 0
      /\ job.eligible # {} => job.timeout # NoTimeout
      /\ \A q \in job.eligible : job.timeout <= registration[q].max_timeout
      /\ \A i \in DOMAIN job.called :
              job.called[i][2] <= registration[job.called[i][1]].max_timeout
  BY <1>t, <1>6 DEF WithinProfiles
<1>8. CASE ~ (available /\ Suits(p))
  <2>1. job'.eligible = job.eligible /\ job'.timeout = job.timeout
    BY <1>3, <1>8
  <2> QED BY <1>3, <1>7, <2>1 DEF WithinProfiles
<1>9. CASE available /\ Suits(p)
  <2>1. timeoutFor(p) <= registration[p].max_timeout
    BY <1>6, <1>9 DEF Suits, UnattendedAllows
  <2>2. job'.eligible = job.eligible \cup {p}
    BY <1>3, <1>9
  <2>3. CASE job.timeout = NoTimeout
    <3>1. job'.timeout = registration[p].default_timeout /\ job'.eligible = {p}
      BY <1>3, <1>6, <1>7, <1>9, <2>2, <2>3
    <3>2. registration[p].default_timeout \in Nat \ {0} /\ NoTimeout \notin Nat
      BY <1>1, RouterAssumption DEF RouterAssumption, Registration
    <3>3. registration[p].default_timeout <= registration[p].max_timeout
      BY <2>1, <2>3 DEF timeoutFor
    <3> QED BY <1>3, <1>7, <3>1, <3>2, <3>3 DEF WithinProfiles
  <2>4. CASE job.timeout # NoTimeout
    <3>1. job'.timeout = job.timeout
      BY <1>3, <2>4
    <3>2. job.timeout <= registration[p].max_timeout
      BY <1>7, <2>1, <2>4 DEF timeoutFor
    <3> QED BY <1>3, <1>7, <2>2, <2>4, <3>1, <3>2 DEF WithinProfiles
  <2> QED BY <2>3, <2>4
<1> QED BY <1>8, <1>9

LEMMA WithinProfilesStep ==
    ASSUME Base, OrderIsEligible, WithinProfiles, [RouterNext]_vars
    PROVE  OrderIsEligible' /\ WithinProfiles'
<1>t. job \in Job
  BY DEF Base
<1>s. ASSUME job.at # "idle", SameProfiles PROVE OrderIsEligible' /\ WithinProfiles'
  BY <1>s DEF SameProfiles, OrderIsEligible, WithinProfiles, request
<1>i. ASSUME job' = Idle PROVE OrderIsEligible' /\ WithinProfiles'
  BY <1>i DEF Idle, OrderIsEligible, WithinProfiles
<1>u. UNCHANGED job => OrderIsEligible' /\ WithinProfiles'
  BY DEF OrderIsEligible, WithinProfiles, request
<1>1. CASE AcceptRequest
  <2>1. /\ job'.order = << >> /\ job'.eligible = {} /\ job'.called = << >>
        /\ job'.timeout = job'.request.timeout
    BY <1>1 DEF AcceptRequest, Idle
  <2> QED BY <2>1 DEF OrderIsEligible, WithinProfiles, request
<1>2. CASE EvaluateProvider
  BY <1>2, EvaluateStep
<1>3. CASE SelectProvider
  <2>1. CASE job' = [job EXCEPT !.at = "answered", !.result = Failed("NON_RETRYABLE")]
    <3>1. SameProfiles
      BY <1>t, <2>1 DEF Job, SameProfiles
    <3> QED BY <1>3, <1>s, <3>1 DEF SelectProvider
  <2>2. ASSUME NEW order \in InOrder(job.eligible, provider_selection_key),
               job' = [job EXCEPT !.at = "invoke", !.place = 1, !.attempt = 1, !.order = order]
        PROVE  OrderIsEligible' /\ WithinProfiles'
    <3>1. /\ job'.request = job.request /\ job'.timeout = job.timeout
          /\ job'.eligible = job.eligible /\ job'.called = job.called /\ job'.order = order
      BY <1>t, <2>2 DEF Job
    <3>2. \A i \in DOMAIN order : order[i] \in job.eligible
      BY <2>2 DEF InOrder
    <3>3. job.at # "idle"
      BY <1>3 DEF SelectProvider
    <3> QED BY <3>1, <3>2, <3>3 DEF OrderIsEligible, WithinProfiles, request
  <2> QED BY <1>3, <2>1, <2>2 DEF SelectProvider
<1>4. CASE InvokeProvider
  <2>1. job.at = "invoke"
    BY <1>4 DEF InvokeProvider
  <2> DEFINE s == IF job.timeout \in {NoTimeout, 0}
                  THEN registration[provider].own_timeout ELSE job.timeout
  <2>2. job' = [job EXCEPT !.at = "validate", !.called = Append(@, <<provider, s>>)]
    BY <1>4 DEF InvokeProvider
  <2>3. provider \in job.eligible
    BY <2>1, ProviderAtHand DEF OrderIsEligible, provider
  <2>4. ASSUME request.unattended, request.timeout # 0
        PROVE  s <= registration[provider].max_timeout
    BY <2>1, <2>3, <2>4 DEF WithinProfiles
  <2> HIDE DEF s
  <2>5. /\ job'.request = job.request /\ job'.timeout = job.timeout
        /\ job'.eligible = job.eligible /\ job'.order = job.order
        /\ job'.called = Append(job.called, <<provider, s>>)
    BY <1>t, <2>2 DEF Job
  <2>6. job.called \in Seq(Providers \X Nat)
    BY <1>t DEF Job
  <2>7. \A i \in DOMAIN job'.called :
            (i \in DOMAIN job.called /\ job'.called[i] = job.called[i])
            \/ job'.called[i] = <<provider, s>>
    BY <2>5, <2>6
  <2>8. request' = request
    BY <2>5 DEF request
  <2>9. OrderIsEligible'
    BY <2>5 DEF OrderIsEligible
  <2>10. SUFFICES ASSUME request.unattended, request.timeout # 0
                  PROVE  WithinProfiles'
    BY <2>8, <2>9 DEF WithinProfiles
  <2>11. \A i \in DOMAIN job'.called :
             job'.called[i][2] <= registration[job'.called[i][1]].max_timeout
    BY <2>1, <2>4, <2>7, <2>10 DEF WithinProfiles
  <2> QED BY <2>1, <2>5, <2>10, <2>11 DEF WithinProfiles
<1>5. CASE Works
  <2>1. job.at # "idle" /\ SameProfiles
    BY <1>5 DEF Works, SameCall, SameProfiles, Called
  <2> QED BY <1>s, <2>1
<1>6. CASE RecordAttempt
  <2>1. job.at # "idle" /\ SameProfiles
    BY <1>6, <1>t DEF RecordAttempt, Job, SameProfiles
  <2> QED BY <1>s, <2>1
<1>7. CASE TakeAnswer \/ SessionRollsBack
  BY <1>7, <1>i DEF TakeAnswer, SessionRollsBack
<1>8. CASE Preview \/ GatewayStep \/ SessionCommits \/ UNCHANGED vars
  BY <1>8, <1>u DEF Preview, GatewayStep, SessionCommits, routerVars, vars
<1> QED
  BY <1>1, <1>2, <1>3, <1>4, <1>5, <1>6, <1>7, <1>8, WorkingSteps DEF RouterNext, RouterStep

(* Every call of an unattended request runs under a timeout that the       *)
(* profile of its provider allows, failovers included (runtime/router.py   *)
(* _evaluate_provider, _unattended_ineligibility_reasons).                 *)
THEOREM UnattendedBounded == RouterSpec => []UnattendedStaysInProfile
<1>1. RouterInit => OrderIsEligible /\ WithinProfiles
  BY DEF RouterInit, Idle, OrderIsEligible, WithinProfiles
<1>2. RouterSpec => [](Base /\ OrderIsEligible /\ WithinProfiles)
  BY <1>1, BaseInit, BaseStep, WithinProfilesStep, PTL DEF RouterSpec
<1>3. WithinProfiles => UnattendedStaysInProfile
  BY DEF WithinProfiles, UnattendedStaysInProfile
<1> QED BY <1>2, <1>3, PTL

----------------------------------------------------------------------------
(* One row for each call, each after the first for a failure that allowed  *)
(* it.                                                                     *)

\* A later row of the same request answers a failure, under another target or
\* a higher attempt.
MayFollow(a, b) ==
    /\ a.status = "FAILED" /\ a.retry # "NON_RETRYABLE"
    /\ a.target # b.target \/ a.attempt < b.attempt

SameOrigin(a, b) == a.by = b.by /\ a.request = b.request

TableInOrder(rows) ==
    \A i, j \in DOMAIN rows : SameOrigin(rows[i], rows[j]) /\ i < j => MayFollow(rows[i], rows[j])

\* No row is ahead of the requests and calls that have been made.
NoneAhead(rows, next) ==
    \A i \in DOMAIN rows : /\ rows[i].by = "router" => rows[i].request < next
                           /\ rows[i].by = "gateway" => rows[i].request <= calls

TablesInOrder ==
    /\ TableInOrder(executions) /\ NoneAhead(executions, counter)
    /\ TableInOrder(saved.executions) /\ NoneAhead(saved.executions, saved.counter)

\* The rows of a gateway call in progress are failed attempts before this one.
GatewayRows ==
    call # NoCall =>
        /\ call.request = calls
        /\ \A i \in RowsOf("gateway", calls) :
              /\ executions[i].status = "FAILED" /\ executions[i].retry # "NON_RETRYABLE"
              /\ executions[i].attempt < call.attempt

\* The rows of a request in progress: failed attempts of the providers up to
\* the present one, of the present one before this attempt.
Earlier(i) ==
    /\ executions[i].status = "FAILED" /\ executions[i].retry # "NON_RETRYABLE"
    /\ \E k \in 1..job.place : /\ executions[i].target = job.order[k]
                               /\ k = job.place => executions[i].attempt < job.attempt

Unrecorded == IF job.at \in Called THEN 1 ELSE 0

RouterRows ==
    job.at # "idle" =>
        /\ call = NoCall
        /\ Len(job.called) = Cardinality(RowsOf("router", job.id)) + Unrecorded
        /\ job.at = "evaluate" => RowsOf("router", job.id) = {}
        /\ job.at \in Called \cup {"invoke"} =>
              /\ \A i, j \in DOMAIN job.order : job.order[i] = job.order[j] => i = j
              /\ RowsOf("router", job.id) # {} \/ job.attempt > 1 => job.id \in DOMAIN executions
              /\ \A i \in RowsOf("router", job.id) : Earlier(i)

Accounts == TablesInOrder /\ GatewayRows /\ RouterRows

LEMMA RowsAfterOne ==
    ASSUME NEW n, NEW row, executions' = WithRow(n, row), n \notin DOMAIN executions
    PROVE  /\ DOMAIN executions' = DOMAIN executions \cup {n}
           /\ executions'[n] = row
           /\ \A i \in DOMAIN executions : executions'[i] = executions[i]
           /\ \A who, r : RowsOf(who, r)' = RowsOf(who, r)
                        \cup (IF row.by = who /\ row.request = r THEN {n} ELSE {})
<1>1. /\ DOMAIN executions' = DOMAIN executions \cup {n}
      /\ executions'[n] = row
      /\ \A i \in DOMAIN executions : executions'[i] = executions[i]
  BY DEF WithRow
<1>2. ASSUME NEW who, NEW r
      PROVE  RowsOf(who, r)' = RowsOf(who, r)
                        \cup (IF row.by = who /\ row.request = r THEN {n} ELSE {})
  BY <1>1 DEF RowsOf
<1> QED BY <1>1, <1>2

(* A table stays in order when the new row may follow those of its origin. *)
LEMMA TableGrows ==
    ASSUME Base, TableInOrder(executions), NEW n \in Nat, NEW row \in Row,
           executions' = WithRow(n, row), n \notin DOMAIN executions,
           \A i \in RowsOf(row.by, row.request) : i < n /\ MayFollow(executions[i], row)
    PROVE  TableInOrder(executions)'
<1>1. /\ DOMAIN executions' = DOMAIN executions \cup {n}
      /\ executions'[n] = row
      /\ \A i \in DOMAIN executions : executions'[i] = executions[i]
  BY RowsAfterOne
<1>2. DOMAIN executions \subseteq Nat
  BY DEF Base, RowsTyped
<1>3. SUFFICES ASSUME NEW i \in DOMAIN executions', NEW j \in DOMAIN executions',
                      SameOrigin(executions'[i], executions'[j]), i < j
               PROVE  MayFollow(executions'[i], executions'[j])
  BY DEF TableInOrder, SameOrigin, MayFollow
<1>4. CASE i \in DOMAIN executions /\ j \in DOMAIN executions
  BY <1>1, <1>3, <1>4 DEF TableInOrder
<1>5. CASE i \in DOMAIN executions /\ j = n
  <2>1. i \in RowsOf(row.by, row.request)
    BY <1>1, <1>3, <1>5 DEF RowsOf, SameOrigin
  <2> QED BY <1>1, <1>5, <2>1
<1>6. CASE i = n /\ j \in DOMAIN executions
  <2>1. j \in RowsOf(row.by, row.request)
    BY <1>1, <1>3, <1>6 DEF RowsOf, SameOrigin
  <2>2. j < n /\ j \in Nat
    BY <1>2, <1>6, <2>1
  <2> QED BY <1>3, <1>6, <2>2
<1>7. CASE i = n /\ j = n
  BY <1>3, <1>7
<1> QED BY <1>1, <1>4, <1>5, <1>6, <1>7

LEMMA RowsOfFinite ==
    ASSUME Base, NEW who, NEW r
    PROVE  IsFiniteSet(RowsOf(who, r)) /\ RowsOf(who, r) \subseteq 1..(counter - 1)
<1>1. counter - 1 \in Int /\ DOMAIN executions \subseteq 1..(counter - 1)
  BY DEF Base, RowsTyped
<1>2. IsFiniteSet(1..(counter - 1))
  BY <1>1, FS_Interval
<1>3. RowsOf(who, r) \subseteq 1..(counter - 1)
  BY <1>1 DEF RowsOf
<1> QED BY <1>2, <1>3, FS_Subset

LEMMA SameRows ==
    ASSUME UNCHANGED executions
    PROVE  \A who, r : RowsOf(who, r)' = RowsOf(who, r)
BY DEF RowsOf

LEMMA TablesKept ==
    ASSUME Base, TablesInOrder, UNCHANGED <<executions, saved>>,
           counter' \in Nat, counter <= counter', calls' \in Nat, calls <= calls'
    PROVE  TablesInOrder'
<1>1. /\ \A i \in DOMAIN executions : executions[i].request \in Nat
      /\ \A i \in DOMAIN saved.executions : saved.executions[i].request \in Nat
      /\ calls \in Nat /\ counter \in Nat /\ saved.counter \in Nat
  BY DEF Base, RowsTyped, Row
<1>2. NoneAhead(executions, counter)'
  BY <1>1 DEF TablesInOrder, NoneAhead
<1>3. NoneAhead(saved.executions, saved.counter)'
  BY <1>1 DEF TablesInOrder, NoneAhead
<1>4. TableInOrder(executions)' /\ TableInOrder(saved.executions)'
  BY DEF TablesInOrder, TableInOrder, SameOrigin, MayFollow
<1> QED BY <1>2, <1>3, <1>4 DEF TablesInOrder

LEMMA TablesGrow ==
    ASSUME Base, TablesInOrder, NEW n \in Nat, NEW row \in Row, UNCHANGED saved,
           executions' = WithRow(n, row), n \notin DOMAIN executions,
           \A i \in RowsOf(row.by, row.request) : i < n /\ MayFollow(executions[i], row),
           counter' \in Nat, counter <= counter', calls' \in Nat, calls <= calls',
           row.by = "router" => row.request < counter',
           row.by = "gateway" => row.request <= calls'
    PROVE  TablesInOrder'
<1>1. TableInOrder(executions)'
  BY TableGrows DEF TablesInOrder
<1>2. /\ \A i \in DOMAIN executions : executions[i].request \in Nat
      /\ \A i \in DOMAIN saved.executions : saved.executions[i].request \in Nat
      /\ calls \in Nat /\ counter \in Nat /\ saved.counter \in Nat
  BY DEF Base, RowsTyped, Row
<1>3. /\ DOMAIN executions' = DOMAIN executions \cup {n}
      /\ executions'[n] = row
      /\ \A i \in DOMAIN executions : executions'[i] = executions[i]
  BY RowsAfterOne
<1>4. NoneAhead(executions, counter)'
  <2>1. ASSUME NEW i \in DOMAIN executions'
        PROVE  /\ executions'[i].by = "router" => executions'[i].request < counter'
               /\ executions'[i].by = "gateway" => executions'[i].request <= calls'
    <3>1. CASE i = n
      BY <1>3, <3>1
    <3>2. CASE i \in DOMAIN executions
      <4>1. /\ executions[i].by = "router" => executions[i].request < counter
            /\ executions[i].by = "gateway" => executions[i].request <= calls
        BY <3>2 DEF TablesInOrder, NoneAhead
      <4> QED BY <1>2, <1>3, <3>2, <4>1
    <3> QED BY <1>3, <3>1, <3>2
  <2> QED BY <2>1 DEF NoneAhead
<1>5. NoneAhead(saved.executions, saved.counter)'
  BY <1>2 DEF TablesInOrder, NoneAhead
<1>6. TableInOrder(saved.executions)'
  BY DEF TablesInOrder, TableInOrder, SameOrigin, MayFollow
<1> QED BY <1>1, <1>4, <1>5, <1>6 DEF TablesInOrder

(* The record of an attempt.                                               *)
LEMMA RecordKeepsAccounts ==
    ASSUME Base, Accounts, RecordAttempt
    PROVE  Accounts'
<1>t. /\ job \in Job /\ calls \in Nat /\ RowsTyped(executions, counter) /\ counter \in Nat
      /\ job.at = "record" /\ "record" \in Called /\ "invoke" \notin Called
      /\ "answered" \notin Called
  BY DEF Base, RowsTyped, RecordAttempt, Called
<1>i. job.id \in 1..(counter - 1) /\ job.id \in Nat
  BY <1>t DEF Base, InPlace
<1>p. provider \in Providers /\ job.place \in DOMAIN job.order /\ provider = job.order[job.place]
  BY <1>t, ProviderAtHand DEF provider
<1>n. job.place \in Nat /\ job.place >= 1 /\ job.attempt \in Nat /\ job.order \in Seq(Providers)
      /\ job.place <= Len(job.order)
  BY <1>t, <1>p DEF Job
<1>r. /\ call = NoCall
      /\ Len(job.called) = Cardinality(RowsOf("router", job.id)) + 1
      /\ \A i, j \in DOMAIN job.order : job.order[i] = job.order[j] => i = j
      /\ RowsOf("router", job.id) # {} \/ job.attempt > 1 => job.id \in DOMAIN executions
      /\ \A i \in RowsOf("router", job.id) : Earlier(i)
  BY <1>t DEF Accounts, RouterRows, Unrecorded
<1>a. /\ RowAdded(Attempt) /\ Attempt \in Row
      /\ UNCHANGED <<call, calls, tree, saved, invocations, requests, previews>>
  BY RecordAddsRow
<1>b. Attempt.by = "router" /\ Attempt.request = job.id /\ Attempt.target = provider
      /\ Attempt.attempt = job.attempt /\ Attempt.status = job.result.status
      /\ Attempt.retry = job.result.retry
  BY DEF Attempt
<1>1. PICK n \in Nat \ {0} :
        /\ n \notin DOMAIN executions
        /\ executions' = WithRow(n, Attempt)
        /\ \/ n = counter /\ counter' = counter + 1
           \/ n = job.id /\ counter' = counter
  BY <1>a DEF RowAdded
<1>2. counter' \in Nat /\ counter <= counter' /\ job.id < counter'
  BY <1>t, <1>i, <1>1
<1>3. \A i \in RowsOf("router", job.id) : i \in DOMAIN executions
  BY DEF RowsOf
<1>4. ASSUME NEW i \in RowsOf("router", job.id) PROVE i < n /\ MayFollow(executions[i], Attempt)
  <2>1. job.id \in DOMAIN executions
    BY <1>r
  <2>2. n = counter
    BY <1>1, <2>1
  <2>3. i \in 1..(counter - 1)
    BY <1>t, <1>3 DEF RowsTyped
  <2>4. i < n
    BY <1>t, <2>2, <2>3
  <2>5. PICK k \in 1..job.place : /\ executions[i].target = job.order[k]
                                  /\ k = job.place => executions[i].attempt < job.attempt
    BY <1>r DEF Earlier
  <2>6. k \in DOMAIN job.order
    BY <1>n
  <2>7. executions[i].target # provider \/ executions[i].attempt < job.attempt
    BY <1>p, <1>r, <2>5, <2>6
  <2> QED BY <1>b, <1>r, <2>4, <2>7 DEF MayFollow, Earlier
<1>5. TablesInOrder'
  <2> HIDE DEF Attempt
  <2> QED BY <1>t, <1>a, <1>b, <1>1, <1>2, <1>4, TablesGrow DEF Accounts
<1>6. /\ \A i \in DOMAIN executions : executions'[i] = executions[i]
      /\ executions'[n] = Attempt
      /\ DOMAIN executions' = DOMAIN executions \cup {n}
  BY <1>1 DEF WithRow
<1>7. /\ job'.id = job.id /\ job'.order = job.order /\ job'.called = job.called
      /\ \/ job'.at = "invoke" /\ MayRetry /\ job'.place = job.place
            /\ job'.attempt = job.attempt + 1
         \/ job'.at = "invoke" /\ MayFailOver /\ job'.place = job.place + 1 /\ job'.attempt = 1
         \/ job'.at = "answered"
  <2>1. CASE MayRetry
    BY <1>t, <2>1 DEF RecordAttempt, Job
  <2>2. CASE ~MayRetry /\ MayFailOver
    BY <1>t, <2>2 DEF RecordAttempt, Job
  <2>3. CASE ~MayRetry /\ ~MayFailOver
    BY <1>t, <2>3 DEF RecordAttempt, Job
  <2> QED BY <2>1, <2>2, <2>3
<1>8. RowsOf("router", job.id)' = RowsOf("router", job.id) \cup {n}
  <2> HIDE DEF Attempt
  <2> QED BY <1>b, <1>6, <1>7 DEF RowsOf
<1>9. Cardinality(RowsOf("router", job.id)') = Cardinality(RowsOf("router", job.id)) + 1
  <2>1. n \notin RowsOf("router", job.id)
    BY <1>1, <1>3
  <2>2. IsFiniteSet(RowsOf("router", job.id))
    BY RowsOfFinite
  <2>3. Cardinality(RowsOf("router", job.id) \cup {n}) = Cardinality(RowsOf("router", job.id)) + 1
    BY <2>1, <2>2, FS_AddElement
  <2> QED BY <1>8, <2>3
<1>10. job.id \in DOMAIN executions'
  <2>1. CASE job.attempt > 1 \/ job.id \in DOMAIN executions
    BY <1>r, <1>6, <2>1
  <2>2. CASE ~ (job.attempt > 1 \/ job.id \in DOMAIN executions)
    <3>1. RecordId = job.id
      BY <2>2 DEF RecordId
    <3>2. executions' = WithRow(job.id, Attempt)
      BY <3>1 DEF RecordAttempt, Attempt
    <3> QED BY <3>2 DEF WithRow
  <2> QED BY <2>1, <2>2
<1>11. ASSUME job'.at = "invoke", NEW i \in RowsOf("router", job.id)'
       PROVE  Earlier(i)'
  <2>1. /\ job.result.status = "FAILED" /\ job.result.retry # "NON_RETRYABLE"
        /\ \/ job'.place = job.place /\ job'.attempt = job.attempt + 1
           \/ job'.place = job.place + 1 /\ job'.attempt = 1
    BY <1>7, <1>11 DEF MayRetry, MayFailOver, retryable, failoverable
  <2>2. job'.place \in Nat /\ job'.order = job.order
    BY <1>n, <1>7, <2>1
  <2>3. CASE i = n
    <3>1. /\ executions'[i].status = "FAILED" /\ executions'[i].retry # "NON_RETRYABLE"
          /\ executions'[i].target = job.order[job.place]
          /\ executions'[i].attempt = job.attempt
      <4> HIDE DEF Attempt
      <4> QED BY <1>b, <1>p, <1>6, <2>1, <2>3
    <3>2. job.place \in 1..job'.place /\ (job.place = job'.place => job.attempt < job'.attempt)
      BY <1>n, <2>1
    <3> QED BY <2>2, <3>1, <3>2 DEF Earlier
  <2>4. CASE i \in RowsOf("router", job.id)
    <3>1. i \in DOMAIN executions /\ executions'[i] = executions[i] /\ Earlier(i)
      BY <1>3, <1>6, <1>r, <2>4
    <3>2. PICK k \in 1..job.place : /\ executions[i].target = job.order[k]
                                    /\ k = job.place => executions[i].attempt < job.attempt
      BY <3>1 DEF Earlier
    <3>3. executions[i].attempt \in Nat
      BY <1>t, <3>1 DEF RowsTyped, Row
    <3>4. k \in 1..job'.place /\ (k = job'.place => executions[i].attempt < job'.attempt)
      BY <1>n, <2>1, <3>2, <3>3
    <3> QED BY <2>2, <3>1, <3>2, <3>4 DEF Earlier
  <2> QED BY <1>8, <1>11, <2>3, <2>4
<1>12. RouterRows'
  <2>1. call' = NoCall /\ job'.at \in {"invoke", "answered"} /\ Unrecorded' = 0
    BY <1>a, <1>r, <1>7, <1>t DEF Unrecorded
  <2>2. Len(job'.called) = Cardinality(RowsOf("router", job.id)') + 0
    <3>1. Cardinality(RowsOf("router", job.id)') \in Nat
      BY <1>9, RowsOfFinite, FS_CardinalityType
    <3> QED BY <1>r, <1>7, <1>9, <3>1
  <2>3. \A i, j \in DOMAIN job'.order : job'.order[i] = job'.order[j] => i = j
    BY <1>r, <1>7
  <2>4. job'.id \in DOMAIN executions'
    BY <1>7, <1>10
  <2>5. "answered" \notin Called \cup {"invoke"}
    BY DEF Called
  <2> QED BY <1>11, <2>1, <2>2, <2>3, <2>4, <2>5 DEF RouterRows
<1>13. GatewayRows'
  BY <1>a, <1>r DEF GatewayRows
<1> QED BY <1>5, <1>12, <1>13 DEF Accounts

(* The gateway's attempts and blocks, while no request is in progress.     *)
LEMMA GatewayKeepsAccounts ==
    ASSUME Base, Accounts, GatewayStep
    PROVE  Accounts'
<1>t. /\ call \in Call /\ calls \in Nat /\ RowsTyped(executions, counter)
      /\ counter \in Nat \ {0} /\ next_id = counter /\ counter \notin DOMAIN executions
  BY NextIdIsTheCounter DEF Base, RowsTyped
<1>g. job.at = "idle" /\ job'.at = "idle" /\ UNCHANGED saved
  BY DEF GatewayStep, routerVars
<1>r. RouterRows'
  BY <1>g DEF RouterRows
<1>b. \A i \in DOMAIN executions : i < counter
  BY <1>t DEF RowsTyped
<1>a. ASSUME TablesInOrder', call' = NoCall \/ GatewayRows' PROVE Accounts'
  BY <1>r, <1>a DEF Accounts, GatewayRows
<1>1. CASE RouteModelRequest
  <2>1. calls' = calls + 1 /\ calls' \in Nat /\ calls <= calls' /\ call = NoCall
    BY <1>1, <1>t DEF RouteModelRequest
  <2>2. \A i \in DOMAIN executions : executions[i].by = "gateway" => executions[i].request <= calls
    BY DEF Accounts, TablesInOrder, NoneAhead
  <2>3. RowsOf("gateway", calls + 1) = {}
    <3>1. \A i \in DOMAIN executions : executions[i].request \in Nat
      BY <1>t DEF RowsTyped, Row
    <3>2. \A i \in DOMAIN executions :
              executions[i].by = "gateway" => executions[i].request # calls + 1
      BY <1>t, <2>2, <3>1
    <3> QED BY <3>2 DEF RowsOf
  <2>4. \/ executions' = WithRow(next_id, BlockedRow) /\ counter' = next_id + 1 /\ UNCHANGED call
        \/ /\ \E targets : call' = [request |-> calls + 1, targets |-> targets, attempt |-> 1]
           /\ UNCHANGED <<executions, counter>>
    BY <1>1 DEF RouteModelRequest, BlockedRow
  <2>5. CASE executions' = WithRow(next_id, BlockedRow) /\ counter' = next_id + 1 /\ UNCHANGED call
    <3>1. BlockedRow \in Row
      BY <2>5, BlockAddsRow
    <3>2. BlockedRow.by = "gateway" /\ BlockedRow.request = calls + 1
      BY DEF BlockedRow
    <3>3. RowsOf(BlockedRow.by, BlockedRow.request) = {}
      BY <2>3, <3>2
    <3>4. counter' \in Nat /\ counter <= counter' /\ counter \in Nat
          /\ executions' = WithRow(counter, BlockedRow)
      BY <1>t, <2>5
    <3>5. TablesInOrder'
      <4> HIDE DEF BlockedRow
      <4>1. /\ BlockedRow.by = "router" => BlockedRow.request < counter'
            /\ BlockedRow.by = "gateway" => BlockedRow.request <= calls'
            /\ \A i \in RowsOf(BlockedRow.by, BlockedRow.request) :
                    i < counter /\ MayFollow(executions[i], BlockedRow)
        BY <2>1, <3>2, <3>3
      <4> QED BY <1>t, <1>g, <2>1, <3>1, <3>4, <4>1, TablesGrow DEF Accounts
    <3> QED BY <1>a, <2>1, <2>5, <3>5
  <2>6. ASSUME NEW targets, UNCHANGED <<executions, counter>>,
               call' = [request |-> calls + 1, targets |-> targets, attempt |-> 1]
        PROVE  Accounts'
    <3>1. TablesInOrder'
      BY <1>t, <1>g, <2>1, <2>6, TablesKept DEF Accounts
    <3>2. call'.request = calls'
      BY <2>1, <2>6
    <3>3. RowsOf("gateway", calls)' = {}
      BY <2>1, <2>3, <2>6 DEF RowsOf
    <3>4. GatewayRows'
      BY <3>2, <3>3 DEF GatewayRows
    <3> QED BY <1>a, <3>1, <3>4
  <2> QED BY <2>4, <2>5, <2>6
<1>2. ASSUME NEW outcome \in Outcomes, AttemptExecution(outcome) PROVE Accounts'
  <2> DEFINE row == TriedRow(outcome)
  <2>1. row \in Row
    BY <1>2, GatewayAddsRow
  <2>2. /\ row.by = "gateway" /\ row.request = call.request /\ row.attempt = call.attempt
        /\ outcome = "RETRYABLE_ERROR" => row.status = "FAILED" /\ row.retry = "RETRYABLE"
    BY DEF TriedRow, GatewayRow
  <2>3. /\ executions' = WithRow(counter, row) /\ counter' = counter + 1
        /\ UNCHANGED calls /\ call # NoCall
    BY <1>2, <1>t DEF AttemptExecution, TriedRow
  <2> HIDE DEF row
  <2>4. /\ call.request = calls
        /\ \A i \in RowsOf("gateway", calls) :
              /\ executions[i].status = "FAILED" /\ executions[i].retry # "NON_RETRYABLE"
              /\ executions[i].attempt < call.attempt
    BY <2>3 DEF Accounts, GatewayRows
  <2>5. \A i \in RowsOf(row.by, row.request) : i < counter /\ MayFollow(executions[i], row)
    <3>1. \A i \in RowsOf("gateway", calls) : i < counter
      BY <1>b DEF RowsOf
    <3> QED BY <2>2, <2>4, <3>1 DEF MayFollow
  <2>6. TablesInOrder'
    <3>1. /\ row.by = "router" => row.request < counter'
          /\ row.by = "gateway" => row.request <= calls'
          /\ calls' \in Nat /\ calls <= calls' /\ counter' \in Nat /\ counter <= counter'
      BY <1>t, <2>2, <2>3, <2>4
    <3> QED BY <1>t, <1>g, <2>1, <2>3, <2>5, <3>1, TablesGrow DEF Accounts
  <2>7. CASE call' = NoCall
    BY <1>a, <2>6, <2>7
  <2>8. CASE outcome = "RETRYABLE_ERROR" /\ call' = [call EXCEPT !.attempt = @ + 1]
    <3>1. call'.request = call.request /\ call'.attempt = call.attempt + 1 /\ call.attempt \in Nat
      BY <1>t, <2>8 DEF Call
    <3>2. /\ \A i \in DOMAIN executions : executions'[i] = executions[i]
          /\ executions'[counter] = row
          /\ DOMAIN executions' = DOMAIN executions \cup {counter}
      BY <1>t, <2>3 DEF WithRow
    <3>3. RowsOf("gateway", calls)' = RowsOf("gateway", calls) \cup {counter}
      BY <2>2, <2>3, <2>4, <3>2 DEF RowsOf
    <3>4. ASSUME NEW i \in RowsOf("gateway", calls)'
          PROVE  /\ executions'[i].status = "FAILED" /\ executions'[i].retry # "NON_RETRYABLE"
                 /\ executions'[i].attempt < call'.attempt
      <4>1. CASE i = counter
        BY <2>2, <2>8, <3>1, <3>2, <4>1
      <4>2. CASE i \in RowsOf("gateway", calls)
        <5>1. i \in DOMAIN executions
          BY <4>2 DEF RowsOf
        <5>2. executions[i].attempt \in Nat
          BY <1>t, <5>1 DEF RowsTyped, Row
        <5> QED BY <2>4, <3>1, <3>2, <4>2, <5>1, <5>2
      <4> QED BY <3>3, <3>4, <4>1, <4>2
    <3>5. GatewayRows'
      BY <2>3, <2>4, <3>1, <3>4 DEF GatewayRows
    <3> QED BY <1>a, <2>6, <3>5
  <2> QED BY <1>2, <2>7, <2>8 DEF AttemptExecution
<1> QED BY <1>1, <1>2 DEF GatewayStep, GatewayNext

LEMMA AccountsStep ==
    ASSUME Base, Accounts, [RouterNext]_vars
    PROVE  Accounts'
<1>t. /\ job \in Job /\ call \in Call /\ calls \in Nat /\ counter \in Nat
      /\ RowsTyped(executions, counter) /\ next_id = counter
  BY NextIdIsTheCounter DEF Base, RowsTyped
<1>k. ASSUME UNCHANGED <<executions, saved, calls>>, counter' \in Nat, counter <= counter'
      PROVE  TablesInOrder'
  BY <1>t, <1>k, TablesKept DEF Accounts
<1>g. UNCHANGED <<executions, call, calls>> => GatewayRows'
  BY DEF Accounts, GatewayRows, RowsOf
<1>i. job'.at = "idle" => RouterRows'
  BY DEF RouterRows
<1>f. ASSUME UNCHANGED filesAndRows, RouterRows' PROVE Accounts'
  BY <1>t, <1>k, <1>g, <1>f DEF filesAndRows, Accounts
<1>1. CASE UNCHANGED vars
  <2>1. UNCHANGED <<filesAndRows, job>>
    BY <1>1 DEF vars, gatewayVars, routerVars, filesAndRows
  <2>2. RouterRows'
    BY <2>1 DEF Accounts, RouterRows, filesAndRows, RowsOf, Unrecorded, Earlier
  <2> QED BY <1>f, <2>1, <2>2
<1>2. CASE AcceptRequest
  <2>1. /\ job'.id = counter /\ job'.at \in {"answered", "evaluate"} /\ job'.called = << >>
        /\ call = NoCall /\ counter' = counter + 1
        /\ UNCHANGED <<executions, call, calls, saved>>
    BY <1>2, <1>t DEF AcceptRequest, Idle
  <2>2. RowsOf("router", job.id)' = {}
    <3>1. \A i \in DOMAIN executions :
              executions[i].by = "router" => executions[i].request < counter
      BY DEF Accounts, TablesInOrder, NoneAhead
    <3>2. \A i \in DOMAIN executions :
              executions[i].by = "router" => executions[i].request # counter
      BY <1>t, <3>1
    <3> QED BY <2>1, <3>2 DEF RowsOf
  <2>3. Cardinality(RowsOf("router", job.id)') = 0
    BY <2>2, FS_EmptySet
  <2>4. RouterRows'
    BY <2>1, <2>2, <2>3 DEF RouterRows, Called, Unrecorded
  <2> QED BY <1>t, <1>k, <1>g, <2>1, <2>4 DEF Accounts
<1>3. CASE Preview
  <2>1. job.at = "idle" /\ counter' = counter + 1
        /\ UNCHANGED <<executions, call, calls, job, saved>>
    BY <1>3, <1>t DEF Preview
  <2> QED BY <1>t, <1>k, <1>g, <1>i, <2>1 DEF Accounts
<1>4. CASE EvaluateProvider
  <2>1. job.at = "evaluate" /\ job'.at = "evaluate" /\ job'.id = job.id
        /\ job'.called = job.called /\ UNCHANGED filesAndRows
    BY <1>4, <1>t DEF EvaluateProvider, Job
  <2>2. RowsOf("router", job.id)' = RowsOf("router", job.id)
    BY <2>1 DEF RowsOf, filesAndRows
  <2>3. RouterRows'
    BY <2>1, <2>2 DEF Accounts, RouterRows, Called, Unrecorded, filesAndRows
  <2> QED BY <1>f, <2>1, <2>3
<1>5. CASE SelectProvider
  <2>1. job.at = "evaluate" /\ UNCHANGED filesAndRows
    BY <1>5 DEF SelectProvider
  <2>2. /\ call = NoCall /\ RowsOf("router", job.id) = {}
        /\ Len(job.called) = Cardinality(RowsOf("router", job.id)) + 0
    BY <2>1 DEF Accounts, RouterRows, Called, Unrecorded
  <2>3. CASE job' = [job EXCEPT !.at = "answered", !.result = Failed("NON_RETRYABLE")]
    <3>1. job'.at = "answered" /\ job'.id = job.id /\ job'.called = job.called
      BY <1>t, <2>3 DEF Job
    <3>2. RowsOf("router", job.id)' = RowsOf("router", job.id)
      BY <2>1, <3>1 DEF RowsOf, filesAndRows
    <3>3. RouterRows'
      BY <2>1, <2>2, <3>1, <3>2 DEF RouterRows, Called, Unrecorded, filesAndRows
    <3> QED BY <1>f, <2>1, <3>3
  <2>4. ASSUME NEW order \in InOrder(job.eligible, provider_selection_key),
               job' = [job EXCEPT !.at = "invoke", !.place = 1, !.attempt = 1, !.order = order]
        PROVE  Accounts'
    <3>1. job'.at = "invoke" /\ job'.id = job.id /\ job'.called = job.called
          /\ job'.order = order /\ job'.attempt = 1
      BY <1>t, <2>4 DEF Job
    <3>2. RowsOf("router", job.id)' = RowsOf("router", job.id)
      BY <2>1, <3>1 DEF RowsOf, filesAndRows
    <3>3. job.eligible \in SUBSET Providers /\ IsFiniteSet(job.eligible)
      BY <1>t, FS_Subset, RouterAssumption DEF Job, RouterAssumption
    <3>4. ASSUME NEW p \in job.eligible PROVE provider_selection_key[p] \in Seq(Int)
      <4>1. p \in Int /\ registration[p].rank \in Int /\ 100 - registration[p].reliability \in Int
        <5>1. p \in Providers /\ p \in Nat
          BY <3>3, RouterAssumption DEF RouterAssumption
        <5>2. registration[p] \in Registration
          BY <5>1, RouterAssumption DEF RouterAssumption
        <5>3. registration[p].rank \in Nat /\ registration[p].reliability \in 0..100
          BY <5>2 DEF Registration
        <5> QED BY <5>1, <5>3
      <4>2. provider_selection_key[p] = <<registration[p].rank, 100 - registration[p].reliability, p>>
        BY <3>3 DEF provider_selection_key
      <4> QED BY <4>1, <4>2
    <3>5. \A i, j \in DOMAIN order : order[i] = order[j] => i = j
      <4> HIDE DEF provider_selection_key
      <4> QED BY <2>4, <3>3, <3>4, OrderedOnce
    <3>6. RouterRows'
      BY <2>1, <2>2, <3>1, <3>2, <3>5 DEF RouterRows, Called, Unrecorded, filesAndRows
    <3> QED BY <1>f, <2>1, <3>6
  <2> QED BY <1>5, <2>3, <2>4 DEF SelectProvider
<1>s. ASSUME job.at \in Called \cup {"invoke"}, job'.at \in Called, UNCHANGED filesAndRows \/ UNCHANGED <<executions, call>>,
             job'.id = job.id, job'.order = job.order, job'.place = job.place,
             job'.attempt = job.attempt,
             Len(job'.called) = Cardinality(RowsOf("router", job.id)) + 1
      PROVE  RouterRows'
  <2>1. UNCHANGED <<executions, call>> /\ job.at # "idle" /\ job'.at \notin {"idle", "evaluate"}
    BY <1>s DEF filesAndRows, Called
  <2>2. RowsOf("router", job.id)' = RowsOf("router", job.id)
    BY <1>s, <2>1 DEF RowsOf
  <2>3. \A i : Earlier(i) => Earlier(i)'
    BY <1>s, <2>1 DEF Earlier
  <2> QED BY <1>s, <2>1, <2>2, <2>3 DEF Accounts, RouterRows, Unrecorded
<1>6. CASE InvokeProvider
  <2>1. \E s : job' = [job EXCEPT !.at = "validate", !.called = Append(@, s)]
    BY <1>6 DEF InvokeProvider
  <2>2. /\ job'.at = "validate" /\ job'.id = job.id /\ job'.order = job.order
        /\ job'.place = job.place /\ job'.attempt = job.attempt
        /\ \E s : job'.called = Append(job.called, s)
    BY <1>t, <2>1 DEF Job
  <2>3. Len(job'.called) = Len(job.called) + 1
    <3>1. job.called \in Seq(Providers \X Nat)
      BY <1>t DEF Job
    <3> QED BY <2>2, <3>1
  <2>4. job.at = "invoke" /\ UNCHANGED filesAndRows
    BY <1>6 DEF InvokeProvider
  <2>5. Len(job.called) = Cardinality(RowsOf("router", job.id))
    <3>1. Cardinality(RowsOf("router", job.id)) \in Nat
      BY RowsOfFinite, FS_CardinalityType
    <3> QED BY <2>4, <3>1 DEF Accounts, RouterRows, Called, Unrecorded
  <2>6. "validate" \in Called
    BY DEF Called
  <2> QED BY <1>f, <1>s, <2>2, <2>3, <2>4, <2>5, <2>6
<1>7. CASE Works
  <2>1. /\ job.at \in Called /\ job'.at \in Called /\ SameCall /\ job.at # "idle"
        /\ UNCHANGED <<executions, counter, call, calls, saved>>
    BY <1>7 DEF Works, Called
  <2>2. Len(job'.called) = Cardinality(RowsOf("router", job.id)) + 1
    BY <2>1 DEF Accounts, RouterRows, Unrecorded, SameCall
  <2>3. RouterRows'
    BY <1>s, <2>1, <2>2 DEF SameCall
  <2> QED BY <1>t, <1>k, <1>g, <2>1, <2>3 DEF Accounts
<1>8. CASE RecordAttempt
  BY <1>8, RecordKeepsAccounts
<1>9. CASE TakeAnswer
  BY <1>9, <1>f, <1>i DEF TakeAnswer, Idle
<1>10. CASE GatewayStep
  BY <1>10, GatewayKeepsAccounts
<1>11. CASE SessionCommits
  <2>1. /\ saved'.executions = executions /\ saved'.counter = counter
        /\ UNCHANGED <<executions, counter, call, calls, job>> /\ job.at = "idle"
    BY <1>11 DEF SessionCommits
  <2>2. TablesInOrder'
    BY <2>1 DEF Accounts, TablesInOrder, TableInOrder, NoneAhead, SameOrigin, MayFollow
  <2> QED BY <1>g, <1>i, <2>1, <2>2 DEF Accounts
<1>12. CASE SessionRollsBack
  <2>1. /\ executions' = saved.executions /\ counter' = saved.counter
        /\ UNCHANGED <<saved, calls>> /\ job'.at = "idle" /\ call' = NoCall
    BY <1>12 DEF SessionRollsBack, Idle
  <2>2. TablesInOrder'
    BY <2>1 DEF Accounts, TablesInOrder, TableInOrder, NoneAhead, SameOrigin, MayFollow
  <2> QED BY <1>i, <2>1, <2>2 DEF Accounts, GatewayRows
<1> QED
  BY <1>1, <1>2, <1>3, <1>4, <1>5, <1>6, <1>7, <1>8, <1>9, <1>10, <1>11, <1>12, WorkingSteps
  DEF RouterNext, RouterStep

(* The table of executions has one row for each call of an answered        *)
(* request, and every later row of a request or gateway call answers a     *)
(* failure that allowed it, whatever sessions were lost in between         *)
(* (runtime/router.py execute, models/gateway.py execute_with_fallback).   *)
THEOREM CallsHaveRows == RouterSpec => []EveryCallHasItsRow
<1>1. RouterInit => Accounts
  <2> SUFFICES ASSUME RouterInit PROVE Accounts
    OBVIOUS
  <2>1. executions = << >> /\ saved.executions = << >> /\ call = NoCall /\ job.at = "idle"
    BY DEF RouterInit, GatewayInit, Idle
  <2>2. DOMAIN << >> = {}
    OBVIOUS
  <2> QED BY <2>1, <2>2
          DEF Accounts, TablesInOrder, TableInOrder, NoneAhead, GatewayRows, RouterRows
<1>2. RouterSpec => [](Base /\ Accounts)
  BY <1>1, BaseInit, BaseStep, AccountsStep, PTL DEF RouterSpec
<1>3. Base /\ Accounts => EveryCallHasItsRow
  <2> SUFFICES ASSUME Base, Accounts PROVE EveryCallHasItsRow
    OBVIOUS
  <2>1. job.at = "answered" => Cardinality(RowsOf("router", job.id)) = Len(job.called)
    <3>1. Cardinality(RowsOf("router", job.id)) \in Nat
      BY RowsOfFinite, FS_CardinalityType
    <3> QED BY <3>1 DEF Accounts, RouterRows, Unrecorded, Called
  <2> QED BY <2>1 DEF Accounts, TablesInOrder, TableInOrder, SameOrigin, MayFollow,
                     EveryCallHasItsRow
<1> QED BY <1>2, <1>3, PTL
=============================================================================
