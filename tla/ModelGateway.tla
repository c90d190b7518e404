---------------------------- MODULE ModelGateway ----------------------------
(***************************************************************************)
(* The model gateway (models/gateway.py, models/router.py,                 *)
(* models/policies.py): one call selects a model profile by policy, tries  *)
(* it and then its fallbacks, and writes one model_executions row per      *)
(* attempt.  The execution router writes rows into the same table and      *)
(* takes its ids from the same counter, so both are declared here.         *)
(***************************************************************************)
EXTENDS Integers, Sequences, FiniteSets, SequencesExt, FiniteSetsExt

CONSTANTS
    Profiles,           \* model profile ids, numbers in their sorted order
    profile,            \* their rows, joined with the provider's row
    GatewayRequests,    \* the ModelRequests a caller may make
    NoProfile,
    MaxGatewayCalls     \* bound: number of gateway calls

Profile == [provider : STRING, provider_active : BOOLEAN, active : BOOLEAN,
            adapter : BOOLEAN, offers : SUBSET STRING, local : BOOLEAN,
            privacy : Nat, cost : Nat, latency : Nat, quality : 0..100,
            context : Nat, output : Nat, price : Nat]

GatewayRequest ==
    [needs : SUBSET STRING, privacy : Nat, max_cost : Nat, quality : 0..100,
     context : Nat, output : Nat, budget : Nat, prefers : Profiles \cup {NoProfile},
     fallbacks : Seq(Profiles), fallback_allowed : BOOLEAN, max_attempts : Nat]

ASSUME GatewayAssumption ==
    /\ Profiles \subseteq Nat /\ IsFiniteSet(Profiles) /\ NoProfile \notin Profiles
    /\ profile \in [Profiles -> Profile]
    /\ GatewayRequests \subseteq GatewayRequest
    /\ \A q \in GatewayRequests : Cardinality(ToSet(q.fallbacks)) = Len(q.fallbacks)
    /\ MaxGatewayCalls \in Nat

VARIABLES
    executions,     \* model_executions of the session: id -> row
    counter,        \* id_counters.next_number of "model_execution"
    call,           \* the gateway call in progress
    calls           \* number of gateway calls so far

gatewayVars == <<executions, counter, call, calls>>

(***************************************************************************)
(* The id counter and the rows.                                            *)
(***************************************************************************)
Larger(a, b) == IF a < b THEN b ELSE a

PersistedNext == Max({0} \cup DOMAIN executions) + 1

next_id == Larger(counter, PersistedNext)

RetryClasses == {"NON_RETRYABLE", "RETRYABLE", "FAILOVERABLE", "RETRYABLE_OR_FAILOVERABLE"}

Row == [by : {"gateway", "router"}, request : Nat, target : Nat, attempt : Nat,
        status : {"SUCCEEDED", "COMPLETED", "FAILED"}, retry : RetryClasses]

WithRow(id, row) == [i \in DOMAIN executions \cup {id} |->
                        IF i = id THEN row ELSE executions[i]]

RowsOf(who, request) == {i \in DOMAIN executions :
                            executions[i].by = who /\ executions[i].request = request}

(***************************************************************************)
(* CapabilityRouter.route: which profiles a request may use, in what order *)
(***************************************************************************)
capabilities_satisfied(q, m) ==
    \A c \in q.needs : c \in profile[m].offers \/ (c = "PRIVATE_INFERENCE" /\ profile[m].local)

validate_profile_for_request(q, m) ==
    {r \in {"PROVIDER_UNAVAILABLE", "MODEL_DISABLED", "CAPABILITY_UNAVAILABLE",
            "PRIVACY_POLICY_BLOCK", "COST_POLICY_BLOCK", "CONTEXT_LIMIT_EXCEEDED",
            "BUDGET_EXCEEDED"} :
        \/ r = "PROVIDER_UNAVAILABLE" /\ ~profile[m].provider_active
        \/ r = "MODEL_DISABLED" /\ ~profile[m].active
        \/ r = "CAPABILITY_UNAVAILABLE" /\ (\/ ~capabilities_satisfied(q, m)
                                            \/ profile[m].quality < q.quality)
        \/ r = "PRIVACY_POLICY_BLOCK" /\ q.privacy > profile[m].privacy
        \/ r = "COST_POLICY_BLOCK" /\ profile[m].cost > q.max_cost
        \/ r = "CONTEXT_LIMIT_EXCEEDED" /\ (\/ q.context > profile[m].context
                                            \/ q.output > profile[m].output)
        \/ r = "BUDGET_EXCEEDED" /\ profile[m].price > q.budget}

EligibleProfiles(q) == {m \in Profiles : validate_profile_for_request(q, m) = {}}

\* the place of an explicitly named fallback; the others come after them
FallbackPlace(q, m) ==
    IF m \in ToSet(q.fallbacks) THEN CHOOSE i \in DOMAIN q.fallbacks : q.fallbacks[i] = m
    ELSE Len(q.fallbacks) + 1

\* _selection_key, with the ranks the enums have; a lower key is tried first,
\* and a named fallback before the preferred model too
SelectionKey(q, m) ==
    << FallbackPlace(q, m),
       IF q.prefers = m THEN 0 ELSE 1,
       IF "HIGH_REASONING" \in q.needs \/ q.quality > 0 THEN 100 - profile[m].quality ELSE 0,
       profile[m].cost, profile[m].latency, m >>

SortsBefore(k, l) == \E i \in DOMAIN k : /\ k[i] < l[i]
                                         /\ \A j \in 1..(i - 1) : k[j] = l[j]

\* the enumerations of a set whose keys grow: one, when no two keys are equal
InOrder(S, key) ==
    {s \in [1..Cardinality(S) -> S] :
        \A i, j \in DOMAIN s : i < j => SortsBefore(key[s[i]], key[s[j]])}

order_eligible(q) ==
    InOrder(EligibleProfiles(q), [m \in EligibleProfiles(q) |-> SelectionKey(q, m)])

\* the profiles one call may try: the selected one, then the fallbacks
Attempts(q, order) ==
    LET allowed == IF q.fallback_allowed THEN Len(order) ELSE 1
    IN SubSeq(order, 1, IF q.max_attempts \in 1..allowed THEN q.max_attempts ELSE allowed)

(***************************************************************************)
(* execute_with_fallback.                                                  *)
(***************************************************************************)
NoCall == [request |-> 0, targets |-> << >>, attempt |-> 0]

\* what an attempt can end with, and whether a fallback may follow: the codes
\* of RETRYABLE_MODEL_ERRORS, of NON_FALLBACK_MODEL_ERRORS and the others
Outcomes == {"SUCCEEDED", "RETRYABLE_ERROR", "NON_FALLBACK_ERROR", "OTHER_ERROR"}

GatewayRow(target, attempt, outcome) ==
    [by |-> "gateway", request |-> call.request, target |-> target, attempt |-> attempt,
     status |-> IF outcome = "SUCCEEDED" THEN "SUCCEEDED" ELSE "FAILED",
     retry |-> IF outcome = "RETRYABLE_ERROR" THEN "RETRYABLE" ELSE "NON_RETRYABLE"]

GatewayInit ==
    /\ executions = << >> /\ counter = 1
    /\ call = NoCall /\ calls = 0

\* A call is routed; without an eligible profile its one row records the block.
RouteModelRequest ==
    /\ call = NoCall /\ calls < MaxGatewayCalls
    /\ calls' = calls + 1
    /\ \E q \in GatewayRequests :
          IF EligibleProfiles(q) = {}
          THEN /\ executions' = WithRow(next_id, [by |-> "gateway", request |-> calls + 1,
                      target |-> 0, attempt |-> 1, status |-> "FAILED",
                      retry |-> "NON_RETRYABLE"])
               /\ counter' = next_id + 1
               /\ UNCHANGED call
          ELSE /\ \E order \in order_eligible(q) :
                    call' = [request |-> calls + 1, targets |-> Attempts(q, order),
                             attempt |-> 1]
               /\ UNCHANGED <<executions, counter>>

\* One profile is tried, its row persisted, and the call goes on to the next
\* one only after an error a fallback may answer.
AttemptExecution(outcome) ==
    /\ call # NoCall
    /\ LET m == call.targets[call.attempt]
       IN /\ ~profile[m].adapter => outcome = "RETRYABLE_ERROR"
          /\ executions' = WithRow(next_id, GatewayRow(m, call.attempt, outcome))
    /\ counter' = next_id + 1
    /\ call' = IF outcome = "RETRYABLE_ERROR" /\ call.attempt < Len(call.targets)
               THEN [call EXCEPT !.attempt = @ + 1] ELSE NoCall
    /\ UNCHANGED calls

GatewayNext == \/ RouteModelRequest
               \/ \E outcome \in Outcomes : AttemptExecution(outcome)
=============================================================================
