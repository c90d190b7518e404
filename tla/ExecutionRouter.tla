--------------------------- MODULE ExecutionRouter ---------------------------
(***************************************************************************)
(* One execution of a queue item by a model: the execution router          *)
(* (runtime/router.py) with the local provider it calls                    *)
(* (runtime/ollama.py), the schema contract (runtime/schema_constraints.py)*)
(* and the evidence gate (runtime/provider_quality.py), beside the model   *)
(* gateway, whose rows and ids it shares.                                  *)
(*                                                                         *)
(* Rows live in one session, committed by the caller when the run is over; *)
(* files change at once and stay when the session is rolled back.          *)
(***************************************************************************)
EXTENDS ModelGateway

CONSTANTS
    Providers,      \* registered provider ids, numbers in their sorted order
    registration,   \* per provider, its registration and its model's profile
    Requests,       \* the runtime requests the queue items give rise to
    Paths,          \* files of the isolated workspace
    NoTimeout,      \* timeout_seconds is None
    max_provider_retries, max_failovers,    \* of the router
    MaxRequests,    \* bound: number of routed requests
    MaxPreviews     \* bound: number of previews

Qualifications == {"QUALIFIED", "SUPERVISED_ONLY", "NOT_QUALIFIED", "DISABLED"}

\* a time to wait for an answer is at least a second
Registration ==
    [active : BOOLEAN, offers : SUBSET STRING, status : Qualifications,
     supervised : BOOLEAN, schema : BOOLEAN, mutation : BOOLEAN, unattended : BOOLEAN,
     unattended_mutation : BOOLEAN, evidence : BOOLEAN, complexity : Nat,
     verification : BOOLEAN, rooted : BOOLEAN, default_timeout : Nat \ {0},
     max_timeout : Nat, own_timeout : Nat \ {0}, rank : Nat, reliability : 0..100,
     retry_or_failover : BOOLEAN]

\* a request without scope_valid is one whose frozen scope is refused
Request ==
    [read_only : BOOLEAN, unattended : BOOLEAN, supervised : BOOLEAN,
     needs : SUBSET STRING, scope_valid : BOOLEAN, paths : SUBSET Paths,
     checks : BOOLEAN, contract : Seq([path : Paths, repair : BOOLEAN]),
     explicit : BOOLEAN, verification : BOOLEAN, complexity : Nat, low_risk : BOOLEAN,
     evidence : BOOLEAN, evidence_required : BOOLEAN, isolated : BOOLEAN,
     side_effects : BOOLEAN, timeout : Nat \cup {NoTimeout}]

ASSUME RouterAssumption ==
    /\ Providers \subseteq Nat /\ IsFiniteSet(Providers)
    /\ registration \in [Providers -> Registration]
    /\ Requests \subseteq Request /\ Requests # {} /\ NoTimeout \notin Nat
    /\ max_provider_retries \in Nat /\ max_failovers \in Nat
    /\ MaxRequests \in Nat /\ MaxPreviews \in Nat

VARIABLES
    job,        \* the request in progress, and what the router holds of it
    tree,       \* how each file of the workspace differs from HEAD, or Clean
    saved,      \* the committed rows and counter
    invocations,\* number of provider calls so far
    requests,   \* number of routed requests so far
    previews

routerVars == <<job, tree, saved, invocations, requests, previews>>
vars == <<gatewayVars, routerVars>>

Clean == [by |-> 0, how |-> "HEAD"]
Written(how) == [by |-> invocations, how |-> how]
Changed == {p \in Paths : tree[p] # Clean}

Labels == {"idle", "evaluate", "invoke", "validate", "model", "write", "scope",
           "accept", "restore", "enforce", "record", "answered"}

Results == [status : {"NONE", "COMPLETED", "FAILED"}, retry : RetryClasses]

NoResult     == [status |-> "NONE", retry |-> "NON_RETRYABLE"]
Completed    == [status |-> "COMPLETED", retry |-> "NON_RETRYABLE"]
Failed(retry) == [status |-> "FAILED", retry |-> retry]

Job == [at : Labels, id : Nat, request : Requests, timeout : Nat \cup {NoTimeout},
        asked : SUBSET Providers, eligible : SUBSET Providers, order : Seq(Providers),
        place : Nat, attempt : Nat, failovers : Nat, edits : SUBSET Paths,
        written : SUBSET Paths, contract : Nat, issues : BOOLEAN, result : Results,
        called : Seq(Providers \X Nat)]

Idle == [at |-> "idle", id |-> 0, request |-> CHOOSE r \in Requests : TRUE,
         timeout |-> NoTimeout, asked |-> {}, eligible |-> {}, order |-> << >>,
         place |-> 0, attempt |-> 0, failovers |-> 0, edits |-> {}, written |-> {},
         contract |-> 0, issues |-> FALSE, result |-> NoResult, called |-> << >>]

request == job.request
provider == job.order[job.place]
mutates == "code_modification" \in request.needs \/ "documentation_update" \in request.needs

GoTo(label) == job' = [job EXCEPT !.at = label]
Returns(result) == job' = [job EXCEPT !.at = "enforce", !.contract = 1, !.edits = {},
                                      !.written = {}, !.result = result]

RouterInit ==
    /\ GatewayInit
    /\ job = Idle /\ tree = [p \in Paths |-> Clean]
    /\ saved = [executions |-> << >>, counter |-> 1]
    /\ invocations = 0 /\ requests = 0 /\ previews = 0

filesAndRows == <<executions, counter, call, calls, tree, saved>>
counts == <<invocations, requests, previews>>

(***************************************************************************)
(* Which providers may serve a request.                                    *)
(***************************************************************************)
\* mutant of timeoutFor: each provider is checked against its own default
MuttimeoutFor(p) == registration[p].default_timeout

timeoutFor(p) == IF job.timeout \in {NoTimeout, 0} THEN registration[p].default_timeout
                 ELSE job.timeout

ProfileAllows(p) ==
    LET g == registration[p]
    IN /\ g.status # "DISABLED"
       /\ g.supervised => request.supervised
       /\ request.unattended => ~g.supervised /\ g.status # "SUPERVISED_ONLY"
       /\ g.schema => request.contract # << >>
       /\ mutates => g.mutation

UnattendedAllows(p) ==
    LET g == registration[p]
    IN /\ g.status = "QUALIFIED" /\ g.unattended /\ ~g.supervised
       /\ request.explicit /\ g.rooted
       /\ mutates => g.mutation /\ g.unattended_mutation
       /\ request.complexity <= g.complexity /\ request.low_risk
       /\ g.verification => request.verification
       /\ request.evidence => g.evidence /\ request.evidence_required
       /\ timeoutFor(p) <= g.max_timeout
       /\ request.isolated /\ ~request.side_effects

\* everything but whether the provider answers its availability probe
Suits(p) == /\ registration[p].active
            /\ request.needs \subseteq registration[p].offers
            /\ ProfileAllows(p)
            /\ request.unattended => UnattendedAllows(p)

provider_selection_key ==
    [p \in Providers |-> <<registration[p].rank, 100 - registration[p].reliability, p>>]

(***************************************************************************)
(* ModelExecutionRouter.execute, up to the first invocation.               *)
(***************************************************************************)
\* A request is made from the queue item.  A refused mutation scope ends it
\* before any provider is looked at.
AcceptRequest ==
    /\ job.at = "idle" /\ call = NoCall /\ requests < MaxRequests
    /\ requests' = requests + 1
    /\ counter' = next_id + 1
    /\ \E r \in Requests :
          job' = [Idle EXCEPT !.id = next_id, !.request = r, !.timeout = r.timeout,
                     !.at = IF ~r.read_only /\ ~r.scope_valid THEN "answered" ELSE "evaluate",
                     !.result = IF ~r.read_only /\ ~r.scope_valid
                                THEN Failed("NON_RETRYABLE") ELSE NoResult]
    /\ UNCHANGED <<executions, call, calls, tree, saved, invocations, previews>>

\* preview evaluates the same request, which takes an id and writes no row
Preview ==
    /\ job.at = "idle" /\ call = NoCall /\ previews < MaxPreviews
    /\ previews' = previews + 1
    /\ counter' = next_id + 1
    /\ UNCHANGED <<executions, call, calls, job, tree, saved, invocations, requests>>

\* The providers are evaluated in the order of their ids.  The first eligible
\* provider of an unattended request without a timeout gives it its own.
EvaluateProvider ==
    /\ job.at = "evaluate" /\ job.asked # Providers
    /\ \E available \in BOOLEAN :
          LET p == Min(Providers \ job.asked)
              eligible == available /\ Suits(p)
          IN job' = [job EXCEPT
                !.asked = @ \cup {p},
                !.eligible = IF eligible THEN @ \cup {p} ELSE @,
                !.timeout = IF eligible /\ request.unattended /\ @ = NoTimeout
                            THEN registration[p].default_timeout ELSE @]
    /\ UNCHANGED <<filesAndRows, counts>>

\* mutant of SelectProvider: the list of eligible providers is taken as it is
MutSelectProvider ==
    /\ job.at = "evaluate" /\ job.asked = Providers
    /\ \E order \in InOrder(job.eligible, provider_selection_key) :
          job' = [job EXCEPT !.at = "invoke", !.place = 1, !.attempt = 1, !.order = order]
    /\ UNCHANGED <<filesAndRows, counts>>

SelectProvider ==
    /\ job.at = "evaluate" /\ job.asked = Providers
    /\ IF job.eligible = {}
       THEN job' = [job EXCEPT !.at = "answered", !.result = Failed("NON_RETRYABLE")]
       ELSE \E order \in InOrder(job.eligible, provider_selection_key) :
               job' = [job EXCEPT !.at = "invoke", !.place = 1, !.attempt = 1,
                                  !.order = order]
    /\ UNCHANGED <<filesAndRows, counts>>

InvokeProvider ==
    /\ job.at = "invoke"
    /\ invocations' = invocations + 1
    /\ job' = [job EXCEPT !.at = "validate", !.called = Append(@, <<provider,
                    IF job.timeout \in {NoTimeout, 0}
                    THEN registration[provider].own_timeout ELSE job.timeout>>)]
    /\ UNCHANGED <<filesAndRows, requests, previews>>

(***************************************************************************)
(* OllamaExecutionProvider.invoke.  A block after the mutation started     *)
(* restores the workspace; one before it, and an unforeseen exception,     *)
(* does not.                                                               *)
(***************************************************************************)
\* mutant of MayMutate: what the workspace already holds is not looked at
MutMayMutate == request.paths # {}

\* the workspace, the authority and the context, before the model is asked
MayMutate == request.paths # {} /\ Changed = {}

\* What the helpers that read data can say of it; {} stands for a refused answer.
mutation_file_context == {"read", "refused"}
read_only_file_context == {"read", "refused"}
parse_model_payload == {"payload", "truncated", "malformed"}
verify_read_only_evidence == {"verified", "refused"}
materialize_compact_edits == SUBSET request.paths

ValidateWorkspace ==
    /\ job.at = "validate"
    /\ \/ Returns(Failed("NON_RETRYABLE"))       \* not an allowed workspace
       \/ ~request.read_only /\ ~MayMutate /\ Returns(Failed("NON_RETRYABLE"))
       \/ \E context \in IF request.read_only THEN read_only_file_context
                          ELSE mutation_file_context :
             /\ ~request.read_only => MayMutate
             /\ IF context = "read" THEN GoTo("model") ELSE Returns(Failed("NON_RETRYABLE"))
    /\ UNCHANGED <<filesAndRows, counts>>

\* no answer in time, or none at all
ModelUnreachable ==
    /\ job.at = "model"
    /\ Returns(Failed("RETRYABLE_OR_FAILOVERABLE"))
    /\ UNCHANGED <<filesAndRows, counts>>

\* An answer.  Read-only work passes with cited evidence that is found and
\* without files; the edits of a mutation are validated as a whole before the
\* first file is written.
ReadOnlyAnswer ==
    \E evidence \in verify_read_only_evidence :
        Returns(IF evidence = "verified" THEN Completed ELSE Failed("NON_RETRYABLE"))

MutationAnswer ==
    \E E \in materialize_compact_edits :
        IF E = {} THEN GoTo("restore") ELSE job' = [job EXCEPT !.at = "write", !.edits = E]

ModelAnswers ==
    /\ job.at = "model"
    /\ \E text \in parse_model_payload :
          CASE text = "truncated" -> Returns(Failed("RETRYABLE_OR_FAILOVERABLE"))
            [] text = "malformed" -> Returns(Failed("NON_RETRYABLE"))
            [] OTHER -> IF request.read_only THEN ReadOnlyAnswer ELSE MutationAnswer
    /\ UNCHANGED <<filesAndRows, counts>>

\* One file, in the order of the answer; a full-file edit may repeat what the file holds.  A failing write
\* is not a block: nothing is restored.
WriteEdit ==
    /\ job.at = "write" /\ job.edits # {}
    /\ \E p \in job.edits :
          \/ /\ tree' \in {tree, [tree EXCEPT ![p] = Written("edit")]}
             /\ job' = [job EXCEPT !.edits = @ \ {p}, !.written = @ \cup {p}]
          \/ /\ tree' \in {tree, [tree EXCEPT ![p] = Written("edit")]}
             /\ Returns(Failed("NON_RETRYABLE"))
    /\ UNCHANGED <<executions, counter, call, calls, saved, counts>>

ScopeHolds == Changed \subseteq request.paths /\ job.written \subseteq Changed

VerifyScope ==
    /\ job.at = "write" /\ job.edits = {}
    /\ \/ ScopeHolds /\ GoTo("accept")
       \/ GoTo("restore")       \* also when git cannot tell
    /\ UNCHANGED <<filesAndRows, counts>>

\* The frozen checks; their commands may leave files behind.
LeftBehind(L) == [p \in Paths |-> IF p \in L THEN Written("command") ELSE tree[p]]

Accept ==
    /\ job.at = "accept"
    /\ tree' \in IF request.checks THEN {LeftBehind(L) : L \in SUBSET Paths} ELSE {tree}
    /\ \/ Returns(Completed)
       \/ request.checks /\ GoTo("restore")
    /\ UNCHANGED <<executions, counter, call, calls, saved, counts>>

RestoreWorkspace ==
    /\ job.at = "restore"
    /\ \/ tree' = [p \in Paths |-> Clean]
       \/ \E kept \in SUBSET Changed :      \* a git command fails on the way
             tree' = [p \in Paths |-> IF p \in kept THEN tree[p] ELSE Clean]
    /\ Returns(Failed("NON_RETRYABLE"))
    /\ UNCHANGED <<executions, counter, call, calls, saved, counts>>

\* an exception of the restore itself leaves the provider, which the router
\* reports as one another attempt may answer
RestoreRaises ==
    /\ job.at = "restore"
    /\ Returns(Failed(IF registration[provider].retry_or_failover
                      THEN "RETRYABLE_OR_FAILOVERABLE" ELSE "NON_RETRYABLE"))
    /\ UNCHANGED <<filesAndRows, counts>>

(***************************************************************************)
(* _enforce_provider_result_contract: the schema contract, file by file,   *)
(* which may add missing structure to a file, then the evidence gate.      *)
(***************************************************************************)
\* what one file's contract can end with; a repair needs its permission
FileVerdicts(file) == {"kept", "issue"} \cup IF file.repair THEN {"repaired"} ELSE {}

EnforceFile ==
    /\ job.at = "enforce" /\ job.result = Completed
    /\ job.contract <= Len(request.contract)
    /\ LET file == request.contract[job.contract]
       IN \E verdict \in FileVerdicts(file) :
             /\ tree' = IF verdict = "repaired"
                        THEN [tree EXCEPT ![file.path] = Written("repair")] ELSE tree
             /\ job' = [job EXCEPT !.contract = @ + 1, !.issues = @ \/ verdict = "issue"]
    /\ UNCHANGED <<executions, counter, call, calls, saved, counts>>

\* what the evidence gate can say of a completed result
quality_issues ==
    IF job.result = Completed /\ ~job.issues /\ (request.evidence \/ request.evidence_required)
    THEN BOOLEAN ELSE {FALSE}

Judge ==
    /\ job.at = "enforce"
    /\ job.result = Completed => job.contract > Len(request.contract)
    /\ \E unsupported \in quality_issues :
          job' = [job EXCEPT !.at = "record", !.contract = 0, !.issues = FALSE,
                    !.result = IF job.issues \/ unsupported THEN Failed("NON_RETRYABLE") ELSE @]
    /\ UNCHANGED <<filesAndRows, counts>>

(***************************************************************************)
(* The attempt is recorded; then the router retries, fails over or answers.*)
(***************************************************************************)
\* mutant of RecordId: only a retry looks for a new row id
MutRecordId == IF job.attempt > 1 THEN next_id ELSE job.id

RecordId == IF job.attempt > 1 \/ job.id \in DOMAIN executions THEN next_id ELSE job.id

retryable == job.result.retry \in {"RETRYABLE", "RETRYABLE_OR_FAILOVERABLE"}
failoverable == job.result.retry \in {"FAILOVERABLE", "RETRYABLE_OR_FAILOVERABLE"}

MayRetry == job.result.status = "FAILED" /\ retryable /\ job.attempt <= max_provider_retries
MayFailOver == /\ job.result.status = "FAILED" /\ failoverable
               /\ job.failovers < max_failovers /\ job.place < Len(job.order)

RecordAttempt ==
    /\ job.at = "record"
    /\ executions' = WithRow(RecordId, [by |-> "router", request |-> job.id,
                        target |-> provider, attempt |-> job.attempt,
                        status |-> job.result.status, retry |-> job.result.retry])
    /\ counter' = IF RecordId = job.id THEN counter ELSE RecordId + 1
    /\ job' = IF MayRetry THEN [job EXCEPT !.at = "invoke", !.attempt = @ + 1]
              ELSE IF MayFailOver
              THEN [job EXCEPT !.at = "invoke", !.attempt = 1, !.place = @ + 1,
                               !.failovers = @ + 1]
              ELSE [job EXCEPT !.at = "answered"]
    /\ UNCHANGED <<call, calls, tree, saved, counts>>

(***************************************************************************)
(* The caller: it takes the answer, commits at the end of its run, or      *)
(* loses the session.  Rows are lost then, and files are not.              *)
(***************************************************************************)
TakeAnswer ==
    /\ job.at = "answered"
    /\ job' = Idle
    /\ UNCHANGED <<filesAndRows, counts>>

SessionCommits ==
    /\ job.at = "idle" /\ call = NoCall
    /\ saved # [executions |-> executions, counter |-> counter]
    /\ saved' = [executions |-> executions, counter |-> counter]
    /\ UNCHANGED <<executions, counter, call, calls, job, tree, counts>>

\* a crash, a failed run, or an exception out of the contract's file access
SessionRollsBack ==
    /\ job.at # "idle" \/ call # NoCall
    /\ executions' = saved.executions /\ counter' = saved.counter
    /\ job' = Idle /\ call' = NoCall
    /\ UNCHANGED <<calls, tree, saved, counts>>

GatewayStep == job.at = "idle" /\ GatewayNext /\ UNCHANGED routerVars

RouterStep ==
    \/ AcceptRequest \/ Preview \/ EvaluateProvider \/ SelectProvider \/ InvokeProvider
    \/ ValidateWorkspace \/ ModelUnreachable \/ ModelAnswers \/ WriteEdit
    \/ VerifyScope \/ Accept \/ RestoreWorkspace \/ RestoreRaises
    \/ EnforceFile \/ Judge \/ RecordAttempt \/ TakeAnswer

RouterNext == RouterStep \/ GatewayStep \/ SessionCommits \/ SessionRollsBack

RouterSpec == RouterInit /\ [][RouterNext]_vars
-----------------------------------------------------------------------------
(***************************************************************************)
(* Properties.                                                             *)
(***************************************************************************)
\* The type invariant: the router's record, the workspace and the rows.
RoutingTypeOK ==
    /\ job \in Job /\ job.eligible \subseteq job.asked /\ job.place \in 0..Len(job.order)
    /\ \A i \in DOMAIN executions : i \in 1..(counter - 1) /\ executions[i] \in Row
    /\ \A p \in Paths : tree[p].by \in 0..invocations
    /\ call # NoCall => call.attempt \in DOMAIN call.targets

\* The answer "completed" for a mutation is about its own work: every file
\* that differs from HEAD then was changed by the very provider call that is
\* reported, inside the frozen scope or as a contract repair or by a check's
\* command (ollama.py invoke: the workspace is clean before the call, and what
\* git shows after it is compared with what was written).  What an earlier
\* attempt, an earlier request or a rolled back session left never passes.
CompletionIsOwnWork ==
    (job.at = "answered" /\ job.result = Completed /\ ~request.read_only) =>
        /\ Changed # {}
        /\ \A p \in Changed :
              /\ tree[p].by = invocations
              /\ tree[p].how = "edit" => p \in request.paths
              /\ tree[p].how = "repair" => \E i \in DOMAIN request.contract :
                    request.contract[i] = [path |-> p, repair |-> TRUE]

\* Every provider call of an unattended request runs under a timeout the
\* profile of that provider allows, also when the timeout came from another
\* provider's profile and the call is a failover (router.py
\* _evaluate_provider, _unattended_ineligibility_reasons).
UnattendedStaysInProfile ==
    (job.at # "idle" /\ request.unattended /\ request.timeout # 0) =>
        \A i \in DOMAIN job.called :
            job.called[i][2] <= registration[job.called[i][1]].max_timeout

\* When the router answers, the table has one row for each provider call it
\* made, no row of it replaces another, and each call after the first answers
\* a failure that allowed it: a retry of the same provider, or a failover to a
\* provider not called before (router.py execute and
\* _record_model_execution_attempt; gateway.py for its own calls).
EveryCallHasItsRow ==
    /\ job.at = "answered" =>
          Cardinality(RowsOf("router", job.id)) = Len(job.called)
    /\ \A i, j \in DOMAIN executions :
          LET a == executions[i]
              b == executions[j]
          IN (a.by = b.by /\ a.request = b.request /\ i < j) =>
                /\ a.status = "FAILED" /\ a.retry # "NON_RETRYABLE"
                /\ a.target # b.target \/ a.attempt < b.attempt
=============================================================================
