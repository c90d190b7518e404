----------------------------- MODULE PlanLedger -----------------------------
(***************************************************************************)
(* Engineering plans of tasks and their freezes: the planner               *)
(* (planning/service.py, context.py, validation.py, persistence.py) and    *)
(* the plan freeze (pilots/freeze.py with hardening.py, claim_policy.py).  *)
(* Planning is shown memories, which it may find in conflict with the      *)
(* repository.                                                             *)
(*                                                                         *)
(* A proposal is what the planning model answers, with the files it names  *)
(* as planning has classified them.  A plan that needs more authority than *)
(* its contract gives is recorded with a blocker that nothing reads again, *)
(* so it is a plan like any other here.                                    *)
(***************************************************************************)
EXTENDS KnowledgeLedger

CONSTANTS
    Paths,          \* repository paths
    manifest,       \* those in the snapshot
    proposals,      \* what the planning model answers
    MaxPlans        \* bound: number of plans

Proposal ==
    [cites : SUBSET Evidence,       \* evidence its steps and coverage name
     recalls : SUBSET Nat,          \* memories its steps name
     covers : SUBSET Criteria,      \* criteria it covers
     verified : BOOLEAN,            \* it calls an assumption verified
     claims : SUBSET Evidence,      \* evidence of its verified risks
     files : SUBSET Paths,          \* affected files
     existing : SUBSET Paths,       \* those it calls existing
     checked : SUBSET Paths,        \* files its acceptance checks read
     orchestrated : BOOLEAN,        \* it requires an orchestration contract
     complete : BOOLEAN]            \* that contract and its probes are complete

ASSUME PlanAssumption ==
    /\ proposals \subseteq Proposal /\ manifest \subseteq Paths
    /\ MaxPlans \in Nat

VARIABLES
    plans,          \* the EngineeringPlan rows in the order of their ids
    freezes         \* the PlanFreeze rows, likewise

planVars == <<plans, freezes>>

NoPlan == 0

PlansOf(t) == {p \in DOMAIN plans : plans[p].task = t}

MutNextVersion(t) ==
    1 + Cardinality({p \in PlansOf(t) : plans[p].status = "PROPOSED"})
NextVersion(t) == 1 + Max({0} \cup {plans[p].version : p \in PlansOf(t)})

(* memories: what planning was shown, as its audit event says.             *)
NewPlan(t, version, status, content, shown) ==
    [task |-> t, version |-> version, status |-> status, content |-> content,
     memories |-> shown,
     supersedes |-> NoPlan, supersededBy |-> NoPlan]

NewFreeze(p, t) == [plan |-> p, task |-> t]

-----------------------------------------------------------------------------
(* Planning *)

(* retrieve_memory for a project, then _memory_allowed, in the order of    *)
(* _memory_sort_key, cut off where the budget ends.                        *)
Retrievable(m) ==
    LET seen == memories[m].seen IN
    /\ memories[m].status \notin {"SUPERSEDED", "DEPRECATED", "CONTRADICTED"}
    /\ \/ seen.project = This
       \/ seen.project = NoProject /\ seen.scope \in {"DFG", "DOMAIN", "GLOBAL"}

MemoryAllowed(m, candidates_too) ==
    /\ memories[m].seen.project \in {This, NoProject}
    /\ memories[m].seen.scope = "CLIENT" => memories[m].seen.project = This
    /\ \/ memories[m].status = "VALIDATED"
       \/ candidates_too /\ memories[m].status \in {"CANDIDATE", "OBSERVED"}

Usable(candidates_too) ==
    {m \in DOMAIN memories : Retrievable(m) /\ MemoryAllowed(m, candidates_too)}

ScopeRank(scope) ==
    CASE scope = "PROJECT" -> 0 [] scope = "DFG" -> 1 [] scope = "DOMAIN" -> 2
      [] scope = "GLOBAL" -> 3 [] OTHER -> 9

SortsBefore(m, n) ==
    LET key(k) == 4 * ScopeRank(memories[k].seen.scope)
                  + (IF memories[k].status = "VALIDATED" THEN 0 ELSE 2)
                  + (IF memories[k].flagged THEN 1 ELSE 0)
    IN  key(m) < key(n) \/ (key(m) = key(n) /\ m < n)

WithinBudget(usable) ==
    {shown \in SUBSET usable :
        \A m \in shown, n \in usable : SortsBefore(n, m) => n \in shown}

(* A memory conflicts with what evidence says.                             *)
Conflicts(shown, evidence) == SUBSET (IF evidence = {} THEN {} ELSE shown)

(* PlanningContextBuilder._preflight                                       *)
Preflight(t, snapshots) ==
    LET contract == tasks[t].contract IN
    /\ project = "ACTIVE"
    /\ tasks[t].status \in {"READY", "RUNNING", "BLOCKED"}
    /\ contract # NoContract
    /\ contract.criteria # {}
    /\ contract.repositories # {} => snapshots

EvidencePrecondition(t, snapshots, evidence) ==
    tasks[t].contract.writes /\ snapshots => evidence # {}

CoverageComplete(x, t) == tasks[t].contract.criteria \subseteq x.covers

ChecksAuthorized(x) == x.checked \subseteq x.files

(* validate_and_enrich_plan without its risk and authority floors, which   *)
(* only raise numbers in the plan.                                         *)
Acceptable(x, t, context) ==
    /\ x.cites \subseteq context.evidence
    /\ x.recalls \subseteq context.shown
    /\ CoverageComplete(x, t)
    /\ ~x.verified
    /\ ChecksAuthorized(x)

(* What build may give the planner.                                        *)
Contexts(t, candidates_too) ==
    {context \in [snapshots : BOOLEAN, evidence : SUBSET Evidence,
                  shown : WithinBudget(Usable(candidates_too)),
                  conflicts : SUBSET DOMAIN memories] :
        /\ Preflight(t, context.snapshots)
        /\ context.conflicts \in Conflicts(context.shown, context.evidence)}

(* The plan rows that may come of a context; a call that is blocked after  *)
(* it, or whose model request fails, writes none.                          *)
Planned(t, context) ==
    {NewPlan(t, NextVersion(t), "PROPOSED", x, context.shown) :
        x \in {y \in proposals :
                 /\ EvidencePrecondition(t, context.snapshots, context.evidence)
                 /\ Acceptable(y, t, context)}}

(* The conflicting memories, of a call that makes a plan or is blocked.    *)
Revalidated(conflicts) ==
    memories' = [m \in DOMAIN memories |->
                    [memories[m] EXCEPT !.flagged = @ \/ m \in conflicts]]

BlockedPlanning(t) ==
    /\ Call
    /\ \E candidates_too \in BOOLEAN : \E context \in Contexts(t, candidates_too) :
          context.conflicts # {} /\ Revalidated(context.conflicts)
    /\ UNCHANGED <<taskVars, candidates, planVars>>

CreatePlan(t) ==
    /\ Call /\ Len(plans) < MaxPlans
    /\ \E candidates_too \in BOOLEAN : \E context \in Contexts(t, candidates_too) :
          /\ \E plan \in Planned(t, context) : plans' = Append(plans, plan)
          /\ Revalidated(context.conflicts)
    /\ UNCHANGED <<taskVars, candidates, freezes>>

(* Any plan may be planned again, also one REJECTED or SUPERSEDED before:  *)
(* its links are overwritten.  Candidate memories are never shown here.    *)
Replan(p) ==
    LET t == plans[p].task
        new == Len(plans) + 1
    IN  /\ Call /\ Len(plans) < MaxPlans
        /\ \E context \in Contexts(t, FALSE) :
              /\ \E plan \in Planned(t, context) :
                    plans' = Append([plans EXCEPT ![p].status = "SUPERSEDED",
                                                  ![p].supersededBy = new],
                                    [plan EXCEPT !.supersedes = p])
              /\ Revalidated(context.conflicts)
        /\ UNCHANGED <<taskVars, candidates, freezes>>

RejectPlan(p) ==
    /\ Call
    /\ plans' = [plans EXCEPT ![p].status = "REJECTED"]
    /\ UNCHANGED <<taskVars, knowledgeVars, freezes>>

-----------------------------------------------------------------------------
(* Freezing *)

(* Verified claims need evidence that is current when the plan is frozen.  *)
ClaimsSupported(x, current) == x.claims \subseteq current

FilesAsClaimed(x) == x.existing \subseteq manifest

OrchestrationComplete(x) == x.orchestrated => x.complete

FreezeSound(x, current) ==
    /\ ChecksAuthorized(x)
    /\ ClaimsSupported(x, current)
    /\ FilesAsClaimed(x)
    /\ OrchestrationComplete(x)

(* The status of the plan and the contract it was made for are not looked  *)
(* at.  A plan that is frozen already keeps its one freeze.                *)
FreezePlan(p) ==
    /\ Call
    /\ \A f \in DOMAIN freezes : freezes[f].plan # p
    /\ \E current \in SUBSET Evidence : FreezeSound(plans[p].content, current)
    /\ freezes' = Append(freezes, NewFreeze(p, plans[p].task))
    /\ UNCHANGED <<taskVars, knowledgeVars, plans>>

-----------------------------------------------------------------------------
PlanInit == plans = <<>> /\ freezes = <<>>

PlanStep ==
    \/ \E t \in DOMAIN tasks : CreatePlan(t) \/ BlockedPlanning(t)
    \/ \E p \in DOMAIN plans : Replan(p) \/ RejectPlan(p) \/ FreezePlan(p)

-----------------------------------------------------------------------------
(* LineageIsForward: the links that replan writes on two rows              *)
(* (planning/service.py:209-214) lead from a plan to a later one of the    *)
(* same task and back, though plans are rejected and planned again in any  *)
(* order, where a link is overwritten; the newest plan of a task is never  *)
(* SUPERSEDED; and a version names one plan of its task, which no          *)
(* constraint of the table enforces.                                       *)
PlanLink(p) ==
    LET plan == plans[p] IN
    /\ plan.status = "SUPERSEDED" => plan.supersededBy # NoPlan
    /\ plan.supersededBy # NoPlan =>
          /\ plan.supersededBy \in DOMAIN plans /\ plan.supersededBy > p
          /\ plans[plan.supersededBy].supersedes = p
    /\ plan.supersedes # NoPlan =>
          /\ plan.supersedes \in 1..(p - 1)
          /\ plans[plan.supersedes].task = plan.task
          /\ plans[plan.supersedes].supersededBy >= p

VersionsRise ==
    \A p, q \in DOMAIN plans :
        plans[p].task = plans[q].task /\ p < q => plans[p].version < plans[q].version

LineageIsForward == VersionsRise /\ \A p \in DOMAIN plans : PlanLink(p)

(* ClientKnowledgeStays: no plan was made with a memory of a client, nor   *)
(* with one promoted from a client's candidate (learning/service.py:174),  *)
(* whatever was validated, sanitized and promoted before: the firewall     *)
(* stands where the candidate is made, the scope where it is shown.        *)
ClientKnowledgeStays ==
    \A p \in DOMAIN plans : \A m \in plans[p].memories :
        /\ memories[m].seen.project \notin Clients
        /\ memories[m].lesson # 0 =>
              candidates[memories[m].lesson].lesson.project \notin Clients
=============================================================================
