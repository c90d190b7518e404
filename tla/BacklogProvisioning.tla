------------------------ MODULE BacklogProvisioning ------------------------
(***************************************************************************)
(* The two provisioners of backlogs (pilots/provisioning.py and            *)
(* pilots/controlled_mutation_provisioning.py) over the task and the plan  *)
(* ledger: a specification becomes, for each of its keys, a task with its  *)
(* contract, a plan, a freeze and a workflow, all of it or nothing.        *)
(*                                                                         *)
(* A command holds the store write lock (persistence/store_lock.py) from   *)
(* before it opens the database until it ends.  It reads the checkouts and *)
(* the rows, then writes in one transaction; a person may change the       *)
(* checkouts, and other callers the ledgers, in between, and the process   *)
(* may be killed.                                                          *)
(***************************************************************************)
EXTENDS PlanLedger

CONSTANTS
    Procs,          \* processes that run a provisioning command
    Nobody,
    Heads,          \* commits of the repository
    firstHead,      \* the one both checkouts are at before the first call
    specs,          \* specifications on disk
    NoSpec

(* policy: the key declares what its kind of backlog requires.             *)
Key ==
    [key : STRING, policy : BOOLEAN, stated : BOOLEAN, criteria : SUBSET Criteria,
     paths : SUBSET Paths, checked : SUBSET Paths, dependencies : SUBSET Nat]

ASSUME ProvisioningAssumption ==
    /\ \A s \in specs :
          /\ s.kind \in {"READ_ONLY", "MUTATION"} /\ s.id \in STRING
          /\ s.repository \in Repositories /\ s.frozen_head \in Heads
          /\ s.keys \in Seq(Key)
    /\ firstHead \in Heads /\ "documentation" \in Targets
    /\ NoSpec \notin specs /\ Nobody \notin Procs

VARIABLES
    workflows,      \* the provisioned PersistentWorkflow rows
    checkout,       \* head and cleanness of the repository and the workspace
    store,          \* the process that holds the store write lock
    prov            \* per process, how far its command is, and with what

provVars == <<workflows, checkout, store, prov>>
vars == <<taskVars, calls, knowledgeVars, planVars, provVars>>

Places == {"repository", "workspace"}
Off == [at |-> "off", spec |-> NoSpec]

Provisioned(kind, id) ==
    {w \in DOMAIN workflows : workflows[w].kind = kind /\ workflows[w].id = id}

-----------------------------------------------------------------------------
(* Checks before the first write *)

DistinctKeys(spec) ==
    \A i, j \in DOMAIN spec.keys : spec.keys[i].key = spec.keys[j].key => i = j

(* _validate_specification of either kind                                  *)
ReadOnlySpecValid(spec) ==
    /\ Len(spec.keys) \in 1..12 /\ DistinctKeys(spec)
    /\ \A i \in DOMAIN spec.keys : spec.keys[i].policy

MutationSpecValid(spec) ==
    /\ spec.keys # <<>> /\ DistinctKeys(spec)
    /\ \A i \in DOMAIN spec.keys :
          spec.keys[i].policy /\ spec.keys[i].criteria # {}

SpecValid(spec) ==
    IF spec.kind = "READ_ONLY" THEN ReadOnlySpecValid(spec) ELSE MutationSpecValid(spec)

(* _reject_duplicate_provisioning: each looks for its own marker only, in  *)
(* the decisions of a workflow or in the items of its backlog.             *)
NotProvisioned(spec) == Provisioned(spec.kind, spec.id) = {}

(* _validate_repository_and_workspace: HEAD of both, status of one.        *)
HeadsFrozen(spec) ==
    \A place \in Places : checkout[place].head = spec.frozen_head

CheckoutsMatch(spec) == HeadsFrozen(spec) /\ checkout["workspace"].clean

(* RepositoryStateService.inspect, strict, in the transaction itself.      *)
Canonical(spec) ==
    /\ checkout["repository"].clean
    /\ checkout["repository"].head = spec.frozen_head

-----------------------------------------------------------------------------
(* The rows of one key *)

ReadOnlyContract(spec, key) ==
    [stated |-> key.stated, criteria |-> key.criteria,
     repositories |-> {spec.repository}, dependencies |-> {},
     documented |-> FALSE, targets |-> {}, authority |-> 0, needs |-> 0,
     writes |-> FALSE]

MutationContract(spec, key) ==
    [stated |-> key.stated, criteria |-> key.criteria,
     repositories |-> {spec.repository}, dependencies |-> key.dependencies,
     documented |-> TRUE, targets |-> {"documentation"}, authority |-> 1,
     needs |-> 1, writes |-> TRUE]

(* create_task, create_or_update_contract and mark_ready of a read-only    *)
(* key; a controlled task is inserted READY and never validated.           *)
ReadOnlyTask(spec, key) == NewTask(0, "READY", ReadOnlyContract(spec, key))
MutationTask(spec, key) == NewTask(1, "READY", MutationContract(spec, key))

TaskOf(spec, key) ==
    IF spec.kind = "READ_ONLY" THEN ReadOnlyTask(spec, key) ELSE MutationTask(spec, key)

(* _default_model_plan: it covers a criterion AC-1, which no contract of   *)
(* the task service has (tasks/service.py:567).                            *)
RuntimeContent ==
    [cites |-> {}, recalls |-> {}, covers |-> {}, verified |-> FALSE, claims |-> {}, files |-> {},
     existing |-> {}, checked |-> {}, orchestrated |-> FALSE, complete |-> FALSE]

MutationContent(key) ==
    [RuntimeContent EXCEPT !.covers = key.criteria, !.files = key.paths,
                           !.checked = key.checked]

(* _validated_paths and _validated_acceptance_checks: every path checked.  *)
PathsCovered(key) == key.paths # {} /\ key.checked = key.paths

(* prepare_workflow_plan makes a PROPOSED plan, the other inserts a READY  *)
(* one; both are the first of their task.                                  *)
ReadOnlyPlan(t) == NewPlan(t, 1, "PROPOSED", RuntimeContent, {})
MutationPlan(t, key) == NewPlan(t, 1, "READY", MutationContent(key), {})

PlanOf(spec, key, t) ==
    IF spec.kind = "READ_ONLY" THEN ReadOnlyPlan(t) ELSE MutationPlan(t, key)

WorkflowOf(spec, key, t, p, f) ==
    [kind |-> spec.kind, id |-> spec.id, key |-> key.key,
     task |-> t, plan |-> p, freeze |-> f]

WithTasks(spec) ==
    tasks \o [i \in DOMAIN spec.keys |-> TaskOf(spec, spec.keys[i])]

(* What has to hold for the transaction to commit: an attachable           *)
(* repository and valid contracts, or a repository no row of the project   *)
(* names yet (uq_repository_project_location) and sound keys.              *)
ReadOnlyCommits(spec) ==
    /\ project = "ACTIVE"
    /\ Canonical(spec)
    /\ \A i \in DOMAIN spec.keys :
          ContractValid(WithTasks(spec), Len(tasks) + i, AttachedWith(spec.repository))
    /\ FreezeSound(RuntimeContent, {})

MutationCommits(spec) ==
    /\ spec.repository \notin attached
    /\ \A i \in DOMAIN spec.keys : PathsCovered(spec.keys[i])

Commits(spec) ==
    IF spec.kind = "READ_ONLY" THEN ReadOnlyCommits(spec) ELSE MutationCommits(spec)

-----------------------------------------------------------------------------
(* The command *)

(* flock of the lock file; one that waits too long exits with nothing done. *)
MutLockFree == TRUE
LockFree == store = Nobody

Begin(p) ==
    /\ Call
    /\ prov[p] = Off /\ LockFree
    /\ store' = p
    /\ \E spec \in specs : prov' = [prov EXCEPT ![p] = [at |-> "begun", spec |-> spec]]
    /\ UNCHANGED <<taskVars, knowledgeVars, planVars, workflows, checkout>>

(* The command ends: the lock is free, by the finally or by the kernel.    *)
Ends(p) ==
    /\ prov' = [prov EXCEPT ![p] = Off]
    /\ store' = Nobody

Check(p) ==
    LET spec == prov[p].spec IN
    /\ prov[p].at = "begun"
    /\ SpecValid(spec) /\ CheckoutsMatch(spec) /\ NotProvisioned(spec)
    /\ prov' = [prov EXCEPT ![p].at = "checked"]
    /\ UNCHANGED <<taskVars, knowledgeVars, planVars, calls, workflows, checkout, store>>

(* One transaction: the project keeps its status, the repository becomes   *)
(* attached, every key gets its rows.                                      *)
Provision(p) ==
    LET spec == prov[p].spec
        T == Len(tasks) P == Len(plans) F == Len(freezes)
        keys == DOMAIN spec.keys
    IN  /\ prov[p].at = "checked"
        /\ Commits(spec)
        /\ attached' = AttachedWith(spec.repository)
        /\ tasks' = WithTasks(spec)
        /\ plans' = plans \o [i \in keys |-> PlanOf(spec, spec.keys[i], T + i)]
        /\ freezes' = freezes \o [i \in keys |-> NewFreeze(P + i, T + i)]
        /\ workflows' = workflows \o
              [i \in keys |-> WorkflowOf(spec, spec.keys[i], T + i, P + i, F + i)]
        /\ Ends(p)
        /\ UNCHANGED <<project, runs, calls, knowledgeVars, checkout>>

(* A failed check, a rolled back transaction or a killed process.          *)
Abandoned(p) ==
    /\ prov[p] # Off
    /\ Ends(p)
    /\ UNCHANGED <<taskVars, knowledgeVars, planVars, calls, workflows, checkout>>

(* A person commits, checks out, edits or cleans.                          *)
EditCheckout ==
    /\ Call
    /\ \E place \in Places, head \in Heads, clean \in BOOLEAN :
          checkout' = [checkout EXCEPT ![place] = [head |-> head, clean |-> clean]]
    /\ UNCHANGED <<taskVars, knowledgeVars, planVars, workflows, store, prov>>

-----------------------------------------------------------------------------
Init ==
    /\ TaskInit /\ KnowledgeInit /\ PlanInit
    /\ workflows = <<>>
    /\ checkout = [place \in Places |-> [head |-> firstHead, clean |-> TRUE]]
    /\ store = Nobody
    /\ prov = [p \in Procs |-> Off]

Next ==
    \/ TaskStep /\ UNCHANGED <<knowledgeVars, planVars, provVars>>
    \/ KnowledgeStep /\ UNCHANGED <<planVars, provVars>>
    \/ PlanStep /\ UNCHANGED provVars
    \/ \E p \in Procs : Begin(p) \/ Check(p) \/ Provision(p) \/ Abandoned(p)
    \/ EditCheckout

Spec == Init /\ [][Next]_vars

-----------------------------------------------------------------------------
(* ProvisionedWholeAndOnce: whatever fails, dies or runs beside it         *)
(* (pilots/provisioning.py:50, controlled_mutation_provisioning.py:59), an *)
(* identifier of a kind has no workflow or exactly those of one            *)
(* specification, one for each key, and each has a task, a plan of that    *)
(* task and a freeze of that plan which no other workflow has.             *)
WholeSpec(kind, id) ==
    LET W == Provisioned(kind, id) IN
    W # {} =>
        \E spec \in specs :
            /\ spec.kind = kind /\ spec.id = id
            /\ Cardinality(W) = Len(spec.keys)
            /\ {workflows[w].key : w \in W} = {spec.keys[i].key : i \in DOMAIN spec.keys}

OwnRows(w) ==
    LET row == workflows[w] IN
    /\ row.task \in DOMAIN tasks
    /\ row.plan \in DOMAIN plans /\ plans[row.plan].task = row.task
    /\ row.freeze \in DOMAIN freezes
    /\ freezes[row.freeze] = NewFreeze(row.plan, row.task)
    /\ \A v \in DOMAIN workflows : workflows[v].task = row.task => v = w

ProvisionedWholeAndOnce ==
    /\ \A w \in DOMAIN workflows :
          WholeSpec(workflows[w].kind, workflows[w].id) /\ OwnRows(w)
=============================================================================
