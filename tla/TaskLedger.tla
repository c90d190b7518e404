----------------------------- MODULE TaskLedger -----------------------------
(***************************************************************************)
(* Tasks, their contracts and their runs (tasks/service.py and policy.py), *)
(* with the status and the attached repositories of their project          *)
(* (projects/service.py).                                                  *)
(*                                                                         *)
(* One step is one call of a service in a session of its own.  A call that *)
(* the service refuses changes nothing and has no action; mark_ready, whose *)
(* refusal blocks the task, is the exception.                              *)
(***************************************************************************)
EXTENDS Naturals, Sequences, FiniteSets, FiniteSetsExt

CONSTANTS
    Repositories,       \* locations of repositories
    Criteria,           \* acceptance criteria
    Targets,            \* what documentation may be asked for
    firstLedgers,       \* tasks and runs that earlier calls have left
    contracts,          \* what callers write as the contract of a task
    completions,        \* what callers record as documentation completed
    authorities,        \* ranks 0..3 of the tasks that are created
    NoContract, NoCompletion,
    MaxTasks,           \* bound: number of tasks
    MaxCalls            \* bound: number of calls

Contract ==
    [stated : BOOLEAN, criteria : SUBSET Criteria, repositories : SUBSET Repositories,
     dependencies : SUBSET Nat, documented : BOOLEAN, targets : SUBSET Targets,
     authority : 0..3, needs : 0..3, writes : BOOLEAN]

TaskStatus ==
    {"DRAFT", "READY", "RUNNING", "BLOCKED", "FAILED", "IMPLEMENTATION_COMPLETE",
     "DOCUMENTATION_PENDING", "COMPLETE", "CANCELLED"}
Worked == {"RUNNING", "IMPLEMENTATION_COMPLETE", "DOCUMENTATION_PENDING", "COMPLETE"}

Task ==
    [status : TaskStatus, authority : 0..3, contract : Contract \cup {NoContract},
     completion : completions \cup {NoCompletion}, validated : SUBSET Nat]
TaskRun == [task : Nat, status : {"RUNNING", "SUCCEEDED", "FAILED"}]

(* The dependencies found COMPLETE are so, and who worked has a run.       *)
Backed(ts, rs) ==
    \A t \in DOMAIN ts :
        /\ \A d \in ts[t].validated : d \in DOMAIN ts /\ ts[d].status = "COMPLETE"
        /\ ts[t].status \in Worked => \E r \in DOMAIN rs : rs[r].task = t

ASSUME LedgerAssumption ==
    \A ledger \in firstLedgers :
        /\ ledger.tasks \in Seq(Task) /\ ledger.runs \in Seq(TaskRun)
        /\ Backed(ledger.tasks, ledger.runs)

ASSUME TaskAssumption ==
    /\ contracts \subseteq Contract /\ NoContract \notin Contract
    /\ authorities \subseteq 0..3
    /\ {MaxTasks, MaxCalls} \subseteq Nat

VARIABLES
    project,        \* the status of the project
    attached,       \* the repositories attached to it
    tasks,          \* the tasks in the order of their ids
    runs,           \* the task runs, likewise
    calls           \* number of calls so far

taskVars == <<project, attached, tasks, runs>>

Call == calls < MaxCalls /\ calls' = calls + 1

(* A task as it is created.  validated is a history: the dependencies that *)
(* the last successful mark_ready found COMPLETE.                          *)
NewTask(authority, status, contract) ==
    [status |-> status, authority |-> authority, contract |-> contract,
     completion |-> NoCompletion, validated |-> {}]

-----------------------------------------------------------------------------
(* validate_contract and the authority policy *)

AuthorityCovers(authority, contract) ==
    /\ contract.authority <= authority
    /\ contract.needs <= contract.authority /\ contract.needs <= authority

(* ts is the ledger the task t is looked up in, here and below.            *)
DependencyMet(ts, t, d) ==
    /\ d # t /\ d \in DOMAIN ts
    /\ ts[d].contract # NoContract => t \notin ts[d].contract.dependencies
    /\ ts[d].status = "COMPLETE"

ContractValid(ts, t, repositories) ==
    LET contract == ts[t].contract IN
    /\ project = "ACTIVE"
    /\ contract # NoContract
    /\ contract.stated /\ contract.criteria # {}
    /\ contract.documented => contract.targets # {}
    /\ contract.repositories \subseteq repositories
    /\ \A d \in contract.dependencies : DependencyMet(ts, t, d)
    /\ AuthorityCovers(ts[t].authority, contract)

(* complete_task: the documentation the contract asks for is recorded.     *)
Documented(task) ==
    (task.contract # NoContract /\ task.contract.documented) =>
        /\ task.status = "DOCUMENTATION_PENDING"
        /\ task.completion # NoCompletion
        /\ task.completion.evidence
        /\ task.contract.targets \subseteq task.completion.targets

-----------------------------------------------------------------------------
(* The states a call may leave; none of them is COMPLETE or CANCELLED.     *)

ReadyFrom == {"DRAFT", "BLOCKED", "FAILED"}
BlockFrom == {"DRAFT", "READY", "RUNNING", "BLOCKED"}
MutFailFrom == {"RUNNING", "BLOCKED", "READY", "COMPLETE"}
FailFrom == {"RUNNING", "BLOCKED", "READY"}
CancelFrom == {"DRAFT", "READY", "RUNNING", "BLOCKED"}

Moves(t, from, status) ==
    /\ Call
    /\ tasks[t].status \in from
    /\ tasks' = [tasks EXCEPT ![t].status = status]

(* Callers may name any run, also of another task, or none (0).            *)
RunEnds(r, status) ==
    runs' = IF r = 0 THEN runs ELSE [runs EXCEPT ![r].status = status]

(* A location that has a row in the project keeps that row.                *)
AttachedWith(repository) == attached \cup {repository}

-----------------------------------------------------------------------------
(* TaskService *)

CreateTask ==
    /\ Call /\ Len(tasks) < MaxTasks
    /\ project = "ACTIVE"
    /\ \E a \in authorities : tasks' = Append(tasks, NewTask(a, "DRAFT", NoContract))
    /\ UNCHANGED <<project, attached, runs>>

(* The contract is rewritten in place, whatever the status of the task.    *)
WriteContract(t) ==
    /\ Call
    /\ \E c \in contracts : tasks' = [tasks EXCEPT ![t].contract = c]
    /\ UNCHANGED <<project, attached, runs>>

MarkReady(t) ==
    /\ Call
    /\ tasks[t].status \in ReadyFrom
    /\ IF ContractValid(tasks, t, attached)
       THEN tasks' = [tasks EXCEPT ![t].status = "READY",
                                   ![t].validated = tasks[t].contract.dependencies]
       ELSE tasks' = [tasks EXCEPT ![t].status = "BLOCKED"]
    /\ UNCHANGED <<project, attached, runs>>

(* The contract and its dependencies are not looked at again.              *)
StartRun(t) ==
    /\ Moves(t, {"READY"}, "RUNNING")
    /\ runs' = Append(runs, [task |-> t, status |-> "RUNNING"])
    /\ UNCHANGED <<project, attached>>

(* A run of the task stays RUNNING.                                        *)
BlockTask(t) ==
    /\ Moves(t, BlockFrom, "BLOCKED")
    /\ UNCHANGED <<project, attached, runs>>

FailTask(t, r) ==
    /\ Moves(t, FailFrom, "FAILED")
    /\ RunEnds(r, "FAILED")
    /\ UNCHANGED <<project, attached>>

ImplementationComplete(t, r) ==
    /\ Moves(t, {"RUNNING"}, "IMPLEMENTATION_COMPLETE")
    /\ RunEnds(r, "SUCCEEDED")
    /\ UNCHANGED <<project, attached>>

DocumentationPending(t) ==
    /\ Moves(t, {"IMPLEMENTATION_COMPLETE"}, "DOCUMENTATION_PENDING")
    /\ UNCHANGED <<project, attached, runs>>

RecordDocumentation(t) ==
    /\ Call
    /\ \E c \in completions : tasks' = [tasks EXCEPT ![t].completion = c]
    /\ UNCHANGED <<project, attached, runs>>

CompleteTask(t) ==
    /\ Documented(tasks[t])
    /\ Moves(t, {"IMPLEMENTATION_COMPLETE", "DOCUMENTATION_PENDING"}, "COMPLETE")
    /\ UNCHANGED <<project, attached, runs>>

CancelTask(t) ==
    /\ Moves(t, CancelFrom, "CANCELLED")
    /\ UNCHANGED <<project, attached, runs>>

-----------------------------------------------------------------------------
(* ProjectRegistryService *)

(* pause_project, activate_project, archive_project: from any status.      *)
MoveProject ==
    /\ Call
    /\ \E status \in {"PAUSED", "ACTIVE", "ARCHIVED"} \ {project} : project' = status
    /\ UNCHANGED <<attached, tasks, runs>>

AttachRepository ==
    /\ Call
    /\ project = "ACTIVE"
    /\ \E r \in Repositories \ attached : attached' = AttachedWith(r)
    /\ UNCHANGED <<project, tasks, runs>>

-----------------------------------------------------------------------------
TaskInit ==
    /\ project = "ACTIVE" /\ attached = {}
    /\ \E ledger \in firstLedgers : tasks = ledger.tasks /\ runs = ledger.runs
    /\ calls = 0

TaskStep ==
    \/ CreateTask
    \/ \E t \in DOMAIN tasks :
          \/ WriteContract(t) \/ MarkReady(t) \/ StartRun(t) \/ BlockTask(t)
          \/ DocumentationPending(t) \/ RecordDocumentation(t)
          \/ CompleteTask(t) \/ CancelTask(t)
          \/ \E r \in {0} \cup DOMAIN runs :
                FailTask(t, r) \/ ImplementationComplete(t, r)
    \/ MoveProject \/ AttachRepository

-----------------------------------------------------------------------------
(* WorkIsBacked: what mark_ready found COMPLETE when it made a task READY  *)
(* is COMPLETE ever after, since start_run (tasks/service.py:239) does not *)
(* look again, and a task that is being worked on or was finished has a    *)
(* run that says by whom.                                                  *)
WorkIsBacked == Backed(tasks, runs)
=============================================================================
