--------------------- MODULE BacklogProvisioning_proofs ---------------------
(***************************************************************************)
(* What holds of the ledgers and of provisioning for every value of the    *)
(* constants: any number of tasks, plans, memories and processes, whatever *)
(* callers write.                                                          *)
(***************************************************************************)
EXTENDS BacklogProvisioning, FiniteSetTheorems, WellFoundedInduction, TLAPS

-----------------------------------------------------------------------------
(* Tasks and their runs.  A call rewrites one row, or appends rows.        *)

CommandsHaveSpecs ==
    /\ prov \in [Procs -> [at : {"off", "begun", "checked"}, spec : specs \cup {NoSpec}]]
    /\ \A p \in Procs : prov[p].at # "off" => prov[p].spec \in specs

LedgerInv ==
    /\ tasks \in Seq(Task)
    /\ runs \in Seq(TaskRun)
    /\ CommandsHaveSpecs
    /\ WorkIsBacked

(* Runs are never removed and never change their task.                     *)
RunsKept ==
    /\ runs' \in Seq(TaskRun)
    /\ \A r \in DOMAIN runs : r \in DOMAIN runs' /\ runs'[r].task = runs[r].task

(* What a call may make of the row of a task.                              *)
Rewrites(t, row) ==
    /\ row \in Task
    /\ tasks' = [tasks EXCEPT ![t] = row]
    /\ tasks[t].status = "COMPLETE" => row.status = "COMPLETE"
    /\ \A d \in row.validated :
          \/ d \in tasks[t].validated
          \/ d # t /\ d \in DOMAIN tasks /\ tasks[d].status = "COMPLETE"
    /\ row.status \in Worked =>
          \/ tasks[t].status \in Worked
          \/ \E r \in DOMAIN runs' : runs'[r].task = t

(* A row rewritten so leaves the ledger well-typed and backed.             *)
LEMMA RewritingKeepsBacked ==
    ASSUME LedgerInv, RunsKept, NEW t \in DOMAIN tasks, NEW row, Rewrites(t, row)
    PROVE  tasks' \in Seq(Task) /\ WorkIsBacked'
<1>1. tasks' \in Seq(Task) /\ DOMAIN tasks' = DOMAIN tasks
  BY DEF LedgerInv, Rewrites
<1>2. \A u \in DOMAIN tasks : tasks'[u] = IF u = t THEN row ELSE tasks[u]
  BY DEF LedgerInv, Rewrites
<1>3. \A d \in DOMAIN tasks : tasks[d].status = "COMPLETE" => tasks'[d].status = "COMPLETE"
  BY <1>2 DEF Rewrites
<1>4. ASSUME NEW u \in DOMAIN tasks, NEW d \in tasks'[u].validated
      PROVE  d \in DOMAIN tasks /\ tasks'[d].status = "COMPLETE"
  BY <1>2, <1>3 DEF LedgerInv, WorkIsBacked, Backed, Rewrites
<1>5. ASSUME NEW u \in DOMAIN tasks, tasks'[u].status \in Worked
      PROVE  \E r \in DOMAIN runs' : runs'[r].task = u
  <2>1. tasks[u].status \in Worked \/ \E r \in DOMAIN runs' : runs'[r].task = u
    BY <1>2, <1>5 DEF Rewrites
  <2>2. tasks[u].status \in Worked => \E r \in DOMAIN runs : runs[r].task = u
    BY DEF LedgerInv, WorkIsBacked, Backed
  <2> QED BY <2>1, <2>2 DEF RunsKept
<1> QED BY <1>1, <1>4, <1>5 DEF WorkIsBacked, Backed

(* So does appending rows of tasks nobody has worked on.                   *)
LEMMA AppendingKeepsBacked ==
    ASSUME LedgerInv, RunsKept, NEW new \in Seq(Task), tasks' = tasks \o new,
           \A i \in DOMAIN new : new[i].status \notin Worked /\ new[i].validated = {}
    PROVE  tasks' \in Seq(Task) /\ WorkIsBacked'
<1>1. tasks' \in Seq(Task) /\ Len(tasks') = Len(tasks) + Len(new)
  BY DEF LedgerInv
<1>2. /\ DOMAIN tasks = 1..Len(tasks) /\ DOMAIN new = 1..Len(new)
      /\ DOMAIN tasks' = 1..Len(tasks')
      /\ Len(tasks) \in Nat /\ Len(new) \in Nat
  BY <1>1 DEF LedgerInv
<1>3. \A u \in DOMAIN tasks : u \in DOMAIN tasks' /\ tasks'[u] = tasks[u]
  BY <1>1, <1>2 DEF LedgerInv
<1>4. \A u \in DOMAIN tasks' : u \notin DOMAIN tasks =>
          tasks'[u].status \notin Worked /\ tasks'[u].validated = {}
  <2> SUFFICES ASSUME NEW u \in DOMAIN tasks', u \notin DOMAIN tasks
               PROVE  tasks'[u].status \notin Worked /\ tasks'[u].validated = {}
    OBVIOUS
  <2>1. u - Len(tasks) \in DOMAIN new /\ tasks'[u] = new[u - Len(tasks)]
    BY <1>1, <1>2 DEF LedgerInv
  <2> QED BY <2>1
<1>5. ASSUME NEW u \in DOMAIN tasks', NEW d \in tasks'[u].validated
      PROVE  d \in DOMAIN tasks' /\ tasks'[d].status = "COMPLETE"
  <2>1. u \in DOMAIN tasks /\ d \in tasks[u].validated
    BY <1>3, <1>4
  <2>2. d \in DOMAIN tasks /\ tasks[d].status = "COMPLETE"
    BY <2>1 DEF LedgerInv, WorkIsBacked, Backed
  <2> QED BY <2>2, <1>3
<1>6. ASSUME NEW u \in DOMAIN tasks', tasks'[u].status \in Worked
      PROVE  \E r \in DOMAIN runs' : runs'[r].task = u
  <2>1. u \in DOMAIN tasks /\ tasks[u].status \in Worked
    BY <1>3, <1>4, <1>6
  <2>2. \E r \in DOMAIN runs : runs[r].task = u
    BY <2>1 DEF LedgerInv, WorkIsBacked, Backed
  <2> QED BY <2>2 DEF RunsKept
<1> QED BY <1>1, <1>5, <1>6 DEF WorkIsBacked, Backed

(* A call that moves a task to another status, and does to the runs what   *)
(* the services do, leaves the ledger well-typed and backed.               *)
LEMMA MovingKeepsBacked ==
    ASSUME LedgerInv, RunsKept, NEW t \in DOMAIN tasks, NEW from, NEW status \in TaskStatus,
           Moves(t, from, status),
           "COMPLETE" \notin from,
           status \in Worked =>
               \/ from \subseteq Worked
               \/ \E r \in DOMAIN runs' : runs'[r].task = t
    PROVE  tasks' \in Seq(Task) /\ WorkIsBacked'
<1> DEFINE row == [tasks[t] EXCEPT !.status = status]
<1>1. tasks[t] \in Task
  BY DEF LedgerInv
<1>2. row \in Task
  BY <1>1 DEF Task
<1>3. row.status = status /\ row.validated = tasks[t].validated
  BY <1>1 DEF Task
<1>4. tasks' = [tasks EXCEPT ![t] = row]
  BY DEF Moves
<1>5. tasks[t].status \in from
  BY DEF Moves
<1> HIDE DEF row
<1>6. Rewrites(t, row)
  BY <1>2, <1>3, <1>4, <1>5 DEF Rewrites
<1> QED BY <1>6, RewritingKeepsBacked

(* What a call does to a run it names leaves every run with its task.      *)
LEMMA EndingKeepsRuns ==
    ASSUME LedgerInv, NEW r \in {0} \cup DOMAIN runs, NEW status \in {"SUCCEEDED", "FAILED"},
           RunEnds(r, status)
    PROVE  RunsKept
<1>1. CASE r = 0
  BY <1>1 DEF LedgerInv, RunEnds, RunsKept
<1>2. CASE r # 0
  <2>1. r \in DOMAIN runs /\ runs[r] \in TaskRun
    BY <1>2 DEF LedgerInv
  <2>2. [runs[r] EXCEPT !.status = status] \in TaskRun
    BY <2>1 DEF TaskRun
  <2>3. runs' = [runs EXCEPT ![r] = [runs[r] EXCEPT !.status = status]]
    BY <1>2 DEF RunEnds
  <2>4. [runs[r] EXCEPT !.status = status].task = runs[r].task
    BY <2>1 DEF TaskRun
  <2> QED BY <2>1, <2>2, <2>3, <2>4 DEF LedgerInv, RunsKept
<1> QED BY <1>1, <1>2

LEMMA StillRuns == ASSUME LedgerInv, UNCHANGED runs PROVE RunsKept
BY DEF LedgerInv, RunsKept

(* Every call of the task and the project service.                         *)
LEMMA TaskStepKeepsBacked ==
    ASSUME LedgerInv, TaskStep
    PROVE  tasks' \in Seq(Task) /\ runs' \in Seq(TaskRun) /\ WorkIsBacked'
<1> USE TaskAssumption
<1>1. CASE CreateTask
  <2>1. PICK a \in authorities : tasks' = Append(tasks, NewTask(a, "DRAFT", NoContract))
    BY <1>1 DEF CreateTask
  <2> DEFINE new == <<NewTask(a, "DRAFT", NoContract)>>
  <2>2. NewTask(a, "DRAFT", NoContract) \in Task
    BY DEF NewTask, Task, TaskStatus
  <2>3. new \in Seq(Task) /\ tasks' = tasks \o new
    BY <2>1, <2>2 DEF LedgerInv
  <2>4. \A i \in DOMAIN new : new[i].status \notin Worked /\ new[i].validated = {}
    BY DEF NewTask, Worked
  <2>5. RunsKept
    BY <1>1, StillRuns DEF CreateTask
  <2> HIDE DEF new
  <2> QED BY <2>3, <2>4, <2>5, AppendingKeepsBacked DEF RunsKept
<1>2. ASSUME NEW t \in DOMAIN tasks, WriteContract(t) \/ RecordDocumentation(t)
      PROVE  tasks' \in Seq(Task) /\ runs' \in Seq(TaskRun) /\ WorkIsBacked'
  <2>1. tasks[t] \in Task
    BY DEF LedgerInv
  <2>2. PICK row : /\ row \in Task
                   /\ tasks' = [tasks EXCEPT ![t] = row]
                   /\ row.status = tasks[t].status /\ row.validated = tasks[t].validated
    <3>1. CASE WriteContract(t)
      <4>1. PICK c \in contracts : tasks' = [tasks EXCEPT ![t].contract = c]
        BY <3>1 DEF WriteContract
      <4> WITNESS [tasks[t] EXCEPT !.contract = c]
      <4> QED BY <2>1, <4>1 DEF Task
    <3>2. CASE RecordDocumentation(t)
      <4>1. PICK c \in completions : tasks' = [tasks EXCEPT ![t].completion = c]
        BY <3>2 DEF RecordDocumentation
      <4> WITNESS [tasks[t] EXCEPT !.completion = c]
      <4> QED BY <2>1, <4>1 DEF Task
    <3> QED BY <1>2, <3>1, <3>2
  <2>3. RunsKept
    BY <1>2, StillRuns DEF WriteContract, RecordDocumentation
  <2>4. Rewrites(t, row)
    BY <2>2 DEF Rewrites
  <2> QED BY <2>3, <2>4, RewritingKeepsBacked DEF RunsKept
<1>3. ASSUME NEW t \in DOMAIN tasks, MarkReady(t)
      PROVE  tasks' \in Seq(Task) /\ runs' \in Seq(TaskRun) /\ WorkIsBacked'
  <2>1. tasks[t] \in Task /\ tasks[t].status \in ReadyFrom
    BY <1>3 DEF LedgerInv, MarkReady
  <2>2. RunsKept
    BY <1>3, StillRuns DEF MarkReady
  <2>3. CASE ContractValid(tasks, t, attached)
    <3> DEFINE contract == tasks[t].contract
               row == [tasks[t] EXCEPT !.status = "READY", !.validated = contract.dependencies]
    <3>1. contract \in Contract
      BY <2>1, <2>3 DEF ContractValid, Task
    <3>2. contract.dependencies \subseteq Nat
      BY <3>1 DEF Contract
    <3>3. row \in Task /\ row.status = "READY" /\ row.validated = contract.dependencies
      BY <2>1, <3>2 DEF Task, TaskStatus
    <3>4. tasks' = [tasks EXCEPT ![t] = row]
      BY <1>3, <2>3 DEF MarkReady
    <3>5. \A d \in contract.dependencies :
              d # t /\ d \in DOMAIN tasks /\ tasks[d].status = "COMPLETE"
      BY <2>3 DEF ContractValid, DependencyMet
    <3> HIDE DEF row, contract
    <3>6. Rewrites(t, row)
      BY <2>1, <3>3, <3>4, <3>5 DEF Rewrites, Worked, ReadyFrom
    <3> QED BY <2>2, <3>6, RewritingKeepsBacked DEF RunsKept
  <2>4. CASE ~ContractValid(tasks, t, attached)
    <3> DEFINE row == [tasks[t] EXCEPT !.status = "BLOCKED"]
    <3>1. row \in Task /\ row.status = "BLOCKED" /\ row.validated = tasks[t].validated
      BY <2>1 DEF Task, TaskStatus
    <3>2. tasks' = [tasks EXCEPT ![t] = row]
      BY <1>3, <2>4 DEF MarkReady
    <3> HIDE DEF row
    <3>3. Rewrites(t, row)
      BY <2>1, <3>1, <3>2 DEF Rewrites, Worked, ReadyFrom
    <3> QED BY <2>2, <3>3, RewritingKeepsBacked DEF RunsKept
  <2> QED BY <2>3, <2>4
<1>4. ASSUME NEW t \in DOMAIN tasks, StartRun(t)
      PROVE  tasks' \in Seq(Task) /\ runs' \in Seq(TaskRun) /\ WorkIsBacked'
  <2>1. t \in Nat /\ [task |-> t, status |-> "RUNNING"] \in TaskRun
    BY DEF LedgerInv, TaskRun
  <2>2. runs' = Append(runs, [task |-> t, status |-> "RUNNING"])
    BY <1>4 DEF StartRun
  <2>3. RunsKept /\ Len(runs) + 1 \in DOMAIN runs' /\ runs'[Len(runs) + 1].task = t
    BY <2>1, <2>2 DEF LedgerInv, RunsKept
  <2> QED BY <1>4, <2>3, MovingKeepsBacked DEF StartRun, RunsKept, TaskStatus
<1>5. ASSUME NEW t \in DOMAIN tasks,
             BlockTask(t) \/ DocumentationPending(t) \/ CompleteTask(t) \/ CancelTask(t)
      PROVE  tasks' \in Seq(Task) /\ runs' \in Seq(TaskRun) /\ WorkIsBacked'
  <2>1. RunsKept
    BY <1>5, StillRuns DEF BlockTask, DocumentationPending, CompleteTask, CancelTask
  <2>2. CASE BlockTask(t)
    BY <2>1, <2>2, MovingKeepsBacked
    DEF BlockTask, BlockFrom, RunsKept, TaskStatus, Worked
  <2>3. CASE DocumentationPending(t)
    BY <2>1, <2>3, MovingKeepsBacked
    DEF DocumentationPending, RunsKept, TaskStatus, Worked
  <2>4. CASE CompleteTask(t)
    BY <2>1, <2>4, MovingKeepsBacked DEF CompleteTask, RunsKept, TaskStatus, Worked
  <2>5. CASE CancelTask(t)
    BY <2>1, <2>5, MovingKeepsBacked
    DEF CancelTask, CancelFrom, RunsKept, TaskStatus, Worked
  <2> QED BY <1>5, <2>2, <2>3, <2>4, <2>5
<1>6. ASSUME NEW t \in DOMAIN tasks, NEW r \in {0} \cup DOMAIN runs,
             FailTask(t, r) \/ ImplementationComplete(t, r)
      PROVE  tasks' \in Seq(Task) /\ runs' \in Seq(TaskRun) /\ WorkIsBacked'
  <2>1. RunsKept
    BY <1>6, EndingKeepsRuns DEF FailTask, ImplementationComplete
  <2>2. CASE FailTask(t, r)
    BY <2>1, <2>2, MovingKeepsBacked DEF FailTask, FailFrom, RunsKept, TaskStatus, Worked
  <2>3. CASE ImplementationComplete(t, r)
    BY <2>1, <2>3, MovingKeepsBacked
    DEF ImplementationComplete, RunsKept, TaskStatus, Worked
  <2> QED BY <1>6, <2>2, <2>3
<1>7. CASE MoveProject \/ AttachRepository
  BY <1>7 DEF MoveProject, AttachRepository, LedgerInv, WorkIsBacked
<1> QED BY <1>1, <1>2, <1>3, <1>4, <1>5, <1>6, <1>7 DEF TaskStep
-----------------------------------------------------------------------------
(* Provisioning *)

(* A command works with a specification on disk until it ends.             *)
LEMMA CommandsKeepSpecs ==
    ASSUME CommandsHaveSpecs, [Next]_vars
    PROVE  CommandsHaveSpecs'
<1>1. CASE UNCHANGED prov
  BY <1>1 DEF CommandsHaveSpecs
<1>2. ASSUME NEW p \in Procs, Begin(p) \/ Check(p) \/ Provision(p) \/ Abandoned(p)
      PROVE  CommandsHaveSpecs'
  <2>1. CASE Begin(p)
    BY <2>1 DEF Begin, CommandsHaveSpecs
  <2>2. CASE Check(p)
    BY <2>2 DEF Check, CommandsHaveSpecs
  <2>3. CASE Provision(p) \/ Abandoned(p)
    <3>1. Ends(p)
      BY <2>3 DEF Provision, Abandoned
    <3> QED BY <3>1 DEF Ends, Off, CommandsHaveSpecs
  <2> QED BY <1>2, <2>1, <2>2, <2>3
<1>3. TaskStep /\ UNCHANGED <<knowledgeVars, planVars, provVars>> => UNCHANGED prov
  BY DEF provVars
<1>4. KnowledgeStep /\ UNCHANGED <<planVars, provVars>> => UNCHANGED prov
  BY DEF provVars
<1>5. PlanStep /\ UNCHANGED provVars => UNCHANGED prov
  BY DEF provVars
<1>6. EditCheckout \/ UNCHANGED vars => UNCHANGED prov
  BY DEF EditCheckout, vars, provVars
<1> QED BY <1>1, <1>2, <1>3, <1>4, <1>5, <1>6 DEF Next

(* The row of a key is that of a task which is READY and unvalidated.      *)
LEMMA ProvisionedTask ==
    ASSUME NEW spec \in specs, NEW i \in DOMAIN spec.keys
    PROVE  /\ TaskOf(spec, spec.keys[i]) \in Task
           /\ TaskOf(spec, spec.keys[i]).status = "READY"
           /\ TaskOf(spec, spec.keys[i]).validated = {}
<1> DEFINE key == spec.keys[i]
<1>1. key \in Key /\ spec.repository \in Repositories
  BY ProvisioningAssumption
<1> HIDE DEF key
<1>2. ReadOnlyContract(spec, key) \in Contract /\ MutationContract(spec, key) \in Contract
  <2>1. /\ key.stated \in BOOLEAN /\ key.criteria \in SUBSET Criteria
        /\ key.dependencies \in SUBSET Nat /\ {spec.repository} \in SUBSET Repositories
    BY <1>1 DEF Key
  <2>2. {"documentation"} \in SUBSET Targets
    BY ProvisioningAssumption
  <2>3. ReadOnlyContract(spec, key) \in Contract
    BY <2>1, <2>2 DEF ReadOnlyContract, Contract
  <2>4. MutationContract(spec, key) \in Contract
    BY <2>1, <2>2 DEF MutationContract, Contract
  <2> QED BY <2>3, <2>4
<1>3. /\ ReadOnlyTask(spec, key) \in Task /\ MutationTask(spec, key) \in Task
      /\ ReadOnlyTask(spec, key).status = "READY" /\ ReadOnlyTask(spec, key).validated = {}
      /\ MutationTask(spec, key).status = "READY" /\ MutationTask(spec, key).validated = {}
  BY <1>2 DEF ReadOnlyTask, MutationTask, NewTask, Task, TaskStatus
<1>4. /\ TaskOf(spec, key) \in Task
      /\ TaskOf(spec, key).status = "READY"
      /\ TaskOf(spec, key).validated = {}
  BY <1>3 DEF TaskOf
<1> QED BY <1>4 DEF key

(* A command that provisions has a specification, and so a row of keys.    *)
LEMMA CheckedSpec ==
    ASSUME LedgerInv, NEW p \in Procs, Provision(p)
    PROVE  LET spec == prov[p].spec IN
           /\ spec \in specs /\ spec.keys \in Seq(Key)
           /\ DOMAIN spec.keys = 1..Len(spec.keys) /\ Len(spec.keys) \in Nat
<1>1. prov[p].at = "checked"
  BY DEF Provision
<1>2. prov[p].spec \in specs
  BY <1>1 DEF LedgerInv, CommandsHaveSpecs
<1>3. prov[p].spec.keys \in Seq(Key)
  BY <1>2, ProvisioningAssumption
<1> QED BY <1>2, <1>3

LEMMA ProvisionKeepsBacked ==
    ASSUME LedgerInv, NEW p \in Procs, Provision(p)
    PROVE  tasks' \in Seq(Task) /\ runs' \in Seq(TaskRun) /\ WorkIsBacked'
<1> DEFINE spec == prov[p].spec
           new == [i \in DOMAIN spec.keys |-> TaskOf(spec, spec.keys[i])]
<1>1. spec \in specs /\ spec.keys \in Seq(Key)
  BY CheckedSpec
<1>2. tasks' = tasks \o new
  BY DEF Provision, WithTasks
<1>3. RunsKept
  BY StillRuns DEF Provision
<1> HIDE DEF spec
<1>4. DOMAIN spec.keys = 1..Len(spec.keys) /\ Len(spec.keys) \in Nat
  BY <1>1
<1>5. \A i \in DOMAIN spec.keys :
          /\ TaskOf(spec, spec.keys[i]) \in Task
          /\ TaskOf(spec, spec.keys[i]).status = "READY"
          /\ TaskOf(spec, spec.keys[i]).validated = {}
  BY <1>1, ProvisionedTask
<1>6. \A i \in DOMAIN new : new[i].status = "READY" /\ new[i].validated = {}
  BY <1>5
<1>7. new \in Seq(Task)
  BY <1>4, <1>5
<1> HIDE DEF new
<1> QED BY <1>2, <1>3, <1>6, <1>7, AppendingKeepsBacked DEF Worked, RunsKept

(* Every step of the ledgers and of provisioning.                          *)
LEMMA LedgerInvKept ==
    ASSUME LedgerInv, [Next]_vars
    PROVE  LedgerInv'
<1>1. CommandsHaveSpecs'
  BY CommandsKeepSpecs DEF LedgerInv
<1>2. CASE UNCHANGED <<tasks, runs>>
  BY <1>1, <1>2 DEF LedgerInv, WorkIsBacked
<1>3. CASE TaskStep
  BY <1>1, <1>3, TaskStepKeepsBacked DEF LedgerInv
<1>4. ASSUME NEW p \in Procs, Provision(p)
      PROVE  LedgerInv'
  BY <1>1, <1>4, ProvisionKeepsBacked DEF LedgerInv
<1>5. KnowledgeStep => UNCHANGED <<tasks, runs>>
  BY DEF KnowledgeStep, CreateMemory, CreateCandidate, CaptureTaskExperience,
         CaptureFailureMemory, ValidateMemory, ContradictMemory, DeprecateMemory,
         MarkRevalidation, ClearRevalidation, PropagateStaleness, SupersedeMemory,
         ValidateCandidate, RejectCandidate, NeedsMoreEvidence, PromoteCandidate,
         MemoryMoves, CandidateMoves, taskVars
<1>6. PlanStep => UNCHANGED <<tasks, runs>>
  BY DEF PlanStep, CreatePlan, BlockedPlanning, Replan, RejectPlan, FreezePlan, taskVars
<1>7. ASSUME NEW p \in Procs, Begin(p) \/ Check(p) \/ Abandoned(p)
      PROVE  UNCHANGED <<tasks, runs>>
  BY <1>7 DEF Begin, Check, Abandoned, taskVars
<1>8. EditCheckout \/ UNCHANGED vars => UNCHANGED <<tasks, runs>>
  BY DEF EditCheckout, vars, taskVars
<1> QED BY <1>2, <1>3, <1>4, <1>5, <1>6, <1>7, <1>8 DEF Next

-----------------------------------------------------------------------------
(* Memories and candidates.  Rows are appended, and what a row was seen in *)
(* or learned from never changes.                                          *)

Memory ==
    [seen : Observation,
     status : {"OBSERVED", "CANDIDATE", "VALIDATED", "SUPERSEDED", "CONTRADICTED",
               "DEPRECATED"},
     lesson : Nat, flagged : BOOLEAN, supersedes : Nat, supersededBy : Nat]

Candidate ==
    [lesson : Lesson, work : BOOLEAN, sanitized : SanitizationStatus,
     status : {"PENDING", "VALIDATED", "REJECTED", "NEEDS_MORE_EVIDENCE"},
     classification : {"PRIVATE", "ABSTRACTABLE", "GLOBAL_SAFE"}]

(* What a client's candidate became belongs to that client.                *)
Attributed(row, lessons) ==
    row.lesson # 0 =>
        /\ row.lesson \in DOMAIN lessons
        /\ lessons[row.lesson].lesson.project \in Clients =>
              row.seen.project = lessons[row.lesson].lesson.project

Classified(candidate) ==
    candidate.classification = ClassifySource(candidate.lesson.project, candidate.lesson.scope)

KnowledgeInv ==
    /\ memories \in Seq(Memory)
    /\ candidates \in Seq(Candidate)
    /\ \A m \in DOMAIN memories : Attributed(memories[m], candidates)
    /\ \A c \in DOMAIN candidates : Classified(candidates[c])

MemoriesKept ==
    /\ memories' \in Seq(Memory)
    /\ \A m \in DOMAIN memories :
          /\ m \in DOMAIN memories'
          /\ memories'[m].seen = memories[m].seen /\ memories'[m].lesson = memories[m].lesson
    /\ \A m \in DOMAIN memories' : m \notin DOMAIN memories =>
          Attributed(memories'[m], candidates)

CandidatesKept ==
    /\ candidates' \in Seq(Candidate)
    /\ \A c \in DOMAIN candidates :
          /\ c \in DOMAIN candidates'
          /\ candidates'[c].lesson = candidates[c].lesson
          /\ candidates'[c].classification = candidates[c].classification
    /\ \A c \in DOMAIN candidates' : c \notin DOMAIN candidates => Classified(candidates'[c])

LEMMA KeptRowsKeepKnowledge ==
    ASSUME KnowledgeInv, MemoriesKept, CandidatesKept
    PROVE  KnowledgeInv'
<1>1. ASSUME NEW m \in DOMAIN memories'
      PROVE  Attributed(memories'[m], candidates')
  <2>1. Attributed(memories'[m], candidates)
    BY DEF KnowledgeInv, MemoriesKept, Attributed
  <2> QED BY <2>1 DEF CandidatesKept, Attributed
<1>2. ASSUME NEW c \in DOMAIN candidates'
      PROVE  Classified(candidates'[c])
  BY DEF KnowledgeInv, CandidatesKept, Classified
<1> QED BY <1>1, <1>2 DEF KnowledgeInv, MemoriesKept, CandidatesKept

LEMMA MemoriesUnchanged ==
    ASSUME KnowledgeInv, UNCHANGED memories
    PROVE  MemoriesKept
BY DEF KnowledgeInv, MemoriesKept

LEMMA CandidatesUnchanged ==
    ASSUME KnowledgeInv, UNCHANGED candidates
    PROVE  CandidatesKept
BY DEF KnowledgeInv, CandidatesKept

(* A row that is rewritten keeps what it was seen in.                      *)
LEMMA MemoryRewritten ==
    ASSUME KnowledgeInv, NEW m \in DOMAIN memories, NEW row \in Memory,
           memories' = [memories EXCEPT ![m] = row],
           row.seen = memories[m].seen, row.lesson = memories[m].lesson
    PROVE  MemoriesKept
BY DEF KnowledgeInv, MemoriesKept

(* A new memory of the caller's own, or one that keeps its client.         *)
LEMMA MemoryAdded ==
    ASSUME KnowledgeInv, NEW seen \in Observation, NEW lesson \in Nat,
           WithMemory(seen, lesson), Attributed(NewMemory(seen, lesson), candidates)
    PROVE  MemoriesKept
<1>1. NewMemory(seen, lesson) \in Memory
  BY DEF NewMemory, Memory, Observation
<1>2. memories' = Append(memories, NewMemory(seen, lesson))
  BY DEF WithMemory
<1> QED BY <1>1, <1>2 DEF KnowledgeInv, MemoriesKept

LEMMA CandidateAdded ==
    ASSUME KnowledgeInv, NEW lesson \in Lesson, NEW work \in BOOLEAN,
           WithCandidate(lesson, work)
    PROVE  CandidatesKept
<1> DEFINE row == NewCandidate(lesson, work)
<1>1. row \in Candidate
  BY DEF NewCandidate, Candidate, Lesson, ClassifySource, DefaultSanitization,
         SanitizationStatus
<1>2. Classified(row)
  BY DEF NewCandidate, Classified
<1>3. candidates' = Append(candidates, row)
  BY DEF WithCandidate
<1> HIDE DEF row
<1> QED BY <1>1, <1>2, <1>3 DEF KnowledgeInv, CandidatesKept
LEMMA CandidateRestated ==
    ASSUME KnowledgeInv, NEW c \in DOMAIN candidates,
           NEW status \in {"VALIDATED", "REJECTED", "NEEDS_MORE_EVIDENCE"},
           CandidateMoves(c, status)
    PROVE  CandidatesKept /\ UNCHANGED memories
<1> DEFINE row == [candidates[c] EXCEPT !.status = status]
<1>1. candidates[c] \in Candidate
  BY DEF KnowledgeInv
<1>2. /\ row \in Candidate
      /\ row.lesson = candidates[c].lesson
      /\ row.classification = candidates[c].classification
  BY <1>1 DEF Candidate
<1>3. candidates' = [candidates EXCEPT ![c] = row] /\ UNCHANGED memories
  BY DEF CandidateMoves
<1> HIDE DEF row
<1> QED BY <1>2, <1>3 DEF KnowledgeInv, CandidatesKept

(* Every call of the memory and the learning service.                      *)
LEMMA KnowledgeStepKeeps ==
    ASSUME KnowledgeInv, KnowledgeStep
    PROVE  MemoriesKept /\ CandidatesKept
<1> USE KnowledgeAssumption
<1>1. CASE CreateMemory
  <2>1. PICK seen \in observed : WithMemory(seen, 0)
    BY <1>1 DEF CreateMemory
  <2>2. seen \in Observation /\ Attributed(NewMemory(seen, 0), candidates)
    BY DEF NewMemory, Attributed
  <2> QED BY <1>1, <2>1, <2>2, MemoryAdded, CandidatesUnchanged DEF CreateMemory
<1>2. CASE CreateCandidate
  <2>1. PICK lesson \in learned : WithCandidate(lesson, FALSE)
    BY <1>2 DEF CreateCandidate
  <2> QED BY <1>2, <2>1, CandidateAdded, MemoriesUnchanged DEF CreateCandidate
<1>3. ASSUME NEW evidence \in SUBSET Evidence, NEW work \in BOOLEAN,
             NEW owner \in {This, NoProject}, NEW scope \in {"PROJECT", "SESSION"},
             WithMemory(Experience(owner, scope, evidence, work), 0)
      PROVE  MemoriesKept
  <2> DEFINE seen == Experience(owner, scope, evidence, work)
  <2>1. seen \in Observation
    BY DEF Experience, Observation, KnowledgeScope, Owners
  <2>2. Attributed(NewMemory(seen, 0), candidates)
    BY DEF NewMemory, Attributed
  <2> HIDE DEF seen
  <2>3. WithMemory(seen, 0)
    BY <1>3 DEF seen
  <2> QED BY <2>1, <2>2, <2>3, MemoryAdded
<1>4. ASSUME NEW evidence \in SUBSET Evidence, NEW work \in BOOLEAN, NEW documents \in BOOLEAN,
             NEW owner \in {This, NoProject}, NEW scope \in {"PROJECT", "SESSION"},
             WithCandidate(LessonOf(owner, scope, evidence, documents), work)
      PROVE  CandidatesKept
  <2> DEFINE lesson == LessonOf(owner, scope, evidence, documents)
  <2>1. lesson \in Lesson
    BY DEF LessonOf, Lesson, KnowledgeScope, Owners
  <2> HIDE DEF lesson
  <2>2. WithCandidate(lesson, work)
    BY <1>4 DEF lesson
  <2> QED BY <2>1, <2>2, CandidateAdded
<1>5. CASE CaptureTaskExperience
  <2>1. PICK evidence \in SUBSET Evidence, documents \in BOOLEAN :
            /\ WithMemory(Experience(This, "PROJECT", evidence, TRUE), 0)
            /\ \/ UNCHANGED candidates
               \/ WithCandidate(LessonOf(This, "PROJECT", evidence, documents), TRUE)
    BY <1>5 DEF CaptureTaskExperience
  <2> QED BY <1>3, <1>4, <2>1, CandidatesUnchanged
<1>6. CASE CaptureFailureMemory
  <2>1. PICK evidence \in SUBSET Evidence, task \in BOOLEAN, run \in BOOLEAN :
            LET owner == IF task THEN This ELSE NoProject
                scope == IF task THEN "PROJECT" ELSE "SESSION"
            IN  /\ WithMemory(Experience(owner, scope, evidence, task \/ run), 0)
                /\ WithCandidate(LessonOf(owner, scope, evidence, FALSE), task \/ run)
    BY <1>6 DEF CaptureFailureMemory
  <2> DEFINE owner == IF task THEN This ELSE NoProject
             scope == IF task THEN "PROJECT" ELSE "SESSION"
             work == task \/ run
  <2>2. /\ owner \in {This, NoProject} /\ scope \in {"PROJECT", "SESSION"}
        /\ work \in BOOLEAN
    OBVIOUS
  <2>3. /\ WithMemory(Experience(owner, scope, evidence, work), 0)
        /\ WithCandidate(LessonOf(owner, scope, evidence, FALSE), work)
    BY <2>1
  <2> HIDE DEF owner, scope, work
  <2> QED BY <1>3, <1>4, <2>2, <2>3
<1>7. ASSUME NEW m \in DOMAIN memories,
             \/ ValidateMemory(m) \/ ContradictMemory(m) \/ DeprecateMemory(m)
             \/ MarkRevalidation(m) \/ ClearRevalidation(m) \/ PropagateStaleness(m)
      PROVE  MemoriesKept /\ CandidatesKept
  <2>1. memories[m] \in Memory
    BY DEF KnowledgeInv
  <2>2. ASSUME NEW row \in Memory, MemoryMoves(m, row),
               row.seen = memories[m].seen, row.lesson = memories[m].lesson
        PROVE  MemoriesKept /\ CandidatesKept
    BY <2>2, MemoryRewritten, CandidatesUnchanged DEF MemoryMoves
  <2>3. \A status \in {"VALIDATED", "CONTRADICTED", "DEPRECATED"} :
            LET row == [memories[m] EXCEPT !.status = status] IN
            /\ row \in Memory
            /\ row.seen = memories[m].seen /\ row.lesson = memories[m].lesson
    BY <2>1 DEF Memory
  <2>4. \A flagged \in BOOLEAN :
            LET row == [memories[m] EXCEPT !.flagged = flagged] IN
            /\ row \in Memory
            /\ row.seen = memories[m].seen /\ row.lesson = memories[m].lesson
    BY <2>1 DEF Memory
  <2>5. CASE ValidateMemory(m)
    BY <2>2, <2>3, <2>5 DEF ValidateMemory
  <2>6. CASE ContradictMemory(m)
    BY <2>2, <2>3, <2>6 DEF ContradictMemory
  <2>7. CASE DeprecateMemory(m)
    BY <2>2, <2>3, <2>7 DEF DeprecateMemory
  <2>8. CASE MarkRevalidation(m) \/ PropagateStaleness(m)
    BY <2>2, <2>4, <2>8 DEF MarkRevalidation, PropagateStaleness
  <2>9. CASE ClearRevalidation(m)
    BY <2>2, <2>4, <2>9 DEF ClearRevalidation
  <2> QED BY <1>7, <2>5, <2>6, <2>7, <2>8, <2>9
<1>8. ASSUME NEW old \in DOMAIN memories, NEW new \in DOMAIN memories, SupersedeMemory(old, new)
      PROVE  MemoriesKept /\ CandidatesKept
  <2> DEFINE left == [memories[old] EXCEPT !.status = "SUPERSEDED", !.supersededBy = new]
             right == [memories[new] EXCEPT !.supersedes = old]
  <2>1. memories[old] \in Memory /\ memories[new] \in Memory /\ old \in Nat /\ new \in Nat
    BY DEF KnowledgeInv
  <2>2. /\ left \in Memory /\ left.seen = memories[old].seen
        /\ left.lesson = memories[old].lesson
        /\ right \in Memory /\ right.seen = memories[new].seen
        /\ right.lesson = memories[new].lesson
    BY <2>1 DEF Memory
  <2>3. memories' = [memories EXCEPT ![old] = left, ![new] = right]
    BY <1>8 DEF SupersedeMemory
  <2> HIDE DEF left, right
  <2>4. MemoriesKept
    <3>1. memories \in Seq(Memory)
      BY DEF KnowledgeInv
    <3>2. memories' \in Seq(Memory) /\ DOMAIN memories' = DOMAIN memories
      BY <2>2, <2>3, <3>1
    <3>3. \A m \in DOMAIN memories :
              memories'[m].seen = memories[m].seen /\ memories'[m].lesson = memories[m].lesson
      BY <2>2, <2>3, <3>1
    <3> QED BY <3>2, <3>3 DEF MemoriesKept
  <2> QED BY <1>8, <2>4, CandidatesUnchanged DEF SupersedeMemory
<1>9. ASSUME NEW c \in DOMAIN candidates,
             ValidateCandidate(c) \/ RejectCandidate(c) \/ NeedsMoreEvidence(c)
      PROVE  MemoriesKept /\ CandidatesKept
  BY <1>9, CandidateRestated, MemoriesUnchanged
  DEF ValidateCandidate, RejectCandidate, NeedsMoreEvidence
<1>10. ASSUME NEW c \in DOMAIN candidates, NEW scope \in promotions,
              NEW actor \in {"HUMAN", "LUCIUS"}, PromoteCandidate(c, scope, actor)
       PROVE  MemoriesKept /\ CandidatesKept
  <2> DEFINE candidate == candidates[c]
             seen == [project |-> IF scope = "GLOBAL" THEN NoProject
                                  ELSE candidate.lesson.project,
                      scope |-> scope, status |-> "VALIDATED",
                      evidence |-> candidate.lesson.evidence,
                      reference |-> TRUE, work |-> candidate.work]
  <2>1. candidate \in Candidate /\ c \in Nat /\ Classified(candidate)
    BY DEF KnowledgeInv
  <2>2. seen \in Observation
    BY <2>1 DEF Candidate, Lesson, Observation, Owners
  <2>3. scope = "GLOBAL" => candidate.lesson.project \notin Clients
    BY <1>10, <2>1 DEF PromoteCandidate, CanPromote, Classified, ClassifySource
  <2>4. seen.project = IF scope = "GLOBAL" THEN NoProject ELSE candidate.lesson.project
    OBVIOUS
  <2>5. WithMemory(seen, c) /\ UNCHANGED candidates
    BY <1>10 DEF PromoteCandidate
  <2> HIDE DEF seen
  <2>6. Attributed(NewMemory(seen, c), candidates)
    BY <2>3, <2>4 DEF NewMemory, Attributed
  <2> QED BY <2>1, <2>2, <2>5, <2>6, MemoryAdded, CandidatesUnchanged
<1> QED
  BY <1>1, <1>2, <1>5, <1>6, <1>7, <1>8, <1>9, <1>10 DEF KnowledgeStep
-----------------------------------------------------------------------------
(* Plans.  Rows are appended, with the next version of their task, and a   *)
(* row keeps its task, its version and what was shown when it was made.    *)

Plan ==
    [task : Nat, version : Nat, status : {"PROPOSED", "READY", "SUPERSEDED", "REJECTED"},
     content : Proposal, memories : SUBSET Nat, supersedes : Nat, supersededBy : Nat]

(* Versions of a task are no larger than the place of their row: that, and *)
(* plans only for tasks that exist, makes a next version a new one.        *)
PlansTypeOK ==
    /\ plans \in Seq(Plan)
    /\ \A p \in DOMAIN plans : plans[p].task \in DOMAIN tasks /\ plans[p].version \in 1..p

NobodysClient(m) == m \in DOMAIN memories /\ memories[m].seen.project \notin Clients

ShownIsAllowed ==
    \A p \in DOMAIN plans : \A m \in plans[p].memories : NobodysClient(m)

PlansInv == PlansTypeOK /\ ShownIsAllowed /\ LineageIsForward

(* Max of the community modules is a CHOOSE: a bounded set has what it     *)
(* chooses.                                                                *)
LEMMA MaxOfBounded ==
    ASSUME NEW S \in SUBSET Nat, S # {}, NEW B \in Nat, \A x \in S : x <= B
    PROVE  Max(S) \in S /\ \A y \in S : Max(S) >= y
<1> DEFINE less == {r \in Nat \X Nat : r[1] < r[2]}
           T == {k \in Nat : \E x \in S : x + k = B}
<1>1. IsWellFoundedOn(less, Nat)
  BY NatLessThanWellFounded DEF OpToRel
<1>2. T # {}
  <2>1. PICK x \in S : TRUE
    OBVIOUS
  <2>2. B - x \in T
    BY <2>1
  <2> QED BY <2>2
<1>3. PICK k \in T : \A l \in T : ~ (<<l, k>> \in less)
  <2>1. T \subseteq Nat
    OBVIOUS
  <2> HIDE DEF T, less
  <2> QED BY <1>1, <1>2, <2>1, WFMin
<1>4. PICK x \in S : x + k = B
  OBVIOUS
<1>5. \A y \in S : x >= y
  <2>1. SUFFICES ASSUME NEW y \in S, y > x PROVE FALSE
    OBVIOUS
  <2>2. B - y \in T /\ B - y < k
    BY <1>4, <2>1
  <2> QED BY <1>3, <2>2
<1> QED BY <1>5 DEF Max

LEMMA NextVersionRises ==
    ASSUME PlansTypeOK, NEW t
    PROVE  /\ NextVersion(t) \in 1..(Len(plans) + 1)
           /\ \A p \in PlansOf(t) : plans[p].version < NextVersion(t)
<1> DEFINE S == {0} \cup {plans[p].version : p \in PlansOf(t)}
<1>1. Len(plans) \in Nat /\ DOMAIN plans = 1..Len(plans)
  BY DEF PlansTypeOK
<1>2. \A p \in DOMAIN plans : plans[p].version \in Nat /\ plans[p].version <= Len(plans)
  BY <1>1 DEF PlansTypeOK
<1>3. S \in SUBSET Nat /\ \A x \in S : x <= Len(plans)
  BY <1>1, <1>2 DEF PlansOf
<1>4. 0 \in S /\ \A p \in PlansOf(t) : plans[p].version \in S
  OBVIOUS
<1>5. NextVersion(t) = 1 + Max(S)
  BY DEF NextVersion
<1> HIDE DEF S
<1>6. Max(S) \in S /\ \A y \in S : Max(S) >= y
  BY <1>1, <1>3, <1>4, MaxOfBounded
<1>7. Max(S) \in Nat /\ Max(S) <= Len(plans)
  BY <1>3, <1>6
<1> QED
  BY <1>1, <1>2, <1>4, <1>5, <1>6, <1>7 DEF PlansOf

(* What planning is shown is of no client.                                 *)
LEMMA UsableIsAllowed ==
    ASSUME NEW c \in BOOLEAN, NEW m \in Usable(c)
    PROVE  NobodysClient(m)
BY KnowledgeAssumption DEF Usable, MemoryAllowed, NobodysClient

FreshPlan(plan, t) ==
    /\ plan \in Plan
    /\ plan.task = t /\ plan.version = NextVersion(t) /\ plan.status = "PROPOSED"
    /\ plan.supersedes = NoPlan /\ plan.supersededBy = NoPlan
    /\ \A m \in plan.memories : NobodysClient(m)

LEMMA PlannedRow ==
    ASSUME KnowledgeInv, PlansTypeOK, NEW t \in DOMAIN tasks, t \in Nat, NEW c \in BOOLEAN,
           NEW context \in Contexts(t, c), NEW plan \in Planned(t, context)
    PROVE  FreshPlan(plan, t)
<1>1. PICK x \in proposals : plan = NewPlan(t, NextVersion(t), "PROPOSED", x, context.shown)
  BY DEF Planned
<1>2. context.shown \in SUBSET Usable(c)
  BY DEF Contexts, WithinBudget
<1>3. \A m \in context.shown : NobodysClient(m) /\ m \in Nat
  BY <1>2, UsableIsAllowed DEF NobodysClient, KnowledgeInv
<1>4. NextVersion(t) \in Nat
  BY NextVersionRises DEF PlansTypeOK
<1>5. x \in Proposal
  BY PlanAssumption
<1> QED BY <1>1, <1>3, <1>4, <1>5 DEF NewPlan, Plan, NoPlan, FreshPlan
(* What every step leaves of the plans, and asks of a new one.             *)
PlansKept ==
    /\ plans' \in Seq(Plan) /\ DOMAIN plans \subseteq DOMAIN plans'
    /\ \A p \in DOMAIN plans :
          /\ plans'[p].task = plans[p].task /\ plans'[p].version = plans[p].version
          /\ plans'[p].memories = plans[p].memories

NewPlanFits(p) ==
    /\ plans'[p].task \in DOMAIN tasks' /\ plans'[p].version \in 1..p
    /\ \A q \in DOMAIN plans' :
          q < p /\ plans'[q].task = plans'[p].task => plans'[q].version < plans'[p].version
    /\ \A m \in plans'[p].memories : NobodysClient(m)

LEMMA PlansGrow ==
    ASSUME PlansInv, KnowledgeInv, MemoriesKept, PlansKept, DOMAIN tasks \subseteq DOMAIN tasks',
           \A p \in DOMAIN plans' : p \notin DOMAIN plans => NewPlanFits(p),
           \A p \in DOMAIN plans' : PlanLink(p)'
    PROVE  PlansInv'
<1>1. DOMAIN plans = 1..Len(plans) /\ DOMAIN plans' = 1..Len(plans')
      /\ Len(plans) \in Nat /\ Len(plans') \in Nat
  BY DEF PlansInv, PlansTypeOK, PlansKept
<1>2. PlansTypeOK'
  BY DEF PlansInv, PlansTypeOK, PlansKept, NewPlanFits
<1>3. \A m : NobodysClient(m) => NobodysClient(m)'
  BY DEF NobodysClient, MemoriesKept
<1>4. ShownIsAllowed'
  <2>1. \A p \in DOMAIN plans' : \A m \in plans'[p].memories : NobodysClient(m)
    BY DEF PlansInv, ShownIsAllowed, PlansKept, NewPlanFits
  <2> QED BY <1>3, <2>1 DEF ShownIsAllowed
<1>5. VersionsRise'
  <2> SUFFICES ASSUME NEW p \in DOMAIN plans', NEW q \in DOMAIN plans',
                      plans'[p].task = plans'[q].task, p < q
               PROVE  plans'[p].version < plans'[q].version
    BY DEF VersionsRise
  <2>1. CASE q \in DOMAIN plans
    <3>1. p \in DOMAIN plans
      BY <1>1, <2>1
    <3> QED BY <2>1, <3>1 DEF PlansInv, LineageIsForward, VersionsRise, PlansKept
  <2>2. CASE q \notin DOMAIN plans
    BY <2>2 DEF NewPlanFits
  <2> QED BY <2>1, <2>2
<1> QED BY <1>2, <1>4, <1>5 DEF PlansInv, LineageIsForward

LEMMA PlansUntouched ==
    ASSUME PlansInv, KnowledgeInv, MemoriesKept, DOMAIN tasks \subseteq DOMAIN tasks',
           UNCHANGED plans
    PROVE  PlansInv' /\ PlansKept
<1>1. PlansKept
  BY DEF PlansInv, PlansTypeOK, PlansKept
<1>2. \A p \in DOMAIN plans' : PlanLink(p)'
  BY DEF PlansInv, LineageIsForward, PlanLink, NoPlan
<1> QED BY <1>1, <1>2, PlansGrow

(* A row is appended with the next version of its task.                    *)
LEMMA NextPlanFits ==
    ASSUME PlansInv, PlansKept, DOMAIN tasks \subseteq DOMAIN tasks',
           Len(plans') = Len(plans) + 1,
           plans'[Len(plans')].task \in DOMAIN tasks,
           plans'[Len(plans')].version = NextVersion(plans'[Len(plans')].task),
           \A m \in plans'[Len(plans')].memories : NobodysClient(m)
    PROVE  \A p \in DOMAIN plans' : p \notin DOMAIN plans => NewPlanFits(p)
<1> DEFINE n == Len(plans) + 1
           t == plans'[n].task
<1>1. /\ DOMAIN plans = 1..Len(plans) /\ DOMAIN plans' = 1..n
      /\ Len(plans) \in Nat /\ Len(plans') = n
  BY DEF PlansInv, PlansTypeOK, PlansKept
<1>2. \A p \in DOMAIN plans' : p \notin DOMAIN plans => p = n
  BY <1>1
<1>3. NextVersion(t) \in 1..n /\ \A q \in PlansOf(t) : plans[q].version < NextVersion(t)
  BY NextVersionRises DEF PlansInv
<1>4. \A q \in DOMAIN plans' : q < n /\ plans'[q].task = t =>
          plans'[q].version < NextVersion(t)
  <2> SUFFICES ASSUME NEW q \in DOMAIN plans', q < n, plans'[q].task = t
               PROVE  plans'[q].version < NextVersion(t)
    OBVIOUS
  <2>1. q \in DOMAIN plans
    BY <1>1
  <2> QED BY <1>3, <2>1 DEF PlansOf, PlansKept
<1> QED BY <1>1, <1>2, <1>3, <1>4 DEF NewPlanFits

LEMMA CreatePlanKeeps ==
    ASSUME PlansInv, KnowledgeInv, MemoriesKept, LedgerInv, DOMAIN tasks \subseteq DOMAIN tasks',
           NEW t \in DOMAIN tasks, CreatePlan(t)
    PROVE  PlansInv' /\ PlansKept
<1>1. PICK c \in BOOLEAN : \E context \in Contexts(t, c) :
          \E plan \in Planned(t, context) : plans' = Append(plans, plan)
  BY DEF CreatePlan
<1>2. PICK context \in Contexts(t, c) :
          \E plan \in Planned(t, context) : plans' = Append(plans, plan)
  BY <1>1
<1>0. PICK plan \in Planned(t, context) : plans' = Append(plans, plan)
  BY <1>2
<1>3. t \in Nat
  BY DEF LedgerInv
<1>4. /\ plan \in Plan
      /\ plan.task = t /\ plan.version = NextVersion(t) /\ plan.status = "PROPOSED"
      /\ plan.supersedes = NoPlan /\ plan.supersededBy = NoPlan
      /\ \A m \in plan.memories : NobodysClient(m)
  <2>1. FreshPlan(plan, t)
    BY <1>3, PlannedRow DEF PlansInv
  <2> QED BY <2>1 DEF FreshPlan
<1>5. /\ Len(plans') = Len(plans) + 1 /\ plans'[Len(plans')] = plan
      /\ \A p \in DOMAIN plans : p \in DOMAIN plans' /\ plans'[p] = plans[p]
      /\ plans' \in Seq(Plan)
      /\ \A p \in DOMAIN plans' : p \in DOMAIN plans \/ plans'[p] = plan
  BY <1>0, <1>4 DEF PlansInv, PlansTypeOK
<1>6. PlansKept
  BY <1>5 DEF PlansKept
<1>7. \A p \in DOMAIN plans' : p \notin DOMAIN plans => NewPlanFits(p)
  BY <1>4, <1>5, <1>6, NextPlanFits
<1>8. \A p \in DOMAIN plans' : PlanLink(p)'
  <2> SUFFICES ASSUME NEW p \in DOMAIN plans' PROVE PlanLink(p)'
    OBVIOUS
  <2>1. CASE p \in DOMAIN plans
    <3>1. PlanLink(p) /\ plans'[p] = plans[p] /\ p \in Nat /\ DOMAIN plans = 1..Len(plans)
      BY <1>5, <2>1 DEF PlansInv, PlansTypeOK, LineageIsForward
    <3>2. plans[p].supersedes # NoPlan => plans[p].supersedes \in DOMAIN plans
      BY <2>1, <3>1 DEF PlanLink
    <3> QED BY <1>5, <3>1, <3>2 DEF PlanLink
  <2>2. CASE p \notin DOMAIN plans
    BY <1>4, <1>5, <2>2 DEF PlanLink
  <2> QED BY <2>1, <2>2
<1> QED BY <1>6, <1>7, <1>8, PlansGrow
LEMMA Appended ==
    ASSUME NEW S, NEW s \in Seq(S), NEW x \in S
    PROVE  /\ Append(s, x) \in Seq(S) /\ Len(Append(s, x)) = Len(s) + 1
           /\ DOMAIN Append(s, x) = 1..(Len(s) + 1) /\ Append(s, x)[Len(s) + 1] = x
           /\ \A i \in DOMAIN s : Append(s, x)[i] = s[i]
OBVIOUS

(* The links that replan overwrites on the old row still lead forward.     *)
LEMMA ReplanKeeps ==
    ASSUME PlansInv, KnowledgeInv, MemoriesKept, LedgerInv, DOMAIN tasks \subseteq DOMAIN tasks',
           NEW old \in DOMAIN plans, Replan(old)
    PROVE  PlansInv' /\ PlansKept
<1> DEFINE t == plans[old].task
           n == Len(plans) + 1
           left == [plans[old] EXCEPT !.status = "SUPERSEDED", !.supersededBy = n]
<1>1. PICK context \in Contexts(t, FALSE) :
          \E plan \in Planned(t, context) :
              plans' = Append([plans EXCEPT ![old].status = "SUPERSEDED",
                                            ![old].supersededBy = n],
                              [plan EXCEPT !.supersedes = old])
  BY DEF Replan
<1>0. PICK plan \in Planned(t, context) :
          plans' = Append([plans EXCEPT ![old].status = "SUPERSEDED",
                                        ![old].supersededBy = n],
                          [plan EXCEPT !.supersedes = old])
  BY <1>1
<1> DEFINE right == [plan EXCEPT !.supersedes = old]
<1>2. /\ t \in DOMAIN tasks /\ t \in Nat /\ plans[old] \in Plan
      /\ old \in Nat /\ n \in Nat /\ old < n /\ 0 < old
      /\ Len(plans) \in Nat /\ DOMAIN plans = 1..Len(plans)
  BY DEF PlansInv, PlansTypeOK, LedgerInv
<1>3. /\ plan \in Plan
      /\ plan.task = t /\ plan.version = NextVersion(t) /\ plan.status = "PROPOSED"
      /\ plan.supersededBy = NoPlan
      /\ \A m \in plan.memories : NobodysClient(m)
  <2>1. FALSE \in BOOLEAN /\ t \in DOMAIN tasks /\ t \in Nat /\ PlansTypeOK
    BY <1>2 DEF PlansInv
  <2> HIDE DEF t, n, left, right
  <2>2. FreshPlan(plan, t)
    BY <2>1, PlannedRow
  <2> QED BY <2>2 DEF FreshPlan
<1>4. plans' = Append([plans EXCEPT ![old] = left], right)
  BY <1>0, SMTT(30)
<1>5. /\ left \in Plan
      /\ left.task = t /\ left.version = plans[old].version
      /\ left.memories = plans[old].memories /\ left.supersedes = plans[old].supersedes
      /\ left.supersededBy = n
  BY <1>2 DEF Plan
<1>6. /\ right \in Plan
      /\ right.task = t /\ right.version = NextVersion(t) /\ right.status = "PROPOSED"
      /\ right.supersedes = old /\ right.supersededBy = NoPlan
      /\ \A m \in right.memories : NobodysClient(m)
  BY <1>2, <1>3 DEF Plan
<1> HIDE DEF left, right
<1>7. /\ plans' \in Seq(Plan) /\ Len(plans') = n /\ DOMAIN plans' = 1..n
      /\ plans'[n] = right /\ plans'[old] = left
      /\ \A p \in DOMAIN plans : p # old => plans'[p] = plans[p]
  <2> DEFINE kept == [plans EXCEPT ![old] = left]
  <2>1. /\ kept \in Seq(Plan) /\ Len(kept) = Len(plans) /\ DOMAIN kept = DOMAIN plans
        /\ kept[old] = left /\ \A p \in DOMAIN plans : p # old => kept[p] = plans[p]
    BY <1>5 DEF PlansInv, PlansTypeOK
  <2> HIDE DEF kept
  <2>2. plans' = Append(kept, right)
    BY <1>4 DEF kept
  <2>3. /\ plans' \in Seq(Plan) /\ Len(plans') = Len(kept) + 1
        /\ DOMAIN plans' = 1..(Len(kept) + 1) /\ plans'[Len(kept) + 1] = right
        /\ \A p \in DOMAIN kept : plans'[p] = kept[p]
    <3>1. kept \in Seq(Plan) /\ right \in Plan
      BY <1>6, <2>1
    <3>2. /\ Append(kept, right) \in Seq(Plan)
          /\ Len(Append(kept, right)) = Len(kept) + 1
          /\ DOMAIN Append(kept, right) = 1..(Len(kept) + 1)
          /\ Append(kept, right)[Len(kept) + 1] = right
          /\ \A p \in DOMAIN kept : Append(kept, right)[p] = kept[p]
      BY <3>1, Appended
    <3> QED BY <2>2, <3>2, Zenon
  <2> QED BY <1>2, <2>1, <2>3
<1>8. PlansKept
  BY <1>2, <1>5, <1>7 DEF PlansKept
<1>9. \A p \in DOMAIN plans' : p \notin DOMAIN plans => NewPlanFits(p)
  BY <1>2, <1>6, <1>7, <1>8, NextPlanFits
<1>10. ASSUME NEW p \in DOMAIN plans'
       PROVE  PlanLink(p)'
  <2>1. CASE p = n
    <3> HIDE DEF t, n
    <3>1. /\ plans'[p].supersedes = old /\ plans'[old].supersededBy = n
          /\ plans'[old].task = t /\ plans'[p].task = t
      BY <1>5, <1>6, <1>7, <2>1
    <3>3. old \in 1..(p - 1) /\ n >= p
      BY <1>2, <2>1
    <3>2. plans'[p].supersededBy = NoPlan /\ plans'[p].status = "PROPOSED"
      BY <1>6, <1>7, <2>1
    <3> QED BY <3>1, <3>2, <3>3 DEF PlanLink, NoPlan
  <2>2. CASE p # n
    <3>1. p \in DOMAIN plans /\ p \in Nat /\ PlanLink(p)
      BY <1>2, <1>7, <2>2 DEF PlansInv, LineageIsForward
    <3>2. /\ plans'[p].supersedes = plans[p].supersedes /\ plans'[p].task = plans[p].task
          /\ \/ plans'[p].supersededBy = plans[p].supersededBy /\ plans'[p].status = plans[p].status
             \/ p = old /\ plans'[p].supersededBy = n
      BY <1>5, <1>7, <3>1
    <3>3. plans'[p].supersedes # NoPlan =>
              /\ plans'[p].supersedes \in 1..(p - 1)
              /\ plans'[plans'[p].supersedes].task = plans'[p].task
              /\ plans'[plans'[p].supersedes].supersededBy >= p
      <4> SUFFICES ASSUME plans'[p].supersedes # NoPlan
                   PROVE  /\ plans'[p].supersedes \in 1..(p - 1)
                          /\ plans'[plans'[p].supersedes].task = plans'[p].task
                          /\ plans'[plans'[p].supersedes].supersededBy >= p
        OBVIOUS
      <4> DEFINE r == plans[p].supersedes
      <4>1. /\ r \in 1..(p - 1) /\ r \in DOMAIN plans
            /\ plans[r].task = plans[p].task /\ plans[r].supersededBy >= p
        BY <1>2, <3>1, <3>2 DEF PlanLink
      <4>2. plans'[r].task = plans[r].task
        BY <1>5, <1>7, <4>1
      <4>3. plans'[r].supersededBy >= p
        BY <1>2, <1>5, <1>7, <3>1, <4>1
      <4> QED BY <3>2, <4>1, <4>2, <4>3
    <3>4. plans'[p].supersededBy # NoPlan =>
              /\ plans'[p].supersededBy \in DOMAIN plans' /\ plans'[p].supersededBy > p
              /\ plans'[plans'[p].supersededBy].supersedes = p
      <4>1. CASE p = old
        BY <1>2, <1>5, <1>6, <1>7, <4>1
      <4>2. CASE p # old
        BY <1>2, <1>5, <1>7, <3>1, <4>2 DEF PlanLink
      <4> QED BY <4>1, <4>2
    <3>5. plans'[p].status = "SUPERSEDED" => plans'[p].supersededBy # NoPlan
      BY <1>2, <3>1, <3>2 DEF PlanLink, NoPlan
    <3> QED BY <3>3, <3>4, <3>5 DEF PlanLink, NoPlan
  <2> QED BY <2>1, <2>2
<1> QED BY <1>8, <1>9, <1>10, PlansGrow

LEMMA RejectPlanKeeps ==
    ASSUME PlansInv, KnowledgeInv, MemoriesKept, DOMAIN tasks \subseteq DOMAIN tasks',
           NEW old \in DOMAIN plans, RejectPlan(old)
    PROVE  PlansInv' /\ PlansKept
<1> DEFINE row == [plans[old] EXCEPT !.status = "REJECTED"]
<1>1. plans[old] \in Plan
  BY DEF PlansInv, PlansTypeOK
<1>2. /\ row \in Plan /\ row.status = "REJECTED"
      /\ row.task = plans[old].task /\ row.version = plans[old].version
      /\ row.memories = plans[old].memories
      /\ row.supersedes = plans[old].supersedes /\ row.supersededBy = plans[old].supersededBy
  BY <1>1 DEF Plan
<1>3. plans' = [plans EXCEPT ![old] = row]
  BY DEF RejectPlan
<1> HIDE DEF row
<1>4. PlansKept /\ DOMAIN plans' = DOMAIN plans
  BY <1>2, <1>3 DEF PlansInv, PlansTypeOK, PlansKept
<1>5. \A p \in DOMAIN plans :
          /\ plans'[p].task = plans[p].task
          /\ plans'[p].supersedes = plans[p].supersedes
          /\ plans'[p].supersededBy = plans[p].supersededBy
          /\ plans'[p].status = "SUPERSEDED" => plans[p].status = "SUPERSEDED"
  BY <1>2, <1>3 DEF PlansInv, PlansTypeOK
<1>6. DOMAIN plans = 1..Len(plans) /\ Len(plans) \in Nat
  BY DEF PlansInv, PlansTypeOK
<1>7. \A p \in DOMAIN plans : PlanLink(p)'
  BY <1>4, <1>5, <1>6 DEF PlansInv, LineageIsForward, PlanLink, NoPlan
<1> QED BY <1>4, <1>7, PlansGrow
LEMMA Concatenated ==
    ASSUME NEW S, NEW s \in Seq(S), NEW t \in Seq(S)
    PROVE  /\ s \o t \in Seq(S) /\ DOMAIN (s \o t) = 1..(Len(s) + Len(t))
           /\ \A i \in 1..Len(s) : (s \o t)[i] = s[i]
           /\ \A i \in 1..(Len(s) + Len(t)) :
                 i > Len(s) => i - Len(s) \in 1..Len(t) /\ (s \o t)[i] = t[i - Len(s)]
OBVIOUS

(* The first plan of a task that provisioning makes.                       *)
FirstPlan(plan, t) ==
    /\ plan \in Plan
    /\ plan.task = t /\ plan.version = 1 /\ plan.memories = {}
    /\ plan.status \in {"PROPOSED", "READY"}
    /\ plan.supersedes = NoPlan /\ plan.supersededBy = NoPlan

LEMMA ProvisionedPlan ==
    ASSUME NEW spec \in specs, NEW i \in DOMAIN spec.keys, NEW t \in Nat
    PROVE  FirstPlan(PlanOf(spec, spec.keys[i], t), t)
<1> DEFINE key == spec.keys[i]
<1>1. key \in Key
  BY ProvisioningAssumption
<1>2. RuntimeContent \in Proposal
  BY DEF RuntimeContent, Proposal
<1>3. MutationContent(key) \in Proposal
  <2>1. key.criteria \in SUBSET Criteria /\ key.paths \in SUBSET Paths /\ key.checked \in SUBSET Paths
    BY <1>1 DEF Key
  <2> HIDE DEF key
  <2> QED BY <2>1 DEF MutationContent, RuntimeContent, Proposal
<1> HIDE DEF key
<1>4. ReadOnlyPlan(t) \in Plan /\ MutationPlan(t, key) \in Plan
  BY <1>2, <1>3 DEF ReadOnlyPlan, MutationPlan, NewPlan, Plan, NoPlan
<1>5. FirstPlan(PlanOf(spec, key, t), t)
  BY <1>4 DEF FirstPlan, PlanOf, ReadOnlyPlan, MutationPlan, NewPlan
<1> QED BY <1>5 DEF key

LEMMA ProvisionKeepsPlans ==
    ASSUME PlansInv, KnowledgeInv, LedgerInv, MemoriesKept, NEW p \in Procs, Provision(p)
    PROVE  PlansInv' /\ PlansKept
<1> DEFINE spec == prov[p].spec
           T == Len(tasks)
           P == Len(plans)
           K == Len(spec.keys)
           new == [i \in DOMAIN spec.keys |-> PlanOf(spec, spec.keys[i], T + i)]
           rows == [i \in DOMAIN spec.keys |-> TaskOf(spec, spec.keys[i])]
<1>1. /\ spec \in specs /\ spec.keys \in Seq(Key)
      /\ DOMAIN spec.keys = 1..K /\ K \in Nat
  BY CheckedSpec
<1>2. plans' = plans \o new /\ tasks' = tasks \o rows
  BY DEF Provision, WithTasks
<1>3. /\ T \in Nat /\ DOMAIN tasks = 1..T
      /\ P \in Nat /\ DOMAIN plans = 1..P /\ plans \in Seq(Plan)
  BY DEF LedgerInv, PlansInv, PlansTypeOK
<1> HIDE DEF spec, T, P, K
<1>4. \A i \in 1..K : i \in Nat /\ T + i \in Nat
  BY <1>1, <1>3
<1>5. \A i \in 1..K : FirstPlan(new[i], T + i)
  BY <1>1, <1>4, ProvisionedPlan
<1>6. new \in Seq(Plan) /\ Len(new) = K
  BY <1>1, <1>5 DEF FirstPlan
<1>7. DOMAIN tasks' = 1..(T + K)
  <2>1. rows \in Seq(Task) /\ Len(rows) = K
    BY <1>1, ProvisionedTask
  <2>2. tasks \in Seq(Task) /\ Len(tasks) = T
    BY DEF LedgerInv, T
  <2> HIDE DEF rows
  <2> QED BY <1>2, <2>1, <2>2
<1> HIDE DEF new
<1>8. /\ plans' \in Seq(Plan) /\ DOMAIN plans' = 1..(P + K)
      /\ \A q \in 1..P : plans'[q] = plans[q]
      /\ \A q \in 1..(P + K) : q > P => q - P \in 1..K /\ plans'[q] = new[q - P]
  <2>1. plans \in Seq(Plan) /\ Len(plans) = P
    BY <1>3 DEF P
  <2>2. /\ plans \o new \in Seq(Plan) /\ DOMAIN (plans \o new) = 1..(P + K)
        /\ \A q \in 1..P : (plans \o new)[q] = plans[q]
        /\ \A q \in 1..(P + K) :
              q > P => q - P \in 1..K /\ (plans \o new)[q] = new[q - P]
    BY <1>6, <2>1, Concatenated
  <2> QED BY <1>2, <2>2, Zenon
<1>9. PlansKept
  BY <1>1, <1>3, <1>8 DEF PlansKept
<1>10. ASSUME NEW q \in DOMAIN plans', q \notin DOMAIN plans
       PROVE  NewPlanFits(q) /\ PlanLink(q)'
  <2>1. /\ q > P /\ q - P \in 1..K /\ q \in Nat
        /\ plans'[q].task = T + (q - P) /\ plans'[q].version = 1
        /\ plans'[q].memories = {} /\ plans'[q].status \in {"PROPOSED", "READY"}
        /\ plans'[q].supersedes = NoPlan /\ plans'[q].supersededBy = NoPlan
    <3>1. q > P /\ q \in 1..(P + K) /\ q \in Nat
      BY <1>1, <1>3, <1>8, <1>10
    <3>2. q - P \in 1..K /\ plans'[q] = new[q - P]
      BY <1>8, <3>1
    <3> QED BY <1>5, <3>1, <3>2 DEF FirstPlan
  <2>2. ASSUME NEW r \in DOMAIN plans', r < q, plans'[r].task = plans'[q].task
        PROVE  FALSE
    <3>1. CASE r \in DOMAIN plans
      <4>1. plans'[r].task \in 1..T
        BY <1>3, <1>8, <3>1 DEF PlansInv, PlansTypeOK
      <4> QED BY <1>1, <1>3, <2>1, <2>2, <4>1
    <3>2. CASE r \notin DOMAIN plans
      <4>1. r \in Nat /\ plans'[r].task = T + (r - P)
        <5>1. r > P /\ r \in 1..(P + K) /\ r \in Nat
          BY <1>1, <1>3, <1>8, <3>2
        <5>2. r - P \in 1..K /\ plans'[r] = new[r - P]
          BY <1>8, <5>1
        <5> QED BY <1>5, <5>1, <5>2 DEF FirstPlan
      <4> QED BY <1>3, <2>1, <2>2, <4>1
    <3> QED BY <3>1, <3>2
  <2>3. plans'[q].task \in DOMAIN tasks' /\ plans'[q].version \in 1..q
    BY <1>1, <1>3, <1>7, <2>1
  <2> QED BY <2>1, <2>2, <2>3 DEF NewPlanFits, PlanLink
<1>11. ASSUME NEW q \in DOMAIN plans
       PROVE  PlanLink(q)'
  <2>1. PlanLink(q) /\ q \in 1..P
    BY <1>3 DEF PlansInv, LineageIsForward
  <2>2. plans[q].supersedes # NoPlan => plans[q].supersedes \in 1..P
    BY <1>3, <2>1 DEF PlanLink
  <2> QED BY <1>1, <1>3, <1>8, <2>1, <2>2 DEF PlanLink
<1>12. DOMAIN tasks \subseteq DOMAIN tasks'
  BY <1>1, <1>3, <1>7
<1> QED BY <1>9, <1>10, <1>11, <1>12, PlansGrow
-----------------------------------------------------------------------------
(* The three ledgers together *)

(* No call removes a task.                                                 *)
LEMMA TasksGrow ==
    ASSUME LedgerInv, TaskStep
    PROVE  DOMAIN tasks \subseteq DOMAIN tasks'
<1>1. CASE CreateTask
  BY <1>1 DEF CreateTask, LedgerInv
<1>2. ASSUME NEW t \in DOMAIN tasks,
             \/ WriteContract(t) \/ MarkReady(t) \/ StartRun(t) \/ BlockTask(t)
             \/ DocumentationPending(t) \/ RecordDocumentation(t)
             \/ CompleteTask(t) \/ CancelTask(t)
             \/ \E r \in {0} \cup DOMAIN runs : FailTask(t, r) \/ ImplementationComplete(t, r)
      PROVE  DOMAIN tasks' = DOMAIN tasks
  BY <1>2
  DEF WriteContract, MarkReady, StartRun, BlockTask, DocumentationPending,
      RecordDocumentation, CompleteTask, CancelTask, FailTask, ImplementationComplete, Moves
<1>3. CASE MoveProject \/ AttachRepository
  BY <1>3 DEF MoveProject, AttachRepository
<1> QED BY <1>1, <1>2, <1>3 DEF TaskStep

(* Planning flags the memories in conflict and changes nothing else.       *)
LEMMA RevalidationKeeps ==
    ASSUME KnowledgeInv, NEW conflicts, Revalidated(conflicts)
    PROVE  MemoriesKept
<1>1. ASSUME NEW m \in DOMAIN memories
      PROVE  LET row == [memories[m] EXCEPT !.flagged = @ \/ m \in conflicts] IN
             /\ row \in Memory
             /\ row.seen = memories[m].seen /\ row.lesson = memories[m].lesson
  <2> DEFINE f == memories[m].flagged \/ m \in conflicts
  <2>1. \A b \in BOOLEAN :
            LET row == [memories[m] EXCEPT !.flagged = b] IN
            /\ row \in Memory
            /\ row.seen = memories[m].seen /\ row.lesson = memories[m].lesson
    <3>1. memories[m] \in Memory
      BY DEF KnowledgeInv
    <3> QED BY <3>1 DEF Memory
  <2>2. f \in BOOLEAN
    OBVIOUS
  <2> HIDE DEF f
  <2>3. LET row == [memories[m] EXCEPT !.flagged = f] IN
        /\ row \in Memory
        /\ row.seen = memories[m].seen /\ row.lesson = memories[m].lesson
    BY <2>1, <2>2
  <2> QED BY <2>3, Zenon DEF f
<1>2. memories' = [m \in DOMAIN memories |->
                      [memories[m] EXCEPT !.flagged = @ \/ m \in conflicts]]
  BY DEF Revalidated
<1>3. DOMAIN memories = 1..Len(memories) /\ Len(memories) \in Nat
  BY DEF KnowledgeInv
<1>4. /\ DOMAIN memories' = DOMAIN memories
      /\ \A m \in DOMAIN memories :
            /\ memories'[m] \in Memory
            /\ memories'[m].seen = memories[m].seen
            /\ memories'[m].lesson = memories[m].lesson
  BY <1>1, <1>2
<1>5. memories' \in Seq(Memory)
  <2>1. memories' = [m \in 1..Len(memories) |-> memories'[m]]
    BY <1>2, <1>3
  <2> QED BY <1>3, <1>4, <2>1
<1> QED BY <1>4, <1>5 DEF MemoriesKept

Freeze == [plan : Nat, task : Nat]
FreezesTypeOK == freezes \in Seq(Freeze)

FreezesKept ==
    /\ freezes' \in Seq(Freeze)
    /\ \A f \in DOMAIN freezes : f \in DOMAIN freezes' /\ freezes'[f] = freezes[f]

(* What every step leaves of the rows that a workflow may point to.        *)
RowsKept == DOMAIN tasks \subseteq DOMAIN tasks' /\ PlansKept /\ FreezesKept

AllInv == LedgerInv /\ KnowledgeInv /\ PlansInv /\ FreezesTypeOK

LEMMA AppendedRows ==
    ASSUME NEW S, NEW s \in Seq(S), NEW K \in Nat, NEW rows,
           rows = [i \in 1..K |-> rows[i]], \A i \in 1..K : rows[i] \in S
    PROVE  /\ s \o rows \in Seq(S) /\ DOMAIN (s \o rows) = 1..(Len(s) + K)
           /\ \A i \in 1..Len(s) : (s \o rows)[i] = s[i]
           /\ \A i \in 1..K : (s \o rows)[Len(s) + i] = rows[i]
<1>1. rows \in Seq(S) /\ Len(rows) = K
  <2> DEFINE same == [i \in 1..K |-> rows[i]]
  <2>1. same \in Seq(S) /\ Len(same) = K
    OBVIOUS
  <2> HIDE DEF same
  <2>2. rows = same
    BY DEF same
  <2> QED BY <2>1, <2>2
<1>2. Len(s) \in Nat
  OBVIOUS
<1>3. \A i \in 1..K : Len(s) + i \in 1..(Len(s) + K) /\ Len(s) + i > Len(s)
                      /\ (Len(s) + i) - Len(s) = i
  BY <1>2
<1> QED BY <1>1, <1>3, Concatenated

(* The rows that provisioning appends, one of each table for a key.        *)
ProvisionedSo(spec) ==
    LET T == Len(tasks) P == Len(plans) F == Len(freezes) K == Len(spec.keys) IN
    /\ spec \in specs /\ spec.keys \in Seq(Key) /\ {T, P, F, K} \subseteq Nat
    /\ DOMAIN tasks = 1..T /\ DOMAIN tasks' = 1..(T + K)
    /\ DOMAIN plans' = 1..(P + K) /\ DOMAIN freezes' = 1..(F + K)
    /\ DOMAIN tasks \subseteq DOMAIN tasks' /\ FreezesKept
    /\ \A i \in 1..K : plans'[P + i].task = T + i /\ freezes'[F + i] = NewFreeze(P + i, T + i)

LEMMA ProvisionedRows ==
    ASSUME AllInv, NEW p \in Procs, Provision(p)
    PROVE  ProvisionedSo(prov[p].spec)
<1> DEFINE spec == prov[p].spec
           T == Len(tasks)
           P == Len(plans)
           F == Len(freezes)
           K == Len(spec.keys)
           taskRows == [i \in DOMAIN spec.keys |-> TaskOf(spec, spec.keys[i])]
           planRows == [i \in DOMAIN spec.keys |-> PlanOf(spec, spec.keys[i], T + i)]
           freezeRows == [i \in DOMAIN spec.keys |-> NewFreeze(P + i, T + i)]
<1>1. /\ spec \in specs /\ spec.keys \in Seq(Key)
      /\ DOMAIN spec.keys = 1..K /\ K \in Nat
  BY CheckedSpec DEF AllInv
<1>2. /\ tasks' = tasks \o taskRows /\ plans' = plans \o planRows
      /\ freezes' = freezes \o freezeRows
  BY DEF Provision, WithTasks
<1>3. /\ tasks \in Seq(Task) /\ T \in Nat /\ DOMAIN tasks = 1..T
      /\ plans \in Seq(Plan) /\ P \in Nat
      /\ freezes \in Seq(Freeze) /\ F \in Nat /\ DOMAIN freezes = 1..F
  BY DEF AllInv, LedgerInv, PlansInv, PlansTypeOK, FreezesTypeOK
<1> HIDE DEF spec
<1>4. \A i \in 1..K : i \in Nat /\ T + i \in Nat /\ P + i \in Nat
  BY <1>1, <1>3
<1>5. /\ taskRows = [i \in 1..K |-> taskRows[i]]
      /\ \A i \in 1..K : taskRows[i] \in Task
  BY <1>1, ProvisionedTask
<1>6. /\ planRows = [i \in 1..K |-> planRows[i]]
      /\ \A i \in 1..K : FirstPlan(planRows[i], T + i)
  BY <1>1, <1>4, ProvisionedPlan
<1>7. \A i \in 1..K : planRows[i] \in Plan /\ planRows[i].task = T + i
  BY <1>6 DEF FirstPlan
<1>8. /\ freezeRows = [i \in 1..K |-> freezeRows[i]]
      /\ \A i \in 1..K : freezeRows[i] = NewFreeze(P + i, T + i)
  BY <1>1
<1>9. \A i \in 1..K : freezeRows[i] \in Freeze
  BY <1>4, <1>8 DEF NewFreeze, Freeze
<1> HIDE DEF taskRows, planRows, freezeRows, T, P, F, K
<1>10. Len(tasks) = T /\ Len(plans) = P /\ Len(freezes) = F
  BY DEF T, P, F
<1>11. DOMAIN (tasks \o taskRows) = 1..(T + K)
  BY <1>1, <1>3, <1>5, <1>10, AppendedRows
<1>12. /\ DOMAIN (plans \o planRows) = 1..(P + K)
       /\ \A i \in 1..K : (plans \o planRows)[P + i] = planRows[i]
  BY <1>1, <1>3, <1>6, <1>7, <1>10, AppendedRows
<1>13. /\ freezes \o freezeRows \in Seq(Freeze)
       /\ DOMAIN (freezes \o freezeRows) = 1..(F + K)
       /\ \A f \in 1..F : (freezes \o freezeRows)[f] = freezes[f]
       /\ \A i \in 1..K : (freezes \o freezeRows)[F + i] = freezeRows[i]
  <2>1. freezes \in Seq(Freeze) /\ K \in Nat
    BY <1>1, <1>3
  <2>2. /\ freezes \o freezeRows \in Seq(Freeze)
        /\ DOMAIN (freezes \o freezeRows) = 1..(Len(freezes) + K)
        /\ \A f \in 1..Len(freezes) : (freezes \o freezeRows)[f] = freezes[f]
        /\ \A i \in 1..K : (freezes \o freezeRows)[Len(freezes) + i] = freezeRows[i]
    BY <2>1, <1>8, <1>9, AppendedRows
  <2> QED BY <1>10, <2>2, Zenon
<1>14. \A i \in 1..K : plans'[P + i].task = T + i /\ freezes'[F + i] = NewFreeze(P + i, T + i)
  BY <1>2, <1>7, <1>8, <1>12, <1>13
<1>15. /\ DOMAIN tasks' = 1..(T + K) /\ DOMAIN plans' = 1..(P + K)
       /\ DOMAIN freezes' = 1..(F + K) /\ freezes' \in Seq(Freeze)
       /\ \A f \in 1..F : freezes'[f] = freezes[f]
  BY <1>2, <1>11, <1>12, <1>13, Zenon
<1>16. DOMAIN tasks \subseteq DOMAIN tasks'
  BY <1>1, <1>3, <1>15
<1>17. FreezesKept
  BY <1>1, <1>3, <1>15 DEF FreezesKept
<1>18. ProvisionedSo(spec)
  BY <1>1, <1>3, <1>14, <1>15, <1>16, <1>17 DEF ProvisionedSo, T, P, F, K
<1> QED BY <1>18 DEF spec

LEMMA PlanStepKeeps ==
    ASSUME AllInv, PlanStep
    PROVE  KnowledgeInv' /\ PlansInv' /\ RowsKept
<1> USE DEF AllInv
<1>1. CandidatesKept
  BY CandidatesUnchanged
  DEF PlanStep, CreatePlan, BlockedPlanning, Replan, RejectPlan, FreezePlan, knowledgeVars
<1>2. DOMAIN tasks \subseteq DOMAIN tasks'
  BY DEF PlanStep, CreatePlan, BlockedPlanning, Replan, RejectPlan, FreezePlan, taskVars
<1>3. ASSUME NEW t \in DOMAIN tasks, CreatePlan(t)
      PROVE  MemoriesKept /\ PlansInv' /\ PlansKept
  <2>1. MemoriesKept
    BY <1>3, RevalidationKeeps DEF CreatePlan
  <2> QED BY <1>2, <1>3, <2>1, CreatePlanKeeps
<1>4. ASSUME NEW t \in DOMAIN tasks, BlockedPlanning(t)
      PROVE  MemoriesKept /\ PlansInv' /\ PlansKept
  <2>1. MemoriesKept
    BY <1>4, RevalidationKeeps DEF BlockedPlanning
  <2> QED BY <1>2, <1>4, <2>1, PlansUntouched DEF BlockedPlanning, planVars
<1>5. ASSUME NEW p \in DOMAIN plans, Replan(p)
      PROVE  MemoriesKept /\ PlansInv' /\ PlansKept
  <2>1. MemoriesKept
    BY <1>5, RevalidationKeeps DEF Replan
  <2> QED BY <1>2, <1>5, <2>1, ReplanKeeps
<1>6. ASSUME NEW p \in DOMAIN plans, RejectPlan(p) \/ FreezePlan(p)
      PROVE  MemoriesKept /\ PlansInv' /\ PlansKept
  <2>1. MemoriesKept
    BY <1>6, MemoriesUnchanged DEF RejectPlan, FreezePlan, knowledgeVars
  <2>2. CASE RejectPlan(p)
    BY <1>2, <2>1, <2>2, RejectPlanKeeps
  <2>3. CASE FreezePlan(p)
    BY <1>2, <2>1, <2>3, PlansUntouched DEF FreezePlan
  <2> QED BY <1>6, <2>2, <2>3
<1>7. MemoriesKept /\ PlansInv' /\ PlansKept
  BY <1>3, <1>4, <1>5, <1>6 DEF PlanStep
<1>8. FreezesKept
  <2>1. ASSUME NEW p \in DOMAIN plans, FreezePlan(p)
        PROVE  FreezesKept
    <3>1. plans[p] \in Plan /\ p \in Nat
      BY DEF PlansInv, PlansTypeOK
    <3>2. NewFreeze(p, plans[p].task) \in Freeze
      BY <3>1 DEF Plan, NewFreeze, Freeze
    <3> QED BY <2>1, <3>2 DEF FreezePlan, FreezesTypeOK, FreezesKept
  <2>2. UNCHANGED freezes => FreezesKept
    BY DEF FreezesTypeOK, FreezesKept
  <2> QED BY <2>1, <2>2
       DEF PlanStep, CreatePlan, BlockedPlanning, Replan, RejectPlan, planVars
<1> QED BY <1>1, <1>2, <1>7, <1>8, KeptRowsKeepKnowledge DEF RowsKept

LEMMA AllInvKept ==
    ASSUME AllInv, [Next]_vars
    PROVE  AllInv' /\ RowsKept
<1> USE DEF AllInv
<1>1. LedgerInv'
  BY LedgerInvKept
<1>2. ASSUME UNCHANGED knowledgeVars
      PROVE  MemoriesKept /\ CandidatesKept /\ KnowledgeInv'
  BY <1>2, MemoriesUnchanged, CandidatesUnchanged, KeptRowsKeepKnowledge DEF knowledgeVars
<1>3. ASSUME UNCHANGED knowledgeVars, UNCHANGED planVars, DOMAIN tasks \subseteq DOMAIN tasks'
      PROVE  KnowledgeInv' /\ PlansInv' /\ RowsKept
  BY <1>2, <1>3, PlansUntouched DEF planVars, FreezesTypeOK, FreezesKept, RowsKept
<1>9. RowsKept => FreezesTypeOK'
  BY DEF RowsKept, FreezesKept, FreezesTypeOK
<1>4. CASE TaskStep /\ UNCHANGED <<knowledgeVars, planVars, provVars>>
  BY <1>1, <1>3, <1>4, <1>9, TasksGrow
<1>5. CASE KnowledgeStep /\ UNCHANGED <<planVars, provVars>>
  <2>1. MemoriesKept /\ CandidatesKept
    BY <1>5, KnowledgeStepKeeps
  <2>2. UNCHANGED tasks
    BY <1>5 DEF KnowledgeStep, CreateMemory, CreateCandidate, CaptureTaskExperience,
         CaptureFailureMemory, ValidateMemory, ContradictMemory, DeprecateMemory,
         MarkRevalidation, ClearRevalidation, PropagateStaleness, SupersedeMemory,
         ValidateCandidate, RejectCandidate, NeedsMoreEvidence, PromoteCandidate,
         MemoryMoves, CandidateMoves, taskVars
  <2>3. PlansInv' /\ RowsKept
    BY <1>5, <2>1, <2>2, PlansUntouched DEF planVars, FreezesTypeOK, FreezesKept, RowsKept
  <2> QED BY <1>1, <1>9, <2>1, <2>3, KeptRowsKeepKnowledge
<1>6. CASE PlanStep
  BY <1>1, <1>6, <1>9, PlanStepKeeps
<1>7. ASSUME NEW p \in Procs, Provision(p)
      PROVE  AllInv' /\ RowsKept
  <2>1. UNCHANGED knowledgeVars
    BY <1>7 DEF Provision
  <2>2. PlansInv' /\ PlansKept
    BY <1>2, <1>7, <2>1, ProvisionKeepsPlans
  <2>3. DOMAIN tasks \subseteq DOMAIN tasks' /\ FreezesKept
    BY <1>7, ProvisionedRows DEF ProvisionedSo
  <2> QED BY <1>1, <1>2, <1>9, <2>1, <2>2, <2>3 DEF RowsKept
<1>8. CASE \/ \E p \in Procs : Begin(p) \/ Check(p) \/ Abandoned(p)
           \/ EditCheckout \/ UNCHANGED vars
  <2>1. UNCHANGED <<tasks, knowledgeVars, planVars>>
    BY <1>8 DEF Begin, Check, Abandoned, EditCheckout, vars, taskVars
  <2> QED BY <1>1, <1>3, <1>9, <2>1
<1> QED BY <1>4, <1>5, <1>6, <1>7, <1>8 DEF Next

LEMMA AllInvInitially == Init => AllInv
<1> SUFFICES ASSUME Init PROVE AllInv
  OBVIOUS
<1>1. CommandsHaveSpecs
  BY DEF Init, Off, CommandsHaveSpecs
<1>2. PICK ledger \in firstLedgers : tasks = ledger.tasks /\ runs = ledger.runs
  BY DEF Init, TaskInit
<1>3. LedgerInv
  BY <1>1, <1>2, LedgerAssumption DEF LedgerInv, WorkIsBacked
<1>4. KnowledgeInv
  BY DEF Init, KnowledgeInit, KnowledgeInv
<1>5. PlansInv
  BY DEF Init, PlanInit, PlansInv, PlansTypeOK, ShownIsAllowed, LineageIsForward, VersionsRise
<1>6. FreezesTypeOK
  BY DEF Init, PlanInit, FreezesTypeOK
<1> QED BY <1>3, <1>4, <1>5, <1>6 DEF AllInv

(* WorkIsBacked holds of every ledger: what mark_ready found COMPLETE      *)
(* stays so, and who worked on a task has left a run.                      *)
THEOREM LedgerBacked == Spec => []WorkIsBacked
<1>1. AllInv => WorkIsBacked
  BY DEF AllInv, LedgerInv
<1> QED BY <1>1, AllInvInitially, AllInvKept, PTL DEF Spec

(* LineageIsForward holds of any number of plans, rejected and planned     *)
(* again in any order, beside provisioned ones.                            *)
THEOREM LineageForward == Spec => []LineageIsForward
<1>1. AllInv => LineageIsForward
  BY DEF AllInv, PlansInv
<1> QED BY <1>1, AllInvInitially, AllInvKept, PTL DEF Spec

(* ClientKnowledgeStays holds whatever is observed, learned, validated,    *)
(* sanitized and promoted, of any number of clients.                       *)
THEOREM ClientsFirewalled == Spec => []ClientKnowledgeStays
<1>1. AllInv => ClientKnowledgeStays
  <2> SUFFICES ASSUME AllInv, NEW p \in DOMAIN plans, NEW m \in plans[p].memories
               PROVE  /\ memories[m].seen.project \notin Clients
                      /\ memories[m].lesson # 0 =>
                            candidates[memories[m].lesson].lesson.project \notin Clients
    BY DEF ClientKnowledgeStays
  <2>1. m \in DOMAIN memories /\ memories[m].seen.project \notin Clients
    BY DEF AllInv, PlansInv, ShownIsAllowed, NobodysClient
  <2>2. Attributed(memories[m], candidates)
    BY <2>1 DEF AllInv, KnowledgeInv
  <2> QED BY <2>1, <2>2 DEF Attributed
<1> QED BY <1>1, AllInvInitially, AllInvKept, PTL DEF Spec
-----------------------------------------------------------------------------
(* Whole and once.  A command that has passed its checks still has no      *)
(* workflow of its specification before it, since it alone holds the lock. *)

Workflow ==
    [kind : {"READ_ONLY", "MUTATION"}, id : STRING, key : STRING,
     task : Nat, plan : Nat, freeze : Nat]

LockHeld == \A p \in Procs : prov[p] # Off => store = p
CheckedIsNew == \A p \in Procs : prov[p].at = "checked" => NotProvisioned(prov[p].spec)

ProvisioningInv ==
    /\ workflows \in Seq(Workflow)
    /\ LockHeld
    /\ CheckedIsNew
    /\ ProvisionedWholeAndOnce

(* Workflows that stay keep their rows, whatever else is appended.         *)
LEMMA WorkflowsStay ==
    ASSUME AllInv, ProvisioningInv, RowsKept, UNCHANGED workflows
    PROVE  workflows' \in Seq(Workflow) /\ ProvisionedWholeAndOnce'
<1>1. ASSUME NEW w \in DOMAIN workflows'
      PROVE  WholeSpec(workflows[w].kind, workflows[w].id)' /\ OwnRows(w)'
  <2>1. w \in DOMAIN workflows /\ workflows' = workflows
    OBVIOUS
  <2>2. WholeSpec(workflows[w].kind, workflows[w].id) /\ OwnRows(w)
    BY <2>1 DEF ProvisioningInv, ProvisionedWholeAndOnce
  <2>3. WholeSpec(workflows[w].kind, workflows[w].id)'
    <3>1. \A kind, id : Provisioned(kind, id)' = Provisioned(kind, id)
      BY DEF Provisioned
    <3>2. \A W : {workflows'[v].key : v \in W} = {workflows[v].key : v \in W}
      OBVIOUS
    <3> QED BY <2>1, <2>2, <3>1, <3>2 DEF WholeSpec
  <2>4. OwnRows(w)'
    BY <2>1, <2>2 DEF OwnRows, RowsKept, PlansKept, FreezesKept
  <2> QED BY <2>3, <2>4
<1> QED BY <1>1 DEF ProvisioningInv, ProvisionedWholeAndOnce

(* Whoever ends held the lock, so nobody holds it and nobody is checked.   *)
LEMMA EndingFreesLock ==
    ASSUME AllInv, ProvisioningInv, NEW p \in Procs, prov[p] # Off, Ends(p)
    PROVE  LockHeld' /\ CheckedIsNew'
<1>1. \A q \in Procs : q # p => prov[q] = Off
  BY DEF ProvisioningInv, LockHeld
<1>2. \A q \in Procs : prov'[q] = Off
  BY <1>1 DEF Ends, AllInv, LedgerInv, CommandsHaveSpecs
<1> QED BY <1>2 DEF LockHeld, CheckedIsNew, Off

LEMMA CommandsKeepLock ==
    ASSUME AllInv, ProvisioningInv, UNCHANGED workflows,
           \/ UNCHANGED <<store, prov>>
           \/ \E p \in Procs : Begin(p) \/ Check(p) \/ Abandoned(p)
    PROVE  LockHeld' /\ CheckedIsNew'
<1>1. prov \in [Procs -> [at : {"off", "begun", "checked"}, spec : specs \cup {NoSpec}]]
  BY DEF AllInv, LedgerInv, CommandsHaveSpecs
<1>2. CASE UNCHANGED <<store, prov>>
  BY <1>2 DEF ProvisioningInv, LockHeld, CheckedIsNew, NotProvisioned, Provisioned
<1>3. ASSUME NEW p \in Procs, Begin(p)
      PROVE  LockHeld' /\ CheckedIsNew'
  <2>1. \A q \in Procs : prov[q] = Off
    BY <1>3, ProvisioningAssumption DEF Begin, LockFree, ProvisioningInv, LockHeld
  <2>2. PICK spec \in specs :
            prov' = [prov EXCEPT ![p] = [at |-> "begun", spec |-> spec]] /\ store' = p
    BY <1>3 DEF Begin
  <2>3. /\ prov'[p].at = "begun"
        /\ \A q \in Procs : q # p => prov'[q] = Off
    BY <1>1, <2>1, <2>2
  <2> QED BY <2>2, <2>3 DEF LockHeld, CheckedIsNew, Off
<1>4. ASSUME NEW p \in Procs, Check(p)
      PROVE  LockHeld' /\ CheckedIsNew'
  <2>1. /\ prov[p].at = "begun" /\ store' = store
        /\ prov' = [prov EXCEPT ![p].at = "checked"] /\ NotProvisioned(prov[p].spec)
    BY <1>4 DEF Check
  <2>2. store = p /\ \A q \in Procs : q # p => prov[q] = Off
    BY <2>1 DEF ProvisioningInv, LockHeld, Off
  <2>3. /\ prov'[p].spec = prov[p].spec
        /\ \A q \in Procs : q # p => prov'[q] = Off
    BY <1>1, <2>1, <2>2
  <2>4. NotProvisioned(prov[p].spec)'
    BY <2>1, <2>3 DEF NotProvisioned, Provisioned
  <2> QED BY <2>1, <2>2, <2>3, <2>4 DEF LockHeld, CheckedIsNew, Off, NotProvisioned, Provisioned
<1>5. ASSUME NEW p \in Procs, Abandoned(p)
      PROVE  LockHeld' /\ CheckedIsNew'
  BY <1>5, EndingFreesLock DEF Abandoned
<1> QED BY <1>2, <1>3, <1>4, <1>5
LEMMA WorkflowRow ==
    ASSUME NEW spec \in specs, NEW key \in Key, NEW t \in Nat, NEW q \in Nat, NEW f \in Nat
    PROVE  WorkflowOf(spec, key, t, q, f) \in Workflow
<1>1. spec.kind \in {"READ_ONLY", "MUTATION"} /\ spec.id \in STRING
  BY ProvisioningAssumption
<1>2. key.key \in STRING
  BY DEF Key
<1> QED BY <1>1, <1>2 DEF WorkflowOf, Workflow

(* The transaction: the workflows of other identifiers stay as they were,  *)
(* those of this one are the appended ones, and each has rows of its own.  *)
LEMMA ProvisionIsWhole ==
    ASSUME AllInv, ProvisioningInv, RowsKept, NEW p \in Procs, Provision(p)
    PROVE  ProvisioningInv'
<1> DEFINE spec == prov[p].spec
           T == Len(tasks)
           P == Len(plans)
           F == Len(freezes)
           N == Len(workflows)
           K == Len(spec.keys)
           rows == [i \in DOMAIN spec.keys |->
                       WorkflowOf(spec, spec.keys[i], T + i, P + i, F + i)]
<1>1. prov[p].at = "checked" /\ Ends(p) /\ workflows' = workflows \o rows
  BY DEF Provision
<1>2. NotProvisioned(spec)
  BY <1>1 DEF ProvisioningInv, CheckedIsNew
<1>3. ProvisionedSo(spec)
  BY ProvisionedRows
<1>4. LockHeld' /\ CheckedIsNew'
  <2>1. prov[p] # Off
    BY <1>1 DEF Off
  <2> QED BY <1>1, <2>1, EndingFreesLock
<1> HIDE DEF spec
<1>5. /\ spec \in specs /\ spec.keys \in Seq(Key) /\ K \in Nat /\ DOMAIN spec.keys = 1..K
      /\ T \in Nat /\ P \in Nat /\ F \in Nat
      /\ workflows \in Seq(Workflow) /\ N \in Nat /\ DOMAIN workflows = 1..N
  BY <1>3 DEF ProvisionedSo, ProvisioningInv
<1>6. rows = [i \in 1..K |-> rows[i]]
  BY <1>5
<1>7. \A i \in 1..K : rows[i] = WorkflowOf(spec, spec.keys[i], T + i, P + i, F + i)
  BY <1>5
<1> HIDE DEF rows
<1>8. \A i \in 1..K :
          /\ rows[i] \in Workflow
          /\ rows[i].kind = spec.kind /\ rows[i].id = spec.id
          /\ rows[i].key = spec.keys[i].key
          /\ rows[i].task = T + i /\ rows[i].plan = P + i /\ rows[i].freeze = F + i
  <2>1. \A i \in 1..K : spec.keys[i] \in Key
    BY <1>5
  <2>2. \A i \in 1..K : T + i \in Nat /\ P + i \in Nat /\ F + i \in Nat
    BY <1>5
  <2> HIDE DEF T, P, F, K
  <2>3. \A i \in 1..K : rows[i] \in Workflow
    <3>1. spec \in specs
      BY <1>5
    <3>2. \A i \in 1..K : WorkflowOf(spec, spec.keys[i], T + i, P + i, F + i) \in Workflow
      BY <2>1, <2>2, <3>1, WorkflowRow, ZenonT(30)
    <3> QED BY <1>7, <3>2, Zenon
  <2>4. \A i \in 1..K :
            LET row == WorkflowOf(spec, spec.keys[i], T + i, P + i, F + i) IN
            /\ row.kind = spec.kind /\ row.id = spec.id /\ row.key = spec.keys[i].key
            /\ row.task = T + i /\ row.plan = P + i /\ row.freeze = F + i
    BY Zenon DEF WorkflowOf
  <2>5. \A i \in 1..K :
            /\ rows[i].kind = spec.kind /\ rows[i].id = spec.id
            /\ rows[i].key = spec.keys[i].key
            /\ rows[i].task = T + i /\ rows[i].plan = P + i /\ rows[i].freeze = F + i
    BY <1>7, <2>4, Zenon
  <2> QED BY <2>3, <2>5
<1>9. /\ workflows' \in Seq(Workflow) /\ DOMAIN workflows' = 1..(N + K)
      /\ \A w \in 1..N : workflows'[w] = workflows[w]
      /\ \A i \in 1..K : workflows'[N + i] = rows[i]
  <2>1. /\ workflows \o rows \in Seq(Workflow)
        /\ DOMAIN (workflows \o rows) = 1..(N + K)
        /\ \A w \in 1..N : (workflows \o rows)[w] = workflows[w]
        /\ \A i \in 1..K : (workflows \o rows)[N + i] = rows[i]
    <3>1. workflows \in Seq(Workflow) /\ K \in Nat /\ \A i \in 1..K : rows[i] \in Workflow
      BY <1>5, <1>8
    <3> HIDE DEF N, K
    <3>2. /\ workflows \o rows \in Seq(Workflow)
          /\ DOMAIN (workflows \o rows) = 1..(Len(workflows) + K)
          /\ \A w \in 1..Len(workflows) : (workflows \o rows)[w] = workflows[w]
          /\ \A i \in 1..K : (workflows \o rows)[Len(workflows) + i] = rows[i]
      BY <1>6, <3>1, AppendedRows
    <3> QED BY <3>2, Zenon DEF N
  <2> HIDE DEF N, K
  <2> QED BY <1>1, <2>1, Zenon
<1>10. /\ DOMAIN tasks = 1..T /\ DOMAIN tasks' = 1..(T + K)
       /\ DOMAIN plans' = 1..(P + K) /\ DOMAIN freezes' = 1..(F + K)
       /\ \A i \in 1..K : /\ plans'[P + i].task = T + i
                          /\ freezes'[F + i] = NewFreeze(P + i, T + i)
  BY <1>3 DEF ProvisionedSo
<1> HIDE DEF T, P, F, N, K
<1>11. \A w \in DOMAIN workflows' : w \in 1..N \/ \E i \in 1..K : w = N + i
  <2> SUFFICES ASSUME NEW w \in 1..(N + K), w \notin 1..N
               PROVE  \E i \in 1..K : w = N + i
    BY <1>9
  <2>1. w - N \in 1..K /\ w = N + (w - N)
    BY <1>5
  <2> QED BY <2>1
<1>12. \A w \in 1..N : w \in DOMAIN workflows' /\ OwnRows(w) /\ workflows[w].task \in 1..T
  <2> SUFFICES ASSUME NEW w \in 1..N
               PROVE  w \in DOMAIN workflows' /\ OwnRows(w) /\ workflows[w].task \in 1..T
    OBVIOUS
  <2>1. w \in DOMAIN workflows /\ w \in DOMAIN workflows'
    BY <1>5, <1>9
  <2>2. OwnRows(w)
    BY <2>1 DEF ProvisioningInv, ProvisionedWholeAndOnce
  <2>3. workflows[w].task \in DOMAIN tasks
    BY <2>2 DEF OwnRows
  <2> QED BY <1>10, <2>1, <2>2, <2>3
<1>13. ASSUME NEW w \in 1..N
       PROVE  OwnRows(w)'
  <2>1. ASSUME NEW v \in DOMAIN workflows', workflows'[v].task = workflows[w].task
        PROVE  v = w
    <3>1. CASE v \in 1..N
      BY <1>5, <1>9, <1>12, <2>1, <3>1 DEF OwnRows
    <3>2. ASSUME NEW i \in 1..K, v = N + i
          PROVE  FALSE
      <4>1. workflows'[v].task = T + i
        BY <1>8, <1>9, <3>2
      <4>2. workflows[w].task \in 1..T /\ T + i = workflows[w].task
        BY <1>12, <2>1, <4>1
      <4> QED BY <1>5, <4>2
    <3> QED BY <1>11, <3>1, <3>2
  <2>2. workflows'[w] = workflows[w] /\ OwnRows(w)
    BY <1>9, <1>12
  <2> QED BY <2>1, <2>2 DEF OwnRows, RowsKept, PlansKept, FreezesKept
<1>14. ASSUME NEW i \in 1..K, NEW w, w = N + i
       PROVE  OwnRows(w)'
  <2>1. /\ workflows'[w].task = T + i /\ workflows'[w].plan = P + i
        /\ workflows'[w].freeze = F + i
    BY <1>8, <1>9, <1>14
  <2>2. T + i \in 1..(T + K) /\ P + i \in 1..(P + K) /\ F + i \in 1..(F + K)
    BY <1>5
  <2>3. ASSUME NEW v \in DOMAIN workflows', workflows'[v].task = T + i
        PROVE  v = w
    <3>1. CASE v \in 1..N
      <4>1. workflows[v].task = T + i /\ workflows[v].task \in 1..T
        BY <1>9, <1>12, <2>3, <3>1
      <4> QED BY <1>5, <4>1
    <3>2. ASSUME NEW j \in 1..K, v = N + j
          PROVE  v = w
      <4>1. workflows'[v].task = T + j
        BY <1>8, <1>9, <3>2
      <4> QED BY <1>5, <1>14, <2>3, <3>2, <4>1
    <3> QED BY <1>11, <3>1, <3>2
  <2>4. /\ T + i \in DOMAIN tasks' /\ P + i \in DOMAIN plans' /\ F + i \in DOMAIN freezes'
        /\ plans'[P + i].task = T + i /\ freezes'[F + i] = NewFreeze(P + i, T + i)
    BY <1>10, <2>2
  <2>5. freezes'[F + i] = [plan |-> P + i, task |-> T + i]
    BY <2>4 DEF NewFreeze
  <2>6. /\ workflows'[w].task \in DOMAIN tasks'
        /\ workflows'[w].plan \in DOMAIN plans'
        /\ workflows'[w].freeze \in DOMAIN freezes'
        /\ plans'[workflows'[w].plan].task = workflows'[w].task
        /\ freezes'[workflows'[w].freeze]
              = [plan |-> workflows'[w].plan, task |-> workflows'[w].task]
    BY <2>1, <2>4, <2>5, Zenon
  <2>7. \A v \in DOMAIN workflows' : workflows'[v].task = workflows'[w].task => v = w
    BY <2>1, <2>3
  <2> QED BY <2>6, <2>7 DEF OwnRows, NewFreeze
<1>15. ASSUME NEW w \in 1..N
       PROVE  WholeSpec(workflows[w].kind, workflows[w].id)'
  <2> DEFINE kind == workflows[w].kind
             id == workflows[w].id
  <2>1. ~(kind = spec.kind /\ id = spec.id)
    BY <1>2, <1>5 DEF NotProvisioned, Provisioned
  <2>2. workflows'[w].kind = kind /\ workflows'[w].id = id
    BY <1>9
  <2>3. WholeSpec(kind, id)
    BY <1>5 DEF ProvisioningInv, ProvisionedWholeAndOnce
  <2> HIDE DEF kind, id
  <2>4. \A v : v \in DOMAIN workflows' /\ workflows'[v].kind = kind /\ workflows'[v].id = id
            <=> v \in DOMAIN workflows /\ workflows[v].kind = kind /\ workflows[v].id = id
    <3>1. \A v \in 1..N : v \in DOMAIN workflows' /\ v \in DOMAIN workflows
                         /\ workflows'[v] = workflows[v]
      BY <1>5, <1>9, <1>12
    <3>2. \A i \in 1..K : ~(workflows'[N + i].kind = kind /\ workflows'[N + i].id = id)
      BY <1>8, <1>9, <2>1
    <3>3. \A v \in DOMAIN workflows' : v \in 1..N \/ ~(workflows'[v].kind = kind /\ workflows'[v].id = id)
      BY <1>11, <3>2
    <3> QED BY <1>5, <3>1, <3>3
  <2>5. {v \in DOMAIN workflows' : workflows'[v].kind = kind /\ workflows'[v].id = id}
          = {v \in DOMAIN workflows : workflows[v].kind = kind /\ workflows[v].id = id}
    BY <2>4
  <2> DEFINE W == {v \in DOMAIN workflows : workflows[v].kind = kind /\ workflows[v].id = id}
  <2>6. {workflows'[v].key : v \in W} = {workflows[v].key : v \in W}
    BY <1>5, <1>9
  <2>7. W # {} => \E s \in specs :
            /\ s.kind = kind /\ s.id = id /\ Cardinality(W) = Len(s.keys)
            /\ {workflows[v].key : v \in W} = {s.keys[i].key : i \in DOMAIN s.keys}
    BY <2>3 DEF WholeSpec, Provisioned
  <2> HIDE DEF W
  <2>8. W # {} => \E s \in specs :
            /\ s.kind = kind /\ s.id = id /\ Cardinality(W) = Len(s.keys)
            /\ {workflows'[v].key : v \in W} = {s.keys[i].key : i \in DOMAIN s.keys}
    BY <2>6, <2>7
  <2>9. W = {v \in DOMAIN workflows' : workflows'[v].kind = kind /\ workflows'[v].id = id}
    BY <2>5 DEF W
  <2> QED BY <2>2, <2>8, <2>9, Zenon DEF WholeSpec, Provisioned
<1>16. ASSUME NEW w \in DOMAIN workflows', w \notin 1..N
       PROVE  WholeSpec(workflows[w].kind, workflows[w].id)'
  <2> DEFINE W == {v \in DOMAIN workflows' :
                     workflows'[v].kind = spec.kind /\ workflows'[v].id = spec.id}
  <2>1. \A v \in 1..N : ~(workflows'[v].kind = spec.kind /\ workflows'[v].id = spec.id)
    BY <1>2, <1>5, <1>9 DEF NotProvisioned, Provisioned
  <2>2. \A i \in 1..K : /\ workflows'[N + i].kind = spec.kind /\ workflows'[N + i].id = spec.id
                       /\ workflows'[N + i].key = spec.keys[i].key
                       /\ N + i \in DOMAIN workflows' /\ N + i \in (N + 1)..(N + K)
    <3>1. \A i \in 1..K : N + i \in 1..(N + K) /\ N + i \in (N + 1)..(N + K)
      BY <1>5
    <3> QED BY <1>8, <1>9, <3>1
  <2>3. W = (N + 1)..(N + K)
    <3>1. \A v \in (N + 1)..(N + K) : \E i \in 1..K : v = N + i
      <4> SUFFICES ASSUME NEW v \in (N + 1)..(N + K) PROVE \E i \in 1..K : v = N + i
        OBVIOUS
      <4>1. v - N \in 1..K /\ v = N + (v - N)
        BY <1>5
      <4> QED BY <4>1
    <3> QED BY <1>11, <2>1, <2>2, <3>1
  <2>4. Cardinality(W) = K
    <3>1. /\ N + 1 \in Int /\ N + K \in Int
          /\ (IF N + 1 > N + K THEN 0 ELSE (N + K) - (N + 1) + 1) = K
      BY <1>5
    <3> HIDE DEF W
    <3>2. Cardinality((N + 1)..(N + K)) = IF N + 1 > N + K THEN 0 ELSE (N + K) - (N + 1) + 1
      BY <3>1, FS_Interval, Zenon
    <3> QED BY <2>3, <3>1, <3>2
  <2>5. {workflows'[v].key : v \in W} = {spec.keys[i].key : i \in DOMAIN spec.keys}
    <3>1. \A v \in W : \E i \in 1..K : v = N + i
      BY <1>11, <2>1
    <3>2. \A i \in 1..K : N + i \in W
      BY <2>2
    <3> HIDE DEF W
    <3>3. \A i \in 1..K : workflows'[N + i].key = spec.keys[i].key
      BY <2>2
    <3>4. {workflows'[v].key : v \in W} = {spec.keys[i].key : i \in 1..K}
      BY <3>1, <3>2, <3>3
    <3> QED BY <1>5, <3>4
  <2>6. workflows'[w].kind = spec.kind /\ workflows'[w].id = spec.id
    BY <1>11, <1>16, <2>2
  <2>7. /\ spec \in specs /\ Cardinality(W) = Len(spec.keys)
    BY <1>5, <2>4 DEF K
  <2>8. W = {v \in DOMAIN workflows' :
               workflows'[v].kind = workflows'[w].kind /\ workflows'[v].id = workflows'[w].id}
    BY <2>6
  <2> HIDE DEF W
  <2>9. \E s \in specs :
            /\ s.kind = workflows'[w].kind /\ s.id = workflows'[w].id
            /\ Cardinality(W) = Len(s.keys)
            /\ {workflows'[v].key : v \in W} = {s.keys[i].key : i \in DOMAIN s.keys}
    BY <2>5, <2>6, <2>7
  <2> QED BY <2>8, <2>9, Zenon DEF WholeSpec, Provisioned
<1>17. ASSUME NEW w \in DOMAIN workflows'
       PROVE  WholeSpec(workflows[w].kind, workflows[w].id)' /\ OwnRows(w)'
  BY <1>11, <1>13, <1>14, <1>15, <1>16
<1> QED BY <1>4, <1>9, <1>17 DEF ProvisioningInv, ProvisionedWholeAndOnce

(* ProvisionedWholeAndOnce holds of any number of commands over any        *)
(* specifications, whoever dies in between and whatever others do.         *)
THEOREM WholeAndOnce == Spec => []ProvisionedWholeAndOnce
<1>1. Init => ProvisioningInv
  BY DEF Init, ProvisioningInv, LockHeld, CheckedIsNew, Off, ProvisionedWholeAndOnce
<1>2. ASSUME AllInv, ProvisioningInv, [Next]_vars
      PROVE  ProvisioningInv'
  <2>1. RowsKept
    BY <1>2, AllInvKept
  <2>2. ASSUME UNCHANGED workflows,
               \/ UNCHANGED <<store, prov>>
               \/ \E p \in Procs : Begin(p) \/ Check(p) \/ Abandoned(p)
        PROVE  ProvisioningInv'
    BY <1>2, <2>1, <2>2, WorkflowsStay, CommandsKeepLock DEF ProvisioningInv
  <2>3. CASE \E p \in Procs : Provision(p)
    BY <1>2, <2>1, <2>3, ProvisionIsWhole
  <2>4. CASE \E p \in Procs : Begin(p) \/ Check(p) \/ Abandoned(p)
    BY <2>2, <2>4 DEF Begin, Check, Abandoned
  <2>5. CASE UNCHANGED provVars \/ EditCheckout \/ UNCHANGED vars
    BY <2>2, <2>5 DEF provVars, EditCheckout, vars
  <2> QED BY <1>2, <2>3, <2>4, <2>5 DEF Next, provVars
<1>3. ProvisioningInv => ProvisionedWholeAndOnce
  BY DEF ProvisioningInv
<1> QED BY <1>1, <1>2, <1>3, AllInvInitially, AllInvKept, PTL DEF Spec
=============================================================================
