-------------------------- MODULE KnowledgeLedger --------------------------
(***************************************************************************)
(* What is remembered and learned: memory entries (memory/service.py,      *)
(* validation.py), learning candidates (learning/service.py) and the       *)
(* knowledge firewall between projects (memory/firewall.py).               *)
(*                                                                         *)
(* The project of the task ledger is This; the others that matter here are *)
(* the Clients, of type CLIENT.  A call that is refused changes nothing.   *)
(***************************************************************************)
EXTENDS TaskLedger

CONSTANTS
    Clients, This, NoProject,
    Evidence,           \* evidence references
    observed,           \* memories that callers create
    learned,            \* candidates that callers create
    promotions,         \* scopes that callers promote to
    MaxMemories, MaxCandidates      \* bounds: number of either

KnowledgeScope == {"GLOBAL", "DFG", "DOMAIN", "PROJECT", "CLIENT", "SESSION"}
SanitizationStatus == {"NOT_REQUIRED", "REQUIRED", "SANITIZED", "REJECTED"}
Owners == Clients \cup {This, NoProject}

\* reference, work: it has a source_reference, a source task or run.
Observation ==
    [project : Owners, scope : KnowledgeScope,
     status : {"OBSERVED", "CANDIDATE", "VALIDATED"},
     evidence : SUBSET Evidence, reference : BOOLEAN, work : BOOLEAN]
\* sanitized is "default" when the caller leaves it to the service.
Lesson ==
    [project : Owners, scope : KnowledgeScope,
     sanitized : SanitizationStatus \cup {"default"}, evidence : SUBSET Evidence,
     memories : SUBSET Nat, documents : BOOLEAN, correction : BOOLEAN]

ASSUME KnowledgeAssumption ==
    /\ This # NoProject /\ {This, NoProject} \cap Clients = {}
    /\ observed \subseteq Observation /\ learned \subseteq Lesson
    /\ promotions \subseteq KnowledgeScope
    /\ MaxMemories \in Nat /\ MaxCandidates \in Nat

VARIABLES
    memories,       \* the MemoryEntry rows in the order of their ids
    candidates      \* the LearningCandidate rows, likewise

knowledgeVars == <<memories, candidates>>

----------------------------------------------------------------------------
(* Memories *)

\* lesson is the candidate it was promoted from, or 0.
NewMemory(seen, lesson) ==
    [seen |-> seen, status |-> seen.status, lesson |-> lesson, flagged |-> FALSE,
     supersedes |-> 0, supersededBy |-> 0]

HasProvenance(seen) == seen.evidence # {} \/ seen.reference \/ seen.work

\* validate_memory_creation, and what create_memory refuses of a client.
Creatable(seen) ==
    /\ seen.scope \in {"PROJECT", "CLIENT"} => seen.project # NoProject
    /\ seen.status = "VALIDATED" => HasProvenance(seen)
    /\ seen.scope = "GLOBAL" =>
          /\ seen.status = "VALIDATED" => seen.evidence # {}
          /\ seen.project \notin Clients

WithMemory(seen, lesson) ==
    /\ Len(memories) < MaxMemories /\ Creatable(seen)
    /\ memories' = Append(memories, NewMemory(seen, lesson))

CreateMemory ==
    /\ Call
    /\ \E seen \in observed : WithMemory(seen, 0)
    /\ UNCHANGED <<taskVars, candidates>>

MemoryMoves(m, row) ==
    /\ Call
    /\ memories' = [memories EXCEPT ![m] = row]
    /\ UNCHANGED <<taskVars, candidates>>

\* From any status, also SUPERSEDED; the revalidation flag stays.
ValidateMemory(m) ==
    /\ HasProvenance(memories[m].seen)
    /\ MemoryMoves(m, [memories[m] EXCEPT !.status = "VALIDATED"])

ContradictMemory(m) == MemoryMoves(m, [memories[m] EXCEPT !.status = "CONTRADICTED"])
DeprecateMemory(m) == MemoryMoves(m, [memories[m] EXCEPT !.status = "DEPRECATED"])

\* Only a circle of two is refused.
SupersedeMemory(old, new) ==
    /\ Call
    /\ old # new
    /\ memories[new].supersededBy # old /\ memories[old].supersedes # new
    /\ memories' = [memories EXCEPT ![old].status = "SUPERSEDED",
                                    ![old].supersededBy = new,
                                    ![new].supersedes = old]
    /\ UNCHANGED <<taskVars, candidates>>

MarkRevalidation(m) == MemoryMoves(m, [memories[m] EXCEPT !.flagged = TRUE])

ClearRevalidation(m) ==
    /\ memories[m].seen.evidence # {} \/ memories[m].seen.reference
    /\ MemoryMoves(m, [memories[m] EXCEPT !.flagged = FALSE])

\* One of its evidence references is found stale or missing, or all are.
PropagateStaleness(m) ==
    /\ \E gone \in SUBSET memories[m].seen.evidence : gone # {}
    /\ MarkRevalidation(m)

----------------------------------------------------------------------------
(* Learning candidates *)

MutClassifySource(owner, scope) ==
    IF scope = "CLIENT" THEN "PRIVATE"
    ELSE IF scope = "PROJECT" THEN "ABSTRACTABLE" ELSE "GLOBAL_SAFE"
\* It looks at the project that the caller names, not at source memories.
ClassifySource(owner, scope) ==
    IF owner \in Clients \/ scope = "CLIENT" THEN "PRIVATE"
    ELSE IF scope = "PROJECT" THEN "ABSTRACTABLE" ELSE "GLOBAL_SAFE"

DefaultSanitization(classification) ==
    IF classification = "PRIVATE" THEN "REQUIRED" ELSE "NOT_REQUIRED"

Sourced(lesson) == lesson.evidence # {} \/ lesson.memories # {} \/ lesson.documents

NewCandidate(lesson, work) ==
    LET classification == ClassifySource(lesson.project, lesson.scope) IN
    [lesson |-> lesson, status |-> "PENDING", work |-> work,
     classification |-> classification,
     sanitized |-> IF lesson.sanitized # "default" THEN lesson.sanitized
                   ELSE DefaultSanitization(classification)]

WithCandidate(lesson, work) ==
    /\ Len(candidates) < MaxCandidates
    /\ Sourced(lesson) \/ lesson.correction
    /\ candidates' = Append(candidates, NewCandidate(lesson, work))

\* Also from a document, and as a human correction.
CreateCandidate ==
    /\ Call
    /\ \E lesson \in learned : WithCandidate(lesson, FALSE)
    /\ UNCHANGED <<taskVars, memories>>

\* From any status.
CandidateMoves(c, status) ==
    /\ Call
    /\ candidates' = [candidates EXCEPT ![c].status = status]
    /\ UNCHANGED <<taskVars, memories>>

ValidateCandidate(c) == CandidateMoves(c, "VALIDATED")
RejectCandidate(c) == CandidateMoves(c, "REJECTED")
NeedsMoreEvidence(c) == CandidateMoves(c, "NEEDS_MORE_EVIDENCE")

CanPromote(candidate, scope, actor) ==
    /\ candidate.status = "VALIDATED"
    /\ Sourced(candidate.lesson)
    /\ scope = "GLOBAL" =>
          /\ actor \in {"HUMAN", "SYSTEM"}
          /\ candidate.classification # "PRIVATE"
          /\ candidate.sanitized \in {"NOT_REQUIRED", "SANITIZED"}

\* The candidate stays as it is and may be promoted again.
PromoteCandidate(c, scope, actor) ==
    LET candidate == candidates[c] IN
    /\ Call
    /\ CanPromote(candidate, scope, actor)
    /\ WithMemory([project |-> IF scope = "GLOBAL" THEN NoProject
                               ELSE candidate.lesson.project,
                   scope |-> scope, status |-> "VALIDATED",
                   evidence |-> candidate.lesson.evidence,
                   reference |-> TRUE, work |-> candidate.work], c)
    /\ UNCHANGED <<taskVars, candidates>>

----------------------------------------------------------------------------
(* Experience of a run and of a failure: a memory, and a candidate with it. *)

Experience(owner, scope, evidence, work) ==
    [project |-> owner, scope |-> scope, status |-> "OBSERVED", evidence |-> evidence,
     reference |-> FALSE, work |-> work]
LessonOf(owner, scope, evidence, documents) ==
    [project |-> owner, scope |-> scope, sanitized |-> "default",
     evidence |-> evidence, memories |-> {}, documents |-> documents,
     correction |-> FALSE]

CaptureTaskExperience ==
    /\ Call
    /\ runs # <<>>
    /\ \E evidence \in SUBSET Evidence, documents \in BOOLEAN :
          /\ WithMemory(Experience(This, "PROJECT", evidence, TRUE), 0)
          /\ \/ UNCHANGED candidates
             \/ WithCandidate(LessonOf(This, "PROJECT", evidence, documents), TRUE)
    /\ UNCHANGED taskVars

CaptureFailureMemory ==
    /\ Call
    /\ \E evidence \in SUBSET Evidence, task, run \in BOOLEAN :
          LET owner == IF task THEN This ELSE NoProject
              scope == IF task THEN "PROJECT" ELSE "SESSION"
          IN  /\ WithMemory(Experience(owner, scope, evidence, task \/ run), 0)
              /\ WithCandidate(LessonOf(owner, scope, evidence, FALSE), task \/ run)
    /\ UNCHANGED taskVars

----------------------------------------------------------------------------
KnowledgeInit == memories = <<>> /\ candidates = <<>>

KnowledgeStep ==
    \/ CreateMemory \/ CreateCandidate
    \/ CaptureTaskExperience \/ CaptureFailureMemory
    \/ \E m \in DOMAIN memories :
          \/ ValidateMemory(m) \/ ContradictMemory(m) \/ DeprecateMemory(m)
          \/ MarkRevalidation(m) \/ ClearRevalidation(m) \/ PropagateStaleness(m)
          \/ \E n \in DOMAIN memories : SupersedeMemory(m, n)
    \/ \E c \in DOMAIN candidates :
          \/ ValidateCandidate(c) \/ RejectCandidate(c) \/ NeedsMoreEvidence(c)
          \/ \E scope \in promotions, actor \in {"HUMAN", "LUCIUS"} :
                PromoteCandidate(c, scope, actor)
=============================================================================
