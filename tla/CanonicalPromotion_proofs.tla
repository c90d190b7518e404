---------------------- MODULE CanonicalPromotion_proofs ----------------------
(***************************************************************************)
(* Proofs about the promotion of finished work into the canonical          *)
(* repository, for every set of workflows and paths and for any number of  *)
(* calls, crashes and actions of the editor.                               *)
(***************************************************************************)
EXTENDS CanonicalPromotion, WellFoundedInduction, TLAPS

----------------------------------------------------------------------------
(* Files and trees.                                                        *)

LEMMA PartialIs ==
    ASSUME NEW S \in SUBSET Paths, NEW f \in [S -> Content]
    PROVE  f \in Partial
<1> DEFINE F == {[R -> Content] : R \in SUBSET Paths}
<1>1. [S -> Content] \in F
  OBVIOUS
<1>2. f \in UNION F
  <2> HIDE DEF F
  <2> QED BY <1>1
<1> QED BY <1>2 DEF Partial

LEMMA PartialHas ==
    ASSUME NEW f \in Partial
    PROVE  DOMAIN f \in SUBSET Paths /\ f \in [DOMAIN f -> Content]
<1>1. PICK S \in SUBSET Paths : f \in [S -> Content]
  BY DEF Partial
<1> QED BY <1>1

LEMMA OverlayType ==
    ASSUME NEW f \in Partial, NEW t \in Tree
    PROVE  Overlay(f, t) \in Tree
BY PartialHas DEF Overlay, Tree

(* The files of a set can be worked off in the order of their names.       *)
LEMMA LeastPath ==
    ASSUME NEW S \in SUBSET Paths, S # {}
    PROVE  Min(S) \in S
<1>1. S \in SUBSET Nat
  BY PromotionAssumption DEF PromotionAssumption
<1> DEFINE less == {r \in Nat \X Nat : r[1] < r[2]}
<1>2. IsWellFoundedOn(less, Nat)
  BY NatLessThanWellFounded DEF OpToRel
<1>3. \A m, n \in Nat : m < n => <<m, n>> \in less
  OBVIOUS
<1>4. PICK n \in S : \A m \in S : ~ (<<m, n>> \in less)
  <2> HIDE DEF less
  <2> QED BY <1>1, <1>2, WFMin
<1>5. ASSUME NEW m \in S PROVE n <= m
  <2>1. m \in Nat /\ n \in Nat
    BY <1>1
  <2>2. ~ (m < n)
    <3> HIDE DEF less
    <3> QED BY <1>3, <1>4, <2>1
  <2> QED BY <2>1, <2>2
<1> QED BY <1>5 DEF Min

----------------------------------------------------------------------------
(* Types.  The limits of a shift need the guards it has passed, so they    *)
(* are kept apart from the rest.                                           *)

Entry == [tree : Tree, by : Workflows \cup {NoWorkflow}]
Rows == [state : [Workflows -> States], records : SUBSET Record]
Shift == [tasks : Nat, commits : Nat, status : {"NONE", "CLEAN_TERMINATION", "HARD_STOP"}]

RepositoryTyped ==
    /\ log \in Seq(Entry) /\ Len(log) >= 1
    /\ index \in Tree /\ work \in Tree
    /\ candidate \in [Workflows -> [files : Tree, moved : BOOLEAN]]
    /\ baseline \in [Workflows -> 0 .. Len(log)]
SessionTyped ==
    /\ rows \in Rows /\ saved \in Rows
    /\ job \in Job /\ job.commit \in 0 .. Len(log)
    /\ shift \in Shift /\ result \in Results
EditsTyped ==
    /\ touched \subseteq Paths
    /\ budget \in [edits : 0 .. MaxEdits, calls : 0 .. MaxCalls]
Typed == RepositoryTyped /\ SessionTyped /\ EditsTyped

(* A running task and a commit were admitted below the limits.             *)
WithinLimits ==
    /\ shift.tasks <= max_tasks /\ shift.commits <= max_commits
    /\ job.by = "shift" /\ job.at # "cycle" => shift.commits < max_commits
    /\ job.at = "running" => shift.tasks < max_tasks

(* A call about a workflow is about one with a frozen plan.                *)
Working == Labels \ {"idle", "cycle", "running"}
InCall == job.at \in Working => job.workflow \in Workflows /\ baseline[job.workflow] # 0
(* What is to be written was captured.                                     *)
WritesHeld == job.at = "write" => job.todo \subseteq DOMAIN job.held

Base == Typed /\ WithinLimits /\ InCall /\ WritesHeld

LEMMA NoFilesType == NoFiles \in Partial /\ DOMAIN NoFiles = {}
<1>1. NoFiles \in [{} -> Content] /\ {} \in SUBSET Paths
  BY DEF NoFiles
<1> QED BY <1>1, PartialIs

LEMMA IdleType == Idle \in Job
<1>1. NoBefore \in [index : Tree, work : Tree]
  BY PromotionAssumption DEF NoBefore, PromotionAssumption
<1>2. NoFound \in [head : Nat, changed : SUBSET Paths]
  BY DEF NoFound
<1>3. NoSnapshot \in [head : Nat, clean : BOOLEAN, sound : SUBSET Workflows]
  BY DEF NoSnapshot
<1> QED BY <1>1, <1>2, <1>3, NoFilesType DEF Job, Idle, Labels

LEMMA CapturedType ==
    ASSUME index \in Tree, work \in Tree
    PROVE  /\ capture_untracked_file_hashes \in Partial
           /\ DOMAIN capture_untracked_file_hashes = untracked_paths
<1>1. capture_untracked_file_hashes \in [untracked_paths -> Content]
  BY DEF capture_untracked_file_hashes, untracked_paths, Tree
<1>2. untracked_paths \in SUBSET Paths
  BY DEF untracked_paths
<1> QED BY <1>1, <1>2, PartialIs

(* A commit is added at the end and changes no other.                      *)
LEMMA Committed ==
    ASSUME log \in Seq(Entry), NEW e \in Entry, log' = Append(log, e)
    PROVE  /\ log' \in Seq(Entry) /\ Len(log') = Len(log) + 1
           /\ Len(log) \in Nat
           /\ DOMAIN log = 1 .. Len(log)
           /\ DOMAIN log' = 1 .. Len(log) + 1
           /\ \A k \in 1 .. Len(log) : log'[k] = log[k]
           /\ log'[Len(log) + 1] = e
  OBVIOUS

LEMMA HeadType ==
    ASSUME RepositoryTyped
    PROVE  /\ Len(log) \in Nat \ {0} /\ DOMAIN log = 1 .. Len(log)
           /\ log[Len(log)].tree \in Tree
           /\ \A k \in DOMAIN log : log[k] \in Entry
<1>1. Len(log) \in Nat \ {0} /\ DOMAIN log = 1 .. Len(log)
  BY DEF RepositoryTyped
<1>2. \A k \in 1 .. Len(log) : log[k] \in Entry
  BY DEF RepositoryTyped
<1>3. \A e \in Entry : e.tree \in Tree
  BY DEF Entry
<1> QED BY <1>1, <1>2, <1>3

LEMMA UnstagedType ==
    ASSUME RepositoryTyped
    PROVE  Unstaged \in Tree
BY HeadType DEF RepositoryTyped, Unstaged, Tree, current_head
----------------------------------------------------------------------------
(* The ways in which a service returns.                                    *)

LEMMA IntegrationReturnsType ==
    ASSUME Typed, WithinLimits, NEW st \in Results, NEW r \in Rows,
           IntegrationReturns(st, r)
    PROVE  /\ rows' = r /\ saved' \in {saved, r}
           /\ job' \in Job /\ job'.commit \in {0, job.commit}
           /\ shift' \in Shift /\ shift'.tasks = shift.tasks /\ shift'.commits = shift.commits
           /\ result' = st
           /\ \/ job'.at = "idle" /\ job'.by = "nobody"
              \/ /\ job'.at = "commit" /\ job'.by = "shift" /\ job.by = "shift"
                 /\ job'.workflow = job.workflow /\ job'.found = job.found
                 /\ job'.protected = job.protected /\ job'.todo = {}
                 /\ st = "COMPLETED" /\ saved' = saved
<1>1. CASE job.by = "caller" /\ CallEnds(r)
  <2>1. job' = [Idle EXCEPT !.protected = job.protected]
    BY <1>1 DEF CallEnds
  <2>2. job' \in Job /\ job'.commit = 0 /\ job'.at = "idle" /\ job'.by = "nobody"
    BY <2>1, IdleType DEF Typed, SessionTyped, Job, Idle
  <2> QED BY <1>1, <2>2 DEF CallEnds, IntegrationReturns, Typed, SessionTyped
<1>2. CASE ShiftEnds("HARD_STOP", r)
  <2>1. job' \in Job /\ job'.commit = 0 /\ job'.at = "idle" /\ job'.by = "nobody"
    BY <1>2, IdleType DEF ShiftEnds, Idle
  <2> QED BY <1>2, <2>1 DEF ShiftEnds, IntegrationReturns, Typed, SessionTyped, Shift
<1>3. ASSUME job.by = "shift", st = "COMPLETED", rows' = r, UNCHANGED <<saved, shift>>,
             job' = [job EXCEPT !.at = "commit", !.todo = {}, !.held = NoFiles,
                                !.before = NoBefore]
      PROVE  /\ job' \in Job /\ job'.commit = job.commit
             /\ job'.at = "commit" /\ job'.by = "shift"
             /\ job'.workflow = job.workflow /\ job'.found = job.found
             /\ job'.protected = job.protected /\ job'.todo = {}
  <2>1. NoBefore \in [index : Tree, work : Tree] /\ "commit" \in Labels
    BY PromotionAssumption DEF NoBefore, PromotionAssumption, Labels
  <2> QED BY <1>3, <2>1, NoFilesType DEF Typed, SessionTyped, Job
<1> QED BY <1>1, <1>2, <1>3 DEF IntegrationReturns, Typed, SessionTyped

LEMMA CycleType ==
    ASSUME job \in Job, CycleAgain
    PROVE  /\ job' \in Job /\ job'.commit = 0 /\ job'.found = job.found
           /\ job'.at = "cycle" /\ job'.by = "shift" /\ job'.protected = NoFiles
<1>1. job' = [Idle EXCEPT !.at = "cycle", !.by = "shift", !.found = job.found]
  BY DEF CycleAgain
<1>2. "cycle" \in Labels
  BY DEF Labels
<1> QED BY <1>1, <1>2, IdleType DEF Job, Idle

LEMMA CommitReturnsType ==
    ASSUME Typed, WithinLimits, job.at # "cycle", NEW st \in Results, NEW r \in Rows,
           CommitReturns(st, r)
    PROVE  /\ rows' = r /\ saved' \in {saved, r}
           /\ job' \in Job /\ job'.commit = 0
           /\ shift' \in Shift /\ shift'.tasks = shift.tasks
           /\ shift'.commits <= max_commits
           /\ result' = st
           /\ \/ job'.at = "idle" /\ job'.by = "nobody"
              \/ /\ job'.at = "cycle" /\ job'.by = "shift" /\ job.by = "shift"
                 /\ job'.found = job.found /\ job'.protected = NoFiles
                 /\ st \in {"COMPLETED", "ALREADY_COMMITTED"}
<1>n. max_commits \in Nat
  BY PromotionAssumption DEF PromotionAssumption
<1>1. CASE job.by = "caller" /\ CallEnds(r)
  <2>1. job' = [Idle EXCEPT !.protected = job.protected]
    BY <1>1 DEF CallEnds
  <2>2. job' \in Job /\ job'.commit = 0 /\ job'.at = "idle" /\ job'.by = "nobody"
    BY <2>1, IdleType DEF Typed, SessionTyped, Job, Idle
  <2> QED BY <1>1, <2>2 DEF CallEnds, CommitReturns, Typed, SessionTyped, WithinLimits
<1>2. CASE ShiftEnds("HARD_STOP", r)
  <2>1. job' \in Job /\ job'.commit = 0 /\ job'.at = "idle" /\ job'.by = "nobody"
    BY <1>2, IdleType DEF ShiftEnds, Idle
  <2>2. shift' \in Shift /\ shift'.tasks = shift.tasks /\ shift'.commits = shift.commits
    BY <1>2 DEF ShiftEnds, Typed, SessionTyped, Shift
  <2> QED BY <1>2, <2>1, <2>2 DEF ShiftEnds, CommitReturns, WithinLimits
<1>3. CASE /\ job.by = "shift" /\ st \in {"COMPLETED", "ALREADY_COMMITTED"}
           /\ CycleAgain /\ rows' = r /\ UNCHANGED saved
           /\ shift' = [shift EXCEPT !.commits = IF st = "COMPLETED" THEN @ + 1 ELSE @]
  <2>1. shift' \in Shift /\ shift'.tasks = shift.tasks
        /\ shift'.commits \in {shift.commits, shift.commits + 1}
    BY <1>3 DEF Typed, SessionTyped, Shift
  <2>2. shift.commits < max_commits /\ shift.commits \in Nat
    BY <1>3 DEF WithinLimits, Typed, SessionTyped, Shift
  <2>3. shift'.commits <= max_commits
    BY <1>n, <2>1, <2>2
  <2> QED BY <1>3, <2>1, <2>3, CycleType DEF CommitReturns, Typed, SessionTyped
<1> QED BY <1>1, <1>2, <1>3 DEF CommitReturns, CycleAgain

(* A call goes on, or it ends.                                             *)
LEMMA GoesOn ==
    ASSUME Base, job.at \in Working, log' = log, baseline' = baseline,
           job' \in Job, job'.commit \in {0, job.commit}, job'.by = job.by,
           job'.at \in Working, job'.workflow = job.workflow, WritesHeld',
           UNCHANGED <<rows, saved, shift, result>>
    PROVE  SessionTyped' /\ WithinLimits' /\ InCall' /\ WritesHeld'
BY DEF Base, Typed, SessionTyped, RepositoryTyped, WithinLimits, InCall, Working

LEMMA IntegrationEnds ==
    ASSUME Base, job.at \in Working, log' = log, baseline' = baseline,
           NEW st \in Results, NEW r \in Rows, IntegrationReturns(st, r)
    PROVE  SessionTyped' /\ WithinLimits' /\ InCall' /\ WritesHeld'
<1>1. Len(log) \in Nat /\ job.commit \in 0 .. Len(log)
  BY HeadType DEF Base, Typed, SessionTyped
<1> QED BY <1>1, IntegrationReturnsType
  DEF Base, Typed, SessionTyped, WithinLimits, InCall, WritesHeld, Working

LEMMA CommitEnds ==
    ASSUME Base, job.at \in Working, log' = log, baseline' = baseline,
           NEW st \in Results, NEW r \in Rows, CommitReturns(st, r)
    PROVE  SessionTyped' /\ WithinLimits' /\ InCall' /\ WritesHeld'
<1>1. Len(log) \in Nat /\ job.commit \in 0 .. Len(log)
  BY HeadType DEF Base, Typed, SessionTyped
<1> QED BY <1>1, CommitReturnsType
  DEF Base, Typed, SessionTyped, WithinLimits, InCall, WritesHeld, Working

LEMMA IntegrationBase ==
    ASSUME Base, IntegrationStep
    PROVE  Base'
<1> DEFINE w == job.workflow
<1>t. /\ job \in Job /\ rows \in Rows /\ index \in Tree /\ work \in Tree
      /\ candidate \in [Workflows -> [files : Tree, moved : BOOLEAN]]
      /\ baseline \in [Workflows -> 0 .. Len(log)]
  BY DEF Base, Typed, SessionTyped, RepositoryTyped
<1>f. job.held \in Partial /\ job.protected \in Partial /\ job.todo \in SUBSET Paths
  BY <1>t DEF Job
<1>l. {"integrate", "candidate", "capture", "write", "accept", "rollback"} \subseteq Working
  BY DEF Labels, Working
<1>w. job.at \in Working
  BY <1>l DEF IntegrationStep, IntegrationPreflight, CandidatePreflight, CaptureCandidate,
              WriteFile, ObserveApplied, AcceptAndClose, RestorePath, RestoreFails,
              RollbackConcludes
<1>v. w \in Workflows /\ baseline[w] \in 1 .. Len(log)
  BY <1>t, <1>w DEF Base, InCall
<1>s. {"FAILED", "COMPLETED", "ROLLBACK_FAILED"} \subseteq Results
  BY DEF Results
<1>u. UNCHANGED repository => log' = log
  BY DEF repository
<1>r. ASSUME UNCHANGED <<repository, baseline, touched, budget>>,
             SessionTyped' /\ WithinLimits' /\ InCall' /\ WritesHeld'
      PROVE  Base'
  BY <1>r DEF Base, Typed, RepositoryTyped, EditsTyped, repository
<1>e. ASSUME NEW st \in {"FAILED", "COMPLETED", "ROLLBACK_FAILED"}, NEW r \in Rows,
             IntegrationReturns(st, r),
             UNCHANGED <<repository, baseline, touched, budget>>
      PROVE  Base'
  <2>1. log' = log /\ baseline' = baseline
    BY <1>e, <1>u
  <2>2. SessionTyped' /\ WithinLimits' /\ InCall' /\ WritesHeld'
    BY <1>e, <1>s, <1>w, <2>1, IntegrationEnds
  <2> QED BY <1>e, <1>r, <2>2
<1>g. ASSUME NEW l \in Working,
             job' \in Job, job'.at = l, job'.by = job.by, job'.workflow = job.workflow,
             job'.commit = job.commit, WritesHeld',
             UNCHANGED <<repository, baseline, rows, saved, shift, result, touched, budget>>
      PROVE  Base'
  <2>1. SessionTyped' /\ WithinLimits' /\ InCall' /\ WritesHeld'
    BY <1>g, <1>u, <1>w, GoesOn
  <2> QED BY <1>g, <1>r, <2>1
<1> HIDE DEF w
<1>1. CASE IntegrationPreflight
  <2>1. CASE IntegrationReturns("FAILED", rows)
    BY <1>1, <1>e, <1>t, <2>1 DEF IntegrationPreflight
  <2>2. ASSUME job' = [job EXCEPT !.at = "candidate",
                            !.protected = capture_untracked_file_hashes,
                            !.before = [index |-> index, work |-> work]]
        PROVE  job' \in Job /\ job'.at = "candidate" /\ job'.by = job.by
               /\ job'.workflow = job.workflow /\ job'.commit = job.commit
    BY <1>t, <2>2, CapturedType DEF Job, Labels
  <2> QED BY <1>1, <1>g, <1>l, <2>1, <2>2 DEF IntegrationPreflight, WritesHeld
<1>2. CASE CandidatePreflight
  <2>1. CASE IntegrationReturns("FAILED", rows)
    BY <1>2, <1>e, <1>t, <2>1 DEF CandidatePreflight
  <2>2. CandidateChanged(job.workflow) \in SUBSET Paths
    BY DEF CandidateChanged, Differ
  <2>3. ASSUME job' = [job EXCEPT !.at = "capture", !.todo = CandidateChanged(job.workflow)]
        PROVE  job' \in Job /\ job'.at = "capture" /\ job'.by = job.by
               /\ job'.workflow = job.workflow /\ job'.commit = job.commit
    BY <1>t, <2>2, <2>3 DEF Job, Labels
  <2> QED BY <1>2, <1>g, <1>l, <2>1, <2>3 DEF CandidatePreflight, WritesHeld
<1>3. CASE CaptureCandidate
  <2>1. CASE IntegrationReturns("FAILED", rows)
    BY <1>3, <1>e, <1>t, <2>1 DEF CaptureCandidate
  <2> DEFINE held == [p \in job.todo |-> candidate[job.workflow].files[p]]
  <2>2. ASSUME CaptureMatches(job.workflow, job.todo)
        PROVE  held \in Partial
    <3>1. \A p \in job.todo : candidate[job.workflow].files[p] \in Content
      BY <1>f, <1>t, <1>v, <2>2 DEF CaptureMatches, Tree, w
    <3>2. held \in [job.todo -> Content]
      BY <3>1
    <3> HIDE DEF held
    <3> QED BY <1>f, <3>2, PartialIs
  <2>3. ASSUME job' = [job EXCEPT !.at = "write", !.held = held], held \in Partial
        PROVE  job' \in Job /\ job'.at = "write" /\ job'.by = job.by
               /\ job'.workflow = job.workflow /\ job'.commit = job.commit
               /\ job'.todo = job.todo /\ job'.held = held
    <3> HIDE DEF held
    <3> QED BY <1>t, <2>3 DEF Job, Labels
  <2>4. DOMAIN held = job.todo
    OBVIOUS
  <2>5. CASE CaptureMatches(job.workflow, job.todo)
             /\ job' = [job EXCEPT !.at = "write", !.held = held]
             /\ UNCHANGED <<rows, saved, shift, result>>
    <3> HIDE DEF held
    <3>1. WritesHeld'
      BY <2>2, <2>3, <2>4, <2>5 DEF WritesHeld
    <3> QED BY <1>3, <1>g, <1>l, <2>2, <2>3, <2>5, <3>1 DEF CaptureCandidate
  <2> QED BY <1>3, <2>1, <2>5 DEF CaptureCandidate
<1>4. CASE WriteFile
  <2> DEFINE p == Min(job.todo)
  <2>1. p \in job.todo /\ p \in Paths
    BY <1>4, <1>f, LeastPath DEF WriteFile
  <2>2. job.held[p] \in Content
    BY <1>4, <1>f, <2>1, PartialHas DEF WriteFile, Base, WritesHeld
  <2>3. work' = [work EXCEPT ![p] = job.held[p]]
        /\ job' = [job EXCEPT !.todo = @ \ {p}]
    BY <1>4 DEF WriteFile
  <2> HIDE DEF p
  <2>4. work' \in Tree
    BY <1>t, <2>1, <2>2, <2>3 DEF Tree
  <2>5. /\ job' \in Job /\ job'.at = job.at /\ job'.by = job.by
        /\ job'.workflow = job.workflow /\ job'.commit = job.commit
        /\ job'.todo \subseteq job.todo /\ job'.held = job.held
    BY <1>t, <2>3 DEF Job
  <2>6. WritesHeld'
    BY <2>5 DEF WritesHeld, Base
  <2>7. SessionTyped' /\ WithinLimits' /\ InCall'
    BY <1>4, <1>w, <2>5, <2>6, GoesOn DEF WriteFile
  <2> QED BY <1>4, <2>4, <2>6, <2>7 DEF WriteFile, Base, Typed, RepositoryTyped, EditsTyped
<1>5. CASE ObserveApplied
  <2>1. ASSUME At("accept")
        PROVE  job' \in Job /\ job'.at = "accept" /\ job'.by = job.by
               /\ job'.workflow = job.workflow /\ job'.commit = job.commit
    BY <1>t, <2>1 DEF At, Job, Labels
  <2>2. ASSUME RollBack
        PROVE  job' \in Job /\ job'.at = "rollback" /\ job'.by = job.by
               /\ job'.workflow = job.workflow /\ job'.commit = job.commit
    <3>1. authorized[job.workflow] \in SUBSET Paths
      BY <1>v, PromotionAssumption DEF PromotionAssumption, w
    <3> QED BY <1>t, <2>2, <3>1 DEF RollBack, Job, Labels
  <2> QED BY <1>5, <1>g, <1>l, <2>1, <2>2 DEF ObserveApplied, WritesHeld, RollBack
<1>6. CASE AcceptAndClose
  <2>1. [rows EXCEPT !.state[job.workflow] = "CLOSED"] \in Rows
    BY <1>t, <1>v DEF Rows, States, w
  <2>2. ASSUME RollBack
        PROVE  job' \in Job /\ job'.at = "rollback" /\ job'.by = job.by
               /\ job'.workflow = job.workflow /\ job'.commit = job.commit
    <3>1. authorized[job.workflow] \in SUBSET Paths
      BY <1>v, PromotionAssumption DEF PromotionAssumption, w
    <3> QED BY <1>t, <2>2, <3>1 DEF RollBack, Job, Labels
  <2> DEFINE closed == [rows EXCEPT !.state[job.workflow] = "CLOSED"]
  <2>3. CASE IntegrationReturns("COMPLETED", closed)
    <3> HIDE DEF closed
    <3> QED BY <1>6, <1>e, <2>1, <2>3 DEF AcceptAndClose, closed
  <2> QED BY <1>6, <1>g, <1>l, <2>2, <2>3 DEF AcceptAndClose, WritesHeld, RollBack
<1>7. CASE RestorePath
  <2> DEFINE p == Min(job.todo)
  <2>1. Baseline(job.workflow) \in Tree
    BY <1>v, HeadType DEF Baseline, Base, Typed, Entry, w
  <2>2. p \in Paths
    BY <1>7, <1>f, LeastPath DEF RestorePath
  <2>3. /\ work' = [work EXCEPT ![p] = Baseline(job.workflow)[p]]
        /\ index' = IF Baseline(job.workflow)[p] = Absent THEN index
                    ELSE [index EXCEPT ![p] = Baseline(job.workflow)[p]]
        /\ job' = [job EXCEPT !.todo = @ \ {p}]
    BY <1>7 DEF RestorePath
  <2> HIDE DEF p
  <2>4. work' \in Tree /\ index' \in Tree
    BY <1>t, <2>1, <2>2, <2>3 DEF Tree
  <2>5. /\ job' \in Job /\ job'.at = job.at /\ job'.by = job.by
        /\ job'.workflow = job.workflow /\ job'.commit = job.commit
    BY <1>t, <2>3 DEF Job
  <2>6. WritesHeld'
    BY <1>7, <2>5 DEF WritesHeld, RestorePath
  <2>7. SessionTyped' /\ WithinLimits' /\ InCall'
    BY <1>7, <1>w, <2>5, <2>6, GoesOn DEF RestorePath
  <2> QED BY <1>7, <2>4, <2>6, <2>7 DEF RestorePath, Base, Typed, RepositoryTyped, EditsTyped
<1>8. CASE RestoreFails
  BY <1>8, <1>e, <1>t DEF RestoreFails
<1>9. CASE RollbackConcludes
  BY <1>9, <1>e, <1>t DEF RollbackConcludes
<1> QED
  BY <1>1, <1>2, <1>3, <1>4, <1>5, <1>6, <1>7, <1>8, <1>9 DEF IntegrationStep

LEMMA CommitBase ==
    ASSUME Base, CommitStep
    PROVE  Base'
<1>t. /\ job \in Job /\ rows \in Rows /\ index \in Tree /\ work \in Tree
      /\ job.commit \in 0 .. Len(log) /\ touched \in SUBSET Paths
      /\ log \in Seq(Entry) /\ Len(log) \in Nat \ {0}
      /\ baseline \in [Workflows -> 0 .. Len(log)]
  BY HeadType DEF Base, Typed, SessionTyped, RepositoryTyped, EditsTyped
<1>f. job.held \in Partial /\ job.protected \in Partial /\ job.todo \in SUBSET Paths
  BY <1>t DEF Job
<1>l. {"commit", "commit_accept", "manifest", "recheck", "rehash", "stage", "staged",
       "create", "created", "inspect", "conclude"} \subseteq Working
  BY DEF Labels, Working
<1>w. job.at \in Working /\ job.at # "write"
  BY <1>l DEF CommitStep, CommitPreflight, CommitAcceptance, BuildManifest, RecheckState,
              RecheckHashes, StagePaths, StagingFails, VerifyStaged, CreateCommit,
              ReadResultingCommit, InspectCommit, ConcludeCommit
<1>v. job.workflow \in Workflows
  BY <1>w DEF Base, InCall
<1>s. {"FAILED", "COMPLETED", "ALREADY_COMMITTED", "POST_COMMIT_VERIFICATION_FAILED"}
        \subseteq Results
  BY DEF Results
<1>r. ASSUME UNCHANGED <<log, work, candidate, baseline, touched, budget>>, index' \in Tree,
             SessionTyped' /\ WithinLimits' /\ InCall' /\ WritesHeld'
      PROVE  Base'
  BY <1>r DEF Base, Typed, RepositoryTyped, EditsTyped
<1>e. ASSUME NEW st \in {"FAILED", "COMPLETED", "ALREADY_COMMITTED",
                         "POST_COMMIT_VERIFICATION_FAILED"},
             NEW r \in Rows, CommitReturns(st, r),
             UNCHANGED <<log, work, candidate, baseline, touched, budget>>, index' \in Tree
      PROVE  Base'
  <2>1. SessionTyped' /\ WithinLimits' /\ InCall' /\ WritesHeld'
    BY <1>e, <1>s, <1>w, CommitEnds
  <2> QED BY <1>e, <1>r, <2>1
<1>g. ASSUME NEW l \in Working, l # "write",
             job' \in Job, job'.at = l, job'.by = job.by, job'.workflow = job.workflow,
             job'.commit = job.commit, index' \in Tree,
             UNCHANGED <<log, work, candidate, baseline, rows, saved, shift, result,
                         touched, budget>>
      PROVE  Base'
  <2>1. WritesHeld'
    BY <1>g DEF WritesHeld
  <2>2. SessionTyped' /\ WithinLimits' /\ InCall'
    BY <1>g, <1>w, <2>1, GoesOn
  <2> QED BY <1>g, <1>r, <2>1, <2>2
<1>a. ASSUME NEW l \in Working, l # "write", At(l), index' \in Tree,
             UNCHANGED <<log, work, candidate, baseline, rows, saved, shift, result,
                         touched, budget>>
      PROVE  Base'
  <2>1. job' \in Job /\ job'.at = l /\ job'.by = job.by /\ job'.workflow = job.workflow
        /\ job'.commit = job.commit
    BY <1>a, <1>t DEF At, Job, Working
  <2> QED BY <1>a, <1>g, <2>1
<1>i. UNCHANGED index => index' \in Tree
  BY <1>t
<1>n. Unstaged \in Tree
  BY UnstagedType DEF Base, Typed
<1>1. CASE CommitPreflight
  <2> DEFINE actual == changed_paths \ DOMAIN job.protected
  <2>1. actual \in SUBSET Paths
    BY DEF changed_paths, tracked_worktree_paths, staged_paths, untracked_paths, Differ
  <2>2. ASSUME job' = [job EXCEPT !.at = "commit_accept", !.todo = actual]
        PROVE  job' \in Job /\ job'.at = "commit_accept" /\ job'.by = job.by
               /\ job'.workflow = job.workflow /\ job'.commit = job.commit
    <3> HIDE DEF actual
    <3> QED BY <1>t, <2>1, <2>2 DEF Job, Labels
  <2>3. UNCHANGED <<log, index, work, candidate, baseline, touched, budget>>
    BY <1>1 DEF CommitPreflight, repository
  <2>4. CASE job' = [job EXCEPT !.at = "commit_accept", !.todo = actual]
             /\ UNCHANGED <<rows, saved, shift, result>>
    BY <1>g, <1>i, <1>l, <2>2, <2>3, <2>4
  <2>5. CASE \E st \in {"ALREADY_COMMITTED", "FAILED"} : CommitReturns(st, rows)
    BY <1>e, <1>i, <1>t, <2>3, <2>5
  <2> QED BY <1>1, <2>4, <2>5 DEF CommitPreflight
<1>2. CASE CommitAcceptance
  BY <1>2, <1>a, <1>e, <1>i, <1>l, <1>t DEF CommitAcceptance, repository
<1>3. CASE BuildManifest
  <2> DEFINE held == [p \in job.todo |-> work[p]]
  <2>1. ASSUME \A p \in job.todo : work[p] # Absent
        PROVE  held \in Partial
    <3>1. held \in [job.todo -> Content]
      BY <1>f, <1>t, <2>1 DEF Tree
    <3> HIDE DEF held
    <3> QED BY <1>f, <3>1, PartialIs
  <2>2. ASSUME job' = [job EXCEPT !.at = "recheck", !.held = held], held \in Partial
        PROVE  job' \in Job /\ job'.at = "recheck" /\ job'.by = job.by
               /\ job'.workflow = job.workflow /\ job'.commit = job.commit
    <3> HIDE DEF held
    <3> QED BY <1>t, <2>2 DEF Job, Labels
  <2> QED BY <1>3, <1>e, <1>g, <1>i, <1>l, <1>t, <2>1, <2>2 DEF BuildManifest, repository
<1>4. CASE RecheckState
  BY <1>4, <1>a, <1>e, <1>i, <1>l, <1>t DEF RecheckState, repository
<1>5. CASE RecheckHashes
  BY <1>5, <1>a, <1>e, <1>i, <1>l, <1>t DEF RecheckHashes, repository
<1>6. CASE StagePaths
  <2>1. index' \in Tree
    BY <1>6, <1>t DEF StagePaths, Tree
  <2> QED BY <1>6, <1>a, <1>l, <2>1 DEF StagePaths
<1>7. CASE StagingFails
  BY <1>7, <1>e, <1>n, <1>t DEF StagingFails
<1>8. CASE VerifyStaged
  BY <1>8, <1>a, <1>e, <1>i, <1>l, <1>n, <1>t DEF VerifyStaged
<1>9. CASE CreateCommit
  <2>1. CASE index' \in {index, Unstaged} /\ CommitReturns("FAILED", rows) /\ UNCHANGED log
    BY <1>9, <1>e, <1>n, <1>t, <2>1 DEF CreateCommit
  <2>2. CASE /\ log' = Append(log, [tree |-> index, by |-> job.workflow])
             /\ At("created") /\ UNCHANGED <<index, rows, saved, shift, result>>
    <3>1. [tree |-> index, by |-> job.workflow] \in Entry
      BY <1>t, <1>v DEF Entry
    <3>2. log' \in Seq(Entry) /\ Len(log') = Len(log) + 1 /\ Len(log) \in Nat
      BY <1>t, <2>2, <3>1, Committed
    <3>3. job' \in Job /\ job'.at = "created" /\ job'.by = job.by
          /\ job'.workflow = job.workflow /\ job'.commit = job.commit
      BY <1>t, <2>2 DEF At, Job, Labels
    <3>4. /\ RepositoryTyped'
          /\ job'.commit \in 0 .. Len(log')
      BY <1>9, <1>t, <2>2, <3>2, <3>3 DEF CreateCommit, RepositoryTyped, Base, Typed
    <3> QED BY <1>9, <1>l, <1>w, <2>2, <3>3, <3>4
      DEF CreateCommit, Base, Typed, SessionTyped, EditsTyped, WithinLimits, InCall,
          WritesHeld, Working
  <2> QED BY <1>9, <2>1, <2>2 DEF CreateCommit
<1>10. CASE ReadResultingCommit
  <2>1. job' \in Job /\ job'.at = "inspect" /\ job'.by = job.by
        /\ job'.workflow = job.workflow /\ job'.commit = Len(log)
    BY <1>10, <1>t DEF ReadResultingCommit, current_head, Job, Labels
  <2>2. UNCHANGED <<log, index, work, candidate, baseline, rows, saved, shift, result,
                    touched, budget>>
    BY <1>10 DEF ReadResultingCommit, repository
  <2>3. RepositoryTyped' /\ EditsTyped' /\ SessionTyped'
    BY <1>t, <2>1, <2>2 DEF Base, Typed, RepositoryTyped, EditsTyped, SessionTyped
  <2> QED BY <1>l, <1>w, <2>1, <2>2, <2>3
    DEF Base, Typed, WithinLimits, InCall, WritesHeld, Working
<1>11. CASE InspectCommit
  BY <1>11, <1>a, <1>e, <1>i, <1>l, <1>t DEF InspectCommit, repository
<1>12. CASE ConcludeCommit
  <2> DEFINE record == [workflow |-> job.workflow, commit |-> job.commit,
                        contents |-> job.held, edited |-> touched]
             more == [rows EXCEPT !.records = @ \cup {record}]
  <2>1. record \in Record
    BY <1>f, <1>t, <1>v DEF Record
  <2>2. more \in Rows
    <3> HIDE DEF record
    <3> QED BY <1>t, <2>1 DEF Rows
  <2>3. CommitReturns("COMPLETED", more) \/ CommitReturns("POST_COMMIT_VERIFICATION_FAILED", rows)
    BY <1>12 DEF ConcludeCommit
  <2> HIDE DEF more
  <2> QED BY <1>12, <1>e, <1>i, <1>t, <2>2, <2>3 DEF ConcludeCommit, repository
<1> QED
  BY <1>1, <1>2, <1>3, <1>4, <1>5, <1>6, <1>7, <1>8, <1>9, <1>10, <1>11, <1>12
  DEF CommitStep

(* A shift that ends, whatever its rows have become.                       *)
LEMMA ShiftEndsBase ==
    ASSUME Base, NEW r \in Rows, NEW st \in {"CLEAN_TERMINATION", "HARD_STOP"},
           ShiftEnds(st, r), UNCHANGED <<repository, baseline, result, touched, budget>>
    PROVE  Base'
<1>1. job' = Idle /\ job' \in Job /\ job'.at = "idle" /\ job'.by = "nobody" /\ job'.commit = 0
  BY IdleType DEF ShiftEnds, Idle
<1>2. shift' \in Shift /\ shift'.tasks = shift.tasks /\ shift'.commits = shift.commits
  BY DEF ShiftEnds, Base, Typed, SessionTyped, Shift
<1>3. rows' = r /\ saved' = r
  BY DEF ShiftEnds
<1> QED BY <1>1, <1>2, <1>3, HeadType
  DEF Base, Typed, SessionTyped, RepositoryTyped, EditsTyped, repository,
      WithinLimits, InCall, WritesHeld, Working

LEMMA ReopenedType ==
    ASSUME rows \in Rows
    PROVE  Reopened \in Rows /\ Reopened.records = rows.records
BY DEF Reopened, Rows, States

LEMMA TaskBase ==
    ASSUME Base, NEW w \in Workflows, NEW st \in States, NEW l \in {"promote", "contain"},
           TaskEnds(w, st, l)
    PROVE  Base'
<1>t. /\ job \in Job /\ rows \in Rows /\ shift \in Shift
      /\ job.commit \in 0 .. Len(log)
      /\ candidate \in [Workflows -> [files : Tree, moved : BOOLEAN]]
  BY DEF Base, Typed, SessionTyped, RepositoryTyped
<1>1. candidate' \in [Workflows -> [files : Tree, moved : BOOLEAN]]
  <2>1. PICK left \in CandidateAfter(w) : candidate' = [candidate EXCEPT ![w] = left]
    BY DEF TaskEnds
  <2>2. left \in [files : Tree, moved : BOOLEAN]
    <3>1. ASSUME NEW output \in taskOutputs[w]
          PROVE  [candidate[w] EXCEPT !.files = Overlay(output, @)]
                    \in [files : Tree, moved : BOOLEAN]
      <4>1. output \in Partial
        BY PromotionAssumption DEF PromotionAssumption
      <4>2. candidate[w].files \in Tree
        BY <1>t
      <4>3. Overlay(output, candidate[w].files) \in Tree
        BY <4>1, <4>2, OverlayType
      <4> QED BY <1>t, <4>3
    <3>2. [candidate[w] EXCEPT !.moved = TRUE] \in [files : Tree, moved : BOOLEAN]
      BY <1>t
    <3> QED BY <2>1, <3>1, <3>2 DEF CandidateAfter
  <2> QED BY <1>t, <2>1, <2>2
<1>2. rows' \in Rows
  <2>1. Reopened \in Rows
    BY <1>t, ReopenedType
  <2>2. rows' = [Reopened EXCEPT !.state[w] = st]
    BY DEF TaskEnds
  <2> HIDE DEF Reopened
  <2> QED BY <2>1, <2>2 DEF Rows
<1>3. /\ job' \in Job /\ job'.at = l /\ job'.by = job.by /\ job'.workflow = w
      /\ job'.commit = job.commit
  BY <1>t DEF TaskEnds, Job, Labels
<1>4. shift' \in Shift /\ shift'.tasks = shift.tasks + 1 /\ shift'.commits = shift.commits
  BY <1>t DEF TaskEnds, Shift
<1>5. job.at = "running" /\ baseline[w] # 0
      /\ UNCHANGED <<log, index, work, baseline, saved, result, touched, budget>>
  BY DEF TaskEnds
<1>6. shift'.tasks <= max_tasks
  BY <1>4, <1>5, <1>t, PromotionAssumption DEF Base, WithinLimits, Shift, PromotionAssumption
<1>7. WithinLimits'
  BY <1>3, <1>4, <1>5, <1>6 DEF Base, WithinLimits
<1>8. RepositoryTyped' /\ EditsTyped' /\ SessionTyped'
  BY <1>t, <1>1, <1>2, <1>3, <1>4, <1>5
  DEF Base, Typed, SessionTyped, RepositoryTyped, EditsTyped
<1> QED BY <1>3, <1>5, <1>7, <1>8 DEF Base, Typed, InCall, WritesHeld

LEMMA ShiftBase ==
    ASSUME Base, ShiftStep
    PROVE  Base'
<1>t. /\ job \in Job /\ rows \in Rows /\ shift \in Shift
      /\ job.commit \in 0 .. Len(log) /\ Len(log) \in Nat \ {0}
      /\ index \in Tree /\ work \in Tree
  BY HeadType DEF Base, Typed, SessionTyped, RepositoryTyped
<1>g. ASSUME job' \in Job, job'.commit \in {0, job.commit}, job'.at \in Labels \ {"write"},
             job'.at \in Working => job.at \in Working /\ job'.workflow = job.workflow,
             job'.by = "shift" /\ job'.at # "cycle" => shift.commits < max_commits,
             job'.at = "running" => shift.tasks < max_tasks, rows' \in Rows,
             UNCHANGED <<repository, baseline, saved, shift, result, touched, budget>>
      PROVE  Base'
  BY <1>g, <1>t DEF Base, Typed, SessionTyped, RepositoryTyped, EditsTyped, repository,
                    WithinLimits, InCall, WritesHeld, Working
<1>1. CASE ShiftFinishes
  BY <1>1, <1>t, ShiftEndsBase DEF ShiftFinishes
<1>2. CASE CaptureSnapshots
  <2> DEFINE sound == {w \in Workflows : /\ baseline[w] # 0
                                         /\ ~candidate[w].moved
                                         /\ CandidateChanged(w) = {}}
             seen == [head |-> current_head, clean |-> CanonicalIsClean, sound |-> sound]
             hashes == capture_untracked_file_hashes
  <2>1. seen \in [head : Nat, clean : BOOLEAN, sound : SUBSET Workflows]
    <3>1. CanonicalIsClean \in BOOLEAN /\ sound \in SUBSET Workflows
      BY DEF CanonicalIsClean
    <3> HIDE DEF sound
    <3> QED BY <1>t, <3>1 DEF current_head
  <2>2. hashes \in Partial
    BY <1>t, CapturedType
  <2>3. job' = [job EXCEPT !.at = "running", !.protected = hashes, !.snapshot = seen]
    BY <1>2 DEF CaptureSnapshots
  <2> HIDE DEF seen, hashes
  <2>4. job' \in Job /\ job'.at = "running" /\ job'.commit = job.commit
    BY <1>t, <2>1, <2>2, <2>3 DEF Job, Labels
  <2> QED BY <1>2, <1>g, <1>t, <2>4 DEF CaptureSnapshots, Working, Job
<1>3. CASE RuntimeEndsShift
  BY <1>3, <1>t, ReopenedType, ShiftEndsBase DEF RuntimeEndsShift
<1>4. ASSUME NEW w \in Workflows, TaskCompletes(w) \/ TaskFails(w) PROVE Base'
  <2>1. rows.state[w] \in States
    BY <1>t DEF Rows
  <2> QED BY <1>4, <2>1, TaskBase DEF TaskCompletes, TaskFails, States
<1>5. CASE Promote
  <2>1. ASSUME job' = [job EXCEPT !.at = "integrate", !.protected = NoFiles,
                                  !.snapshot = NoSnapshot]
        PROVE  job' \in Job /\ job'.at = "integrate" /\ job'.commit = job.commit
               /\ job'.workflow = job.workflow /\ job'.by = job.by
    <3>1. NoSnapshot \in [head : Nat, clean : BOOLEAN, sound : SUBSET Workflows]
      BY DEF NoSnapshot
    <3> QED BY <1>t, <2>1, <3>1, NoFilesType DEF Job, Labels
  <2>2. CASE /\ UNCHANGED <<rows, saved, shift>>
             /\ job' = [job EXCEPT !.at = "integrate", !.protected = NoFiles,
                                   !.snapshot = NoSnapshot]
    <3>1. shift.commits < max_commits \/ job.by # "shift"
      BY <1>5 DEF Base, WithinLimits, Promote
    <3> QED BY <1>5, <1>g, <1>t, <2>1, <2>2, <3>1 DEF Promote, Labels, Working
  <2>3. CASE ShiftEnds("HARD_STOP", rows)
    BY <1>5, <1>t, <2>3, ShiftEndsBase DEF Promote
  <2> QED BY <1>5, <2>2, <2>3 DEF Promote
<1>6. CASE ProveContained
  <2>1. job.workflow \in Workflows
    BY <1>6 DEF ProveContained, Base, InCall, Working, Labels
  <2>2. [rows EXCEPT !.state[job.workflow] = "BLOCKED"] \in Rows
    BY <1>t, <2>1 DEF Rows, States
  <2>3. CASE CycleAgain /\ UNCHANGED <<saved, shift>> /\ rows' \in Rows
    BY <1>6, <1>g, <1>t, <2>3, CycleType DEF ProveContained, Working, Labels
  <2>4. CASE ShiftEnds("HARD_STOP", rows)
    BY <1>6, <1>t, <2>4, ShiftEndsBase DEF ProveContained
  <2> QED BY <1>6, <1>t, <2>2, <2>3, <2>4 DEF ProveContained
<1> QED BY <1>1, <1>2, <1>3, <1>4, <1>5, <1>6 DEF ShiftStep

(* What others do: callers, who freezes a plan, the editor, and a crash.   *)
LEMMA BeginsBase ==
    ASSUME Base, NEW j \in Job, j.commit = 0, j.at \notin {"running", "write"},
           j.by = "shift" => j.at = "cycle",
           j.at \in Working => j.workflow \in Workflows /\ baseline[j.workflow] # 0,
           Begins(j), shift' \in Shift, shift'.tasks <= max_tasks,
           shift'.commits <= max_commits
    PROVE  Base'
<1>1. /\ job' = j /\ result' = "NONE" /\ touched' = {} /\ budget.calls < MaxCalls
      /\ budget' = [budget EXCEPT !.calls = @ + 1]
      /\ UNCHANGED <<repository, baseline, rows, saved>>
  BY DEF Begins
<1>2. budget' \in [edits : 0 .. MaxEdits, calls : 0 .. MaxCalls]
  <2>1. budget \in [edits : 0 .. MaxEdits, calls : 0 .. MaxCalls] /\ MaxCalls \in Nat
    BY PromotionAssumption DEF Base, Typed, EditsTyped, PromotionAssumption
  <2>2. budget.calls + 1 \in 0 .. MaxCalls
    BY <1>1, <2>1
  <2> QED BY <1>1, <2>1, <2>2
<1>3. UNCHANGED <<log, index, work, candidate, baseline, rows, saved>>
  BY <1>1 DEF repository
<1>4. RepositoryTyped' /\ Len(log) \in Nat
  BY <1>3, HeadType DEF Base, Typed, RepositoryTyped
<1>5. SessionTyped'
  BY <1>1, <1>3, <1>4 DEF Base, Typed, SessionTyped, Results
<1>6. WithinLimits' /\ InCall' /\ WritesHeld'
  BY <1>1, <1>3 DEF WithinLimits, InCall, WritesHeld
<1> QED BY <1>1, <1>2, <1>4, <1>5, <1>6 DEF Base, Typed, EditsTyped

LEMMA EditsBase ==
    ASSUME Base, NEW S \in SUBSET Paths, Edits(S), index' \in Tree, work' \in Tree,
           log' \in Seq(Entry), Len(log') \in {Len(log), Len(log) + 1}
    PROVE  Base'
<1>1. Len(log) \in Nat \ {0}
  BY HeadType DEF Base, Typed
<1>2. /\ touched' = touched \cup S /\ budget.edits < MaxEdits
      /\ budget' = [budget EXCEPT !.edits = @ + 1]
      /\ UNCHANGED <<candidate, baseline, rows, saved, job, shift, result>>
  BY DEF Edits
<1>3. EditsTyped'
  <2>1. /\ budget \in [edits : 0 .. MaxEdits, calls : 0 .. MaxCalls] /\ MaxEdits \in Nat
        /\ touched \subseteq Paths
    BY PromotionAssumption DEF Base, Typed, EditsTyped, PromotionAssumption
  <2>2. budget.edits + 1 \in 0 .. MaxEdits
    BY <1>2, <2>1
  <2> QED BY <1>2, <2>1, <2>2 DEF EditsTyped
<1>4. RepositoryTyped'
  <2>1. 0 .. Len(log) \subseteq 0 .. Len(log') /\ Len(log') >= 1
    BY <1>1
  <2> QED BY <1>2, <2>1 DEF Base, Typed, RepositoryTyped
<1>5. SessionTyped'
  BY <1>1, <1>2 DEF Base, Typed, SessionTyped
<1> QED BY <1>2, <1>3, <1>4, <1>5 DEF Base, Typed, WithinLimits, InCall, WritesHeld

LEMMA OthersBase ==
    ASSUME Base
    PROVE  /\ StartShift => Base'
           /\ \A w \in Workflows : CallIntegrate(w) \/ CallCommit(w) \/ FreezePlan(w) => Base'
           /\ EditorWrites \/ EditorStages \/ EditorCommits => Base'
           /\ Crash => Base'
<1>t. /\ job \in Job /\ rows \in Rows /\ saved \in Rows /\ shift \in Shift
      /\ log \in Seq(Entry) /\ Len(log) \in Nat \ {0} /\ log[Len(log)].tree \in Tree
      /\ index \in Tree /\ work \in Tree
      /\ candidate \in [Workflows -> [files : Tree, moved : BOOLEAN]]
      /\ baseline \in [Workflows -> 0 .. Len(log)]
  BY HeadType DEF Base, Typed, SessionTyped, RepositoryTyped
<1>m. max_tasks \in Nat /\ max_commits \in Nat
  BY PromotionAssumption DEF PromotionAssumption
<1>s. shift.tasks <= max_tasks /\ shift.commits <= max_commits
  BY DEF Base, WithinLimits
<1>1. CASE StartShift
  <2> DEFINE found == [head |-> current_head, changed |-> changed_paths]
             j == [Idle EXCEPT !.at = "cycle", !.by = "shift", !.found = found]
  <2>1. found \in [head : Nat, changed : SUBSET Paths]
    BY <1>t DEF current_head, changed_paths, tracked_worktree_paths, staged_paths,
                untracked_paths, Differ
  <2>2. j \in Job /\ j.at = "cycle" /\ j.commit = 0
    <3> HIDE DEF found
    <3> QED BY <2>1, IdleType DEF Job, Idle, Labels
  <2>3. shift' \in Shift /\ shift'.tasks = 0 /\ shift'.commits = 0 /\ Begins(j)
    BY <1>1 DEF StartShift, Shift
  <2> HIDE DEF j
  <2> QED BY <1>m, <2>2, <2>3, BeginsBase DEF Working
<1>2. ASSUME NEW w \in Workflows, CallIntegrate(w) PROVE Base'
  <2> DEFINE j == [Idle EXCEPT !.at = "integrate", !.by = "caller", !.workflow = w]
  <2>1. /\ j \in Job /\ j.at = "integrate" /\ j.commit = 0 /\ j.workflow = w
        /\ j.by = "caller"
    BY IdleType DEF Job, Idle, Labels
  <2>2. Begins(j) /\ shift' = shift /\ baseline[w] # 0
    BY <1>2 DEF CallIntegrate
  <2> HIDE DEF j
  <2> QED BY <1>s, <1>t, <2>1, <2>2, BeginsBase
<1>3. ASSUME NEW w \in Workflows, CallCommit(w) PROVE Base'
  <2>1. PICK hashes \in {NoFiles, job.protected} :
            Begins([Idle EXCEPT !.at = "commit", !.by = "caller", !.workflow = w,
                                !.protected = hashes])
    BY <1>3 DEF CallCommit
  <2> DEFINE j == [Idle EXCEPT !.at = "commit", !.by = "caller", !.workflow = w,
                               !.protected = hashes]
  <2>2. hashes \in Partial
    BY <1>t, <2>1, NoFilesType DEF Job
  <2>3. /\ j \in Job /\ j.at = "commit" /\ j.commit = 0 /\ j.workflow = w
        /\ j.by = "caller"
    BY <2>2, IdleType DEF Job, Idle, Labels
  <2>4. Begins(j) /\ shift' = shift /\ baseline[w] # 0
    BY <1>3, <2>1 DEF CallCommit
  <2> HIDE DEF j
  <2> QED BY <1>s, <1>t, <2>3, <2>4, BeginsBase
<1>4. ASSUME NEW w \in Workflows, FreezePlan(w) PROVE Base'
  <2>1. /\ job.at = "idle" /\ baseline' = [baseline EXCEPT ![w] = Len(log)]
        /\ candidate' = [candidate EXCEPT ![w].files = log[Len(log)].tree]
        /\ UNCHANGED <<log, index, work, rows, saved, job, shift, result, touched, budget>>
    BY <1>4 DEF FreezePlan, current_head
  <2>2. /\ candidate' \in [Workflows -> [files : Tree, moved : BOOLEAN]]
        /\ baseline' \in [Workflows -> 0 .. Len(log)]
    BY <1>t, <2>1
  <2> QED BY <2>1, <2>2 DEF Base, Typed, RepositoryTyped, SessionTyped, EditsTyped,
                            WithinLimits, InCall, WritesHeld, Working
<1>5. CASE EditorWrites
  <2>1. PICK p \in Paths, c \in Content \cup {Absent} :
            Edits({p}) /\ work' = [work EXCEPT ![p] = c] /\ UNCHANGED <<log, index>>
    BY <1>5 DEF EditorWrites
  <2>2. work' \in Tree
    BY <1>t, <2>1 DEF Tree
  <2> QED BY <1>t, <2>1, <2>2, EditsBase
<1>6. CASE EditorStages
  <2>1. PICK p \in Paths :
            Edits({p}) /\ index' = [index EXCEPT ![p] = work[p]] /\ UNCHANGED <<log, work>>
    BY <1>6 DEF EditorStages
  <2>2. index' \in Tree
    BY <1>t, <2>1 DEF Tree
  <2> QED BY <1>t, <2>1, <2>2, EditsBase
<1>7. CASE EditorCommits
  <2>1. [tree |-> index, by |-> NoWorkflow] \in Entry
    BY <1>t DEF Entry
  <2>2. log' \in Seq(Entry) /\ Len(log') = Len(log) + 1
    BY <1>7, <1>t, <2>1, Committed DEF EditorCommits
  <2>3. staged_paths \in SUBSET Paths
    BY DEF staged_paths, Differ
  <2> QED BY <1>7, <1>t, <2>2, <2>3, EditsBase DEF EditorCommits
<1>8. CASE Crash
  <2>1. job' \in Job /\ job'.at = "idle" /\ job'.by = "nobody" /\ job'.commit = 0
    BY <1>8, IdleType DEF Crash, Idle
  <2>2. shift' \in Shift /\ shift'.tasks = shift.tasks /\ shift'.commits = shift.commits
    BY <1>8, <1>t DEF Crash, Shift
  <2>3. /\ rows' = saved /\ saved' = saved /\ result' \in Results
        /\ UNCHANGED <<log, index, work, candidate, baseline, touched, budget>>
    BY <1>8 DEF Crash, repository, Results
  <2> QED BY <1>s, <1>t, <2>1, <2>2, <2>3
    DEF Base, Typed, RepositoryTyped, SessionTyped, EditsTyped, WithinLimits, InCall,
        WritesHeld, Working
<1> QED BY <1>1, <1>2, <1>3, <1>4, <1>5, <1>6, <1>7, <1>8

LEMMA BaseInit ==
    ASSUME PromotionInit
    PROVE  Base
<1>1. firstTree \in Tree /\ humanFiles \in Partial /\ max_tasks \in Nat
      /\ max_commits \in Nat /\ MaxEdits \in Nat /\ MaxCalls \in Nat
  <2>1. DOMAIN humanFiles \in SUBSET Paths /\ humanFiles \in [DOMAIN humanFiles -> Content]
    BY PromotionAssumption DEF PromotionAssumption
  <2> QED BY <2>1, PartialIs, PromotionAssumption DEF PromotionAssumption
<1>2. log = <<[tree |-> firstTree, by |-> NoWorkflow]>> /\ log \in Seq(Entry) /\ Len(log) = 1
  <2>1. [tree |-> firstTree, by |-> NoWorkflow] \in Entry
    BY <1>1 DEF Entry
  <2> QED BY <2>1 DEF PromotionInit
<1>3. RepositoryTyped
  BY <1>1, <1>2, OverlayType DEF PromotionInit, RepositoryTyped
<1>4. SessionTyped /\ WithinLimits /\ InCall /\ WritesHeld
  <2>1. job \in Job /\ job.commit = 0 /\ job.at = "idle" /\ job.by = "nobody"
    BY IdleType DEF PromotionInit, Idle
  <2>2. rows \in Rows /\ saved \in Rows
    BY DEF PromotionInit, Rows, States
  <2>3. shift \in Shift /\ shift.tasks = 0 /\ shift.commits = 0 /\ result \in Results
    BY DEF PromotionInit, Shift, Results
  <2> QED BY <1>1, <1>2, <2>1, <2>2, <2>3
    DEF SessionTyped, WithinLimits, InCall, WritesHeld, Working
<1>5. EditsTyped
  BY <1>1 DEF PromotionInit, EditsTyped
<1> QED BY <1>3, <1>4, <1>5 DEF Base, Typed

LEMMA BaseStep ==
    ASSUME Base, [PromotionNext]_promotionVars
    PROVE  Base'
<1>1. CASE PromotionNext
  BY <1>1, IntegrationBase, CommitBase, ShiftBase, OthersBase DEF PromotionNext, ServiceStep
<1>2. CASE UNCHANGED promotionVars
  BY <1>2 DEF promotionVars, Base, Typed, RepositoryTyped, SessionTyped, EditsTyped,
              WithinLimits, InCall, WritesHeld
<1> QED BY <1>1, <1>2

(* What the provers keep as Base is the type invariant of the model.       *)
LEMMA BaseIsType ==
    ASSUME Base
    PROVE  PromotionTypeOK
<1>1. shift \in [tasks : 0 .. max_tasks, commits : 0 .. max_commits,
                 status : {"NONE", "CLEAN_TERMINATION", "HARD_STOP"}]
  BY PromotionAssumption
  DEF Base, Typed, SessionTyped, WithinLimits, Shift, PromotionAssumption
<1> QED BY <1>1 DEF Base, Typed, RepositoryTyped, SessionTyped, EditsTyped,
                    PromotionTypeOK, Entry, Rows, current_head

(***************************************************************************)
(* The state of the repository, of the session and of a call has its type: *)
(* what a call holds are files, the commit it looks at is on the branch,   *)
(* and a shift stays within max_tasks and max_commits.                     *)
(***************************************************************************)
THEOREM PromotionTypeCorrect == PromotionSpec => []PromotionTypeOK
<1>1. PromotionInit => Base
  BY BaseInit
<1>2. Base /\ [PromotionNext]_promotionVars => Base'
  BY BaseStep
<1>3. Base => PromotionTypeOK
  BY BaseIsType
<1> QED BY <1>1, <1>2, <1>3, PTL DEF PromotionSpec

----------------------------------------------------------------------------
(* What a commit in progress has established.                              *)

Fresh == {"rehash", "stage", "staged", "create"}
Made == {"created", "inspect", "conclude"}
Rechecked == Fresh \cup Made
Manifested == {"recheck"} \cup Rechecked
Checked == {"manifest"} \cup Manifested
Committing == {"commit_accept"} \cup Checked

(* A commit of a workflow comes after the commit its plan was frozen at.   *)
History ==
    \A k \in DOMAIN log : log[k].by \in Workflows =>
        baseline[log[k].by] # 0 /\ k > baseline[log[k].by]
(* Once the head was found at the baseline, nothing of the workflow is in  *)
(* the branch until the call itself commits.                               *)
NotYetCommitted ==
    job.at \in Fresh => \A k \in DOMAIN log : log[k].by # job.workflow
Once == History /\ NotYetCommitted /\ OneCommitPerFreeze

(* The changes to be committed are there, covered, and what the checks     *)
(* accepted but for what the editor touched.                               *)
Chosen ==
    /\ job.at \in Committing =>
          job.todo # {} /\ DOMAIN job.protected \cap authorized[job.workflow] = {}
    /\ job.at \in Checked => job.todo \subseteq DOMAIN accepts[job.workflow]
Passed(w) ==
    /\ job.at = "manifest" =>
          \A p \in DOMAIN accepts[w] \ touched : work[p] \in accepts[w][p]
    /\ job.at \in Manifested =>
          /\ DOMAIN job.held = job.todo
          /\ \A p \in job.todo \ touched : job.held[p] \in accepts[w][p]
    /\ job.at \in Rechecked =>
          \A p \in DOMAIN accepts[w] \ job.todo : Baseline(w)[p] \in accepts[w][p]
(* The call's own commit is in the branch, and is the one it inspected.    *)
Present(w) ==
    /\ job.at = "created" => \E k \in DOMAIN log : k > baseline[w] /\ log[k].by = w
    /\ job.at = "inspect" =>
          \E k \in DOMAIN log : k > baseline[w] /\ log[k].by = w /\ k <= job.commit
    /\ job.at = "conclude" =>
          /\ job.commit - 1 = baseline[w] /\ log[job.commit].by = w
          /\ Differ(log[baseline[w]].tree, log[job.commit].tree) = job.todo
          /\ \A p \in job.todo : log[job.commit].tree[p] = job.held[p]

(* RecordedCommitIsVerified of one record.                                 *)
Verified(r) ==
    /\ r.commit - 1 = baseline[r.workflow] /\ log[r.commit].by = r.workflow
    /\ Differ(log[r.commit - 1].tree, log[r.commit].tree) = DOMAIN r.contents
    /\ DOMAIN r.contents # {}
    /\ \A p \in DOMAIN r.contents : log[r.commit].tree[p] = r.contents[p]
    /\ DOMAIN r.contents \subseteq DOMAIN accepts[r.workflow]
    /\ \A p \in DOMAIN accepts[r.workflow] \ r.edited :
          log[r.commit].tree[p] \in accepts[r.workflow][p]
AllVerified ==
    \A r \in rows.records \cup saved.records : r.commit \in 2 .. Len(log) /\ Verified(r)

Promised == Once /\ Chosen /\ Passed(job.workflow) /\ Present(job.workflow) /\ AllVerified

(* Most steps have nothing to do with a commit.                            *)
Apart ==
    /\ UNCHANGED <<log, baseline>> /\ job'.at \notin Committing
    /\ rows'.records \cup saved'.records \subseteq rows.records \cup saved.records

LEMMA ApartKeeps ==
    ASSUME Base, Promised, Apart
    PROVE  Promised'
<1>1. Once'
  BY DEF Promised, Once, History, NotYetCommitted, OneCommitPerFreeze, Apart, Committing,
         Checked, Manifested, Rechecked
<1>2. Chosen' /\ (Passed(job.workflow))' /\ (Present(job.workflow))'
  BY DEF Chosen, Passed, Present, Apart, Committing, Checked, Manifested, Rechecked, Made
<1>3. AllVerified'
  BY DEF Promised, AllVerified, Verified, Apart
<1> QED BY <1>1, <1>2, <1>3 DEF Promised

LEMMA EndsApart ==
    ASSUME Typed, WithinLimits, UNCHANGED <<log, baseline>>, NEW st,
           NEW r \in Rows, r.records = rows.records,
           \/ st \in Results /\ IntegrationReturns(st, r)
           \/ st \in Results /\ job.at # "cycle" /\ CommitReturns(st, r)
           \/ ShiftEnds(st, r)
    PROVE  Apart
<1>1. CASE ShiftEnds(st, r)
  BY <1>1 DEF ShiftEnds, Idle, Apart, Committing, Checked, Manifested, Rechecked, Fresh, Made
<1>2. CASE st \in Results /\ IntegrationReturns(st, r)
  BY <1>2, IntegrationReturnsType
  DEF Apart, Committing, Checked, Manifested, Rechecked, Fresh, Made
<1>3. CASE st \in Results /\ job.at # "cycle" /\ CommitReturns(st, r)
  BY <1>3, CommitReturnsType
  DEF Apart, Committing, Checked, Manifested, Rechecked, Fresh, Made
<1> QED BY <1>1, <1>2, <1>3

LEMMA IntegrationApart ==
    ASSUME Base, IntegrationStep
    PROVE  Apart
<1>t. Typed /\ WithinLimits /\ rows \in Rows /\ job.workflow \in Workflows \cup {NoWorkflow}
  BY DEF Base, Typed, SessionTyped, Job
<1>s. {"FAILED", "COMPLETED", "ROLLBACK_FAILED"} \subseteq Results
  BY DEF Results
<1>1. UNCHANGED <<log, baseline>>
  BY DEF IntegrationStep, IntegrationPreflight, CandidatePreflight, CaptureCandidate,
         WriteFile, ObserveApplied, AcceptAndClose, RestorePath, RestoreFails,
         RollbackConcludes, repository
<1>2. ASSUME NEW st \in {"FAILED", "COMPLETED", "ROLLBACK_FAILED"}, NEW r \in Rows,
             r.records = rows.records, IntegrationReturns(st, r)
      PROVE  Apart
  BY <1>1, <1>2, <1>s, <1>t, EndsApart
<1>3. ASSUME job'.at \notin Committing, UNCHANGED <<rows, saved>>
      PROVE  Apart
  BY <1>1, <1>3 DEF Apart
<1>c. /\ "commit" \notin Committing /\ "candidate" \notin Committing
      /\ "capture" \notin Committing /\ "write" \notin Committing
      /\ "accept" \notin Committing /\ "rollback" \notin Committing
  BY DEF Committing, Checked, Manifested, Rechecked, Fresh, Made
<1>j. \A l : At(l) => job'.at = l
  BY <1>t DEF At, Base, Typed, SessionTyped, Job
<1>4. ASSUME NEW w \in Workflows
      PROVE  /\ [rows EXCEPT !.state[w] = "CLOSED"] \in Rows
             /\ [rows EXCEPT !.state[w] = "CLOSED"].records = rows.records
  BY <1>t DEF Rows, States
<1>w. job.at = "accept" => job.workflow \in Workflows
  BY DEF Base, InCall, Working, Labels
<1>e. job \in Job
  BY DEF Base, Typed, SessionTyped
<1>5. CASE IntegrationPreflight
  BY <1>2, <1>3, <1>5, <1>c, <1>e, <1>t DEF IntegrationPreflight, Job
<1>6. CASE CandidatePreflight
  BY <1>2, <1>3, <1>6, <1>c, <1>e, <1>t DEF CandidatePreflight, Job
<1>7. CASE CaptureCandidate
  BY <1>2, <1>3, <1>7, <1>c, <1>e, <1>t DEF CaptureCandidate, Job
<1>8. CASE WriteFile
  BY <1>3, <1>8, <1>c, <1>e DEF WriteFile, Job
<1>9. CASE ObserveApplied
  BY <1>3, <1>9, <1>c, <1>e, <1>j DEF ObserveApplied, RollBack, Job
<1>10. CASE AcceptAndClose
  BY <1>2, <1>3, <1>4, <1>10, <1>c, <1>e, <1>t, <1>w DEF AcceptAndClose, RollBack, Job
<1>11. CASE RestorePath
  BY <1>3, <1>11, <1>c, <1>e DEF RestorePath, Job
<1>12. CASE RestoreFails
  BY <1>2, <1>12, <1>t DEF RestoreFails
<1>13. CASE RollbackConcludes
  BY <1>2, <1>13, <1>t DEF RollbackConcludes
<1> QED BY <1>5, <1>6, <1>7, <1>8, <1>9, <1>10, <1>11, <1>12, <1>13 DEF IntegrationStep

LEMMA ShiftApart ==
    ASSUME Base, ShiftStep
    PROVE  Apart
<1>t. Typed /\ WithinLimits /\ rows \in Rows /\ job \in Job
  BY DEF Base, Typed, SessionTyped
<1>1. UNCHANGED <<log, baseline>>
  BY DEF ShiftStep, ShiftFinishes, CaptureSnapshots, RuntimeEndsShift, TaskCompletes,
         TaskFails, TaskEnds, Promote, ProveContained, repository
<1>2. ASSUME NEW st, NEW r \in Rows, r.records = rows.records, ShiftEnds(st, r)
      PROVE  Apart
  BY <1>1, <1>2, <1>t, EndsApart
<1>3. ASSUME job'.at \notin Committing, rows'.records = rows.records, UNCHANGED saved
      PROVE  Apart
  BY <1>1, <1>3 DEF Apart
<1>c. /\ "cycle" \notin Committing /\ "running" \notin Committing
      /\ "promote" \notin Committing /\ "contain" \notin Committing
      /\ "integrate" \notin Committing
  BY DEF Committing, Checked, Manifested, Rechecked, Fresh, Made
<1>r. Reopened \in Rows /\ Reopened.records = rows.records
  BY <1>t, ReopenedType
<1>4. CASE ShiftFinishes
  BY <1>2, <1>4, <1>t DEF ShiftFinishes
<1>5. CASE CaptureSnapshots
  BY <1>3, <1>5, <1>c, <1>t DEF CaptureSnapshots, Job
<1>6. CASE RuntimeEndsShift
  BY <1>2, <1>6, <1>r DEF RuntimeEndsShift
<1>7. ASSUME NEW w \in Workflows, NEW st, NEW l \in {"promote", "contain"},
             TaskEnds(w, st, l)
      PROVE  Apart
  <2>1. rows' = [Reopened EXCEPT !.state[w] = st] /\ saved' = saved /\ job'.at = l
    BY <1>7, <1>t DEF TaskEnds, Job
  <2>2. rows'.records = rows.records
    <3> HIDE DEF Reopened
    <3> QED BY <1>r, <2>1 DEF Rows
  <2> QED BY <1>3, <1>c, <2>1, <2>2
<1>8. CASE \E w \in Workflows : TaskCompletes(w) \/ TaskFails(w)
  BY <1>7, <1>8 DEF TaskCompletes, TaskFails
<1>9. CASE Promote
  BY <1>2, <1>3, <1>9, <1>c, <1>t DEF Promote, Job
<1>10. CASE ProveContained
  <2>1. CASE ShiftEnds("HARD_STOP", rows)
    BY <1>2, <1>t, <2>1
  <2>2. CASE CycleAgain /\ UNCHANGED saved /\ rows'.records = rows.records
    BY <1>3, <1>c, <1>t, <2>2, CycleType
  <2>3. [rows EXCEPT !.state[job.workflow] = "BLOCKED"].records = rows.records
    BY <1>t DEF Rows
  <2> QED BY <1>10, <2>1, <2>2, <2>3 DEF ProveContained
<1> QED BY <1>4, <1>5, <1>6, <1>8, <1>9, <1>10 DEF ShiftStep

LEMMA OthersApart ==
    ASSUME Base
    PROVE  /\ StartShift => Apart
           /\ \A w \in Workflows : CallIntegrate(w) \/ CallCommit(w) => Apart
           /\ Crash => Apart
<1>c. /\ "cycle" \notin Committing /\ "integrate" \notin Committing
      /\ "commit" \notin Committing /\ "idle" \notin Committing
  BY DEF Committing, Checked, Manifested, Rechecked, Fresh, Made
<1>1. CASE StartShift
  BY <1>1, <1>c DEF StartShift, Begins, Apart, Idle, repository
<1>2. ASSUME NEW w \in Workflows, CallIntegrate(w) PROVE Apart
  BY <1>2, <1>c DEF CallIntegrate, Begins, Apart, Idle, repository
<1>3. ASSUME NEW w \in Workflows, CallCommit(w) PROVE Apart
  BY <1>3, <1>c DEF CallCommit, Begins, Apart, Idle, repository
<1>4. CASE Crash
  BY <1>4, <1>c DEF Crash, Apart, Idle, repository
<1> QED BY <1>1, <1>2, <1>3, <1>4

(* A commit of anybody's is added after those that were looked at, and no  *)
(* commit moves.                                                           *)
LEMMA AppendKeeps ==
    ASSUME Base, Promised, NEW e \in Entry, log' \in {log, Append(log, e)},
           UNCHANGED <<baseline, rows, saved>>
    PROVE  /\ AllVerified'
           /\ \A w \in Workflows : baseline[w] # 0 => (Baseline(w))' = Baseline(w)
           /\ \A k \in DOMAIN log : k \in DOMAIN log' /\ log'[k] = log[k]
<1>1. /\ Len(log) \in Nat \ {0} /\ DOMAIN log = 1 .. Len(log)
      /\ log \in Seq(Entry) /\ baseline \in [Workflows -> 0 .. Len(log)]
  BY HeadType DEF Base, Typed, RepositoryTyped
<1>2. /\ \A k \in 1 .. Len(log) : k \in DOMAIN log' /\ log'[k] = log[k]
      /\ Len(log') \in {Len(log), Len(log) + 1}
  BY <1>1, Committed
<1>3. ASSUME NEW r \in rows.records \cup saved.records
      PROVE  r.commit \in 2 .. Len(log') /\ Verified(r)'
  <2>1. r.commit \in 2 .. Len(log) /\ Verified(r)
    BY DEF Promised, AllVerified
  <2>2. r.commit \in 1 .. Len(log) /\ r.commit - 1 \in 1 .. Len(log)
        /\ r.commit \in 2 .. Len(log')
    BY <1>1, <1>2, <2>1
  <2>3. log'[r.commit] = log[r.commit] /\ log'[r.commit - 1] = log[r.commit - 1]
    BY <1>2, <2>2
  <2> QED BY <2>1, <2>2, <2>3 DEF Verified
<1>4. AllVerified'
  BY <1>3 DEF AllVerified
<1>5. ASSUME NEW w \in Workflows, baseline[w] # 0
      PROVE  (Baseline(w))' = Baseline(w)
  <2>1. baseline[w] \in 1 .. Len(log)
    BY <1>1, <1>5
  <2> QED BY <1>2, <2>1 DEF Baseline
<1> QED BY <1>1, <1>2, <1>4, <1>5

LEMMA EditsKeep ==
    ASSUME Base, Promised, NEW S \in SUBSET Paths, Edits(S),
           log' \in {log, Append(log, [tree |-> index, by |-> NoWorkflow])},
           \A p \in Paths \ S : work'[p] = work[p]
    PROVE  Promised'
<1> DEFINE w == job.workflow
           e == [tree |-> index, by |-> NoWorkflow]
<1>1. /\ UNCHANGED <<baseline, rows, saved, job>> /\ touched' = touched \cup S
      /\ NoWorkflow \notin Workflows
  BY PromotionAssumption DEF Edits, PromotionAssumption
<1>2. /\ Len(log) \in Nat \ {0} /\ DOMAIN log = 1 .. Len(log)
      /\ log \in Seq(Entry) /\ baseline \in [Workflows -> 0 .. Len(log)]
      /\ e \in Entry
  BY HeadType DEF Base, Typed, RepositoryTyped, Entry
<1>3. /\ AllVerified'
      /\ \A v \in Workflows : baseline[v] # 0 => (Baseline(v))' = Baseline(v)
      /\ \A k \in DOMAIN log : k \in DOMAIN log' /\ log'[k] = log[k]
  BY <1>1, <1>2, AppendKeeps
<1>4. \A k \in DOMAIN log' : log'[k].by \in Workflows => k \in DOMAIN log
  BY <1>1, <1>2, Committed
<1>5. Once'
  <2>1. History'
    BY <1>1, <1>3, <1>4 DEF Promised, Once, History
  <2>2. OneCommitPerFreeze'
    BY <1>3, <1>4 DEF Promised, Once, OneCommitPerFreeze
  <2>3. NotYetCommitted'
    <3>1. job.at \in Fresh => w \in Workflows
      BY DEF Base, InCall, Working, Labels, Fresh
    <3> QED BY <1>1, <1>3, <1>4, <3>1 DEF Promised, Once, NotYetCommitted
  <2> QED BY <2>1, <2>2, <2>3 DEF Once
<1>6. Chosen'
  BY <1>1 DEF Promised, Chosen
<1>7. job.at \in Committing => /\ w \in Workflows /\ baseline[w] \in 1 .. Len(log)
                               /\ DOMAIN accepts[w] \subseteq Paths
  <2>1. job.at \in Committing => w \in Workflows /\ baseline[w] # 0
    BY DEF Base, InCall, Working, Labels, Committing, Checked, Manifested, Rechecked, Fresh, Made
  <2>2. w \in Workflows => DOMAIN accepts[w] \subseteq Paths
    BY PromotionAssumption DEF PromotionAssumption
  <2> QED BY <1>2, <2>1, <2>2
<1>8. (Passed(w))'
  <2>1. job.at = "manifest" =>
            \A p \in DOMAIN accepts[w] \ touched' : work'[p] \in accepts[w][p]
    BY <1>1, <1>7 DEF Promised, Passed, Committing, Checked
  <2>2. job.at \in Manifested =>
            \A p \in job.todo \ touched' : job.held[p] \in accepts[w][p]
    BY <1>1 DEF Promised, Passed
  <2>3. job.at \in Rechecked =>
            \A p \in DOMAIN accepts[w] \ job.todo : Baseline(w)'[p] \in accepts[w][p]
    BY <1>1, <1>3, <1>7 DEF Promised, Passed, Committing, Checked, Manifested
  <2> QED BY <1>1, <2>1, <2>2, <2>3 DEF Promised, Passed
<1>9. (Present(w))'
  <2>1. job.at = "conclude" => job.commit \in DOMAIN log
    BY <1>2, <1>7 DEF Promised, Present, Base, Typed, SessionTyped, Committing, Checked,
                      Manifested, Rechecked, Made
  <2>2. job.at = "conclude" => baseline[w] \in DOMAIN log
    BY <1>2, <1>7 DEF Committing, Checked, Manifested, Rechecked, Made
  <2> HIDE DEF w
  <2>w. w = job.workflow
    BY DEF w
  <2>3. job.at = "created" =>
            \E k \in DOMAIN log' : k > baseline[w] /\ log'[k].by = w
    BY <1>3, <2>w DEF Promised, Present
  <2>4. job.at = "inspect" =>
            \E k \in DOMAIN log' : k > baseline[w] /\ log'[k].by = w /\ k <= job.commit
    BY <1>3, <2>w DEF Promised, Present
  <2>5. job.at = "conclude" =>
            /\ log'[job.commit] = log[job.commit] /\ log'[baseline[w]] = log[baseline[w]]
    BY <1>3, <2>1, <2>2
  <2>6. w' = w
    BY <1>1, <2>w DEF w
  <2> QED BY <1>1, <2>3, <2>4, <2>5, <2>6, <2>w DEF Promised, Present
<1> QED BY <1>1, <1>3, <1>5, <1>6, <1>8, <1>9 DEF Promised

LEMMA FreezeKeeps ==
    ASSUME Base, Promised, NEW w \in Workflows, FreezePlan(w)
    PROVE  Promised'
<1>1. /\ baseline' = [baseline EXCEPT ![w] = current_head] /\ baseline[w] = 0
      /\ UNCHANGED <<log, rows, saved, job>> /\ job.at = "idle"
  BY DEF FreezePlan
<1>2. baseline \in [Workflows -> 0 .. Len(log)]
  BY DEF Base, Typed, RepositoryTyped
<1>3. Once'
  BY <1>1, <1>2 DEF Promised, Once, History, NotYetCommitted, OneCommitPerFreeze, Fresh
<1>4. Chosen' /\ (Passed(job.workflow))' /\ (Present(job.workflow))'
  BY <1>1 DEF Chosen, Passed, Present, Committing, Checked, Manifested, Rechecked, Fresh, Made
<1>5. AllVerified'
  <2>1. ASSUME NEW r \in rows.records \cup saved.records, r.workflow = w PROVE FALSE
    <3>1. r.commit \in 2 .. Len(log) /\ r.commit - 1 = baseline[w]
      BY <2>1 DEF Promised, AllVerified, Verified
    <3> QED BY <1>1, <3>1
  <2>2. ASSUME NEW r \in rows.records \cup saved.records
        PROVE  baseline'[r.workflow] = baseline[r.workflow]
    <3>1. r \in Record
      BY DEF Base, Typed, SessionTyped, Rows
    <3> QED BY <1>1, <1>2, <2>1, <3>1 DEF Record
  <2> QED BY <1>1, <2>2 DEF Promised, AllVerified, Verified
<1> QED BY <1>1, <1>3, <1>4, <1>5 DEF Promised

(* A tree in which nothing is changed but what is protected or to be       *)
(* committed holds the baseline everywhere else.                           *)
LEMMA UnchangedIsBaseline ==
    ASSUME RepositoryTyped, NEW w \in Workflows, HeadIsBaseline(w), staged_paths = {},
           NEW p \in Paths, p \notin changed_paths
    PROVE  work[p] = Baseline(w)[p]
<1>1. log[current_head].tree = Baseline(w)
  BY DEF HeadIsBaseline, Baseline
<1>2. index[p] = log[current_head].tree[p]
  BY DEF staged_paths, Differ
<1>3. work[p] = index[p]
  BY DEF changed_paths, tracked_worktree_paths, untracked_paths, Differ
<1> QED BY <1>1, <1>2, <1>3

LEMMA CommitKeeps ==
    ASSUME Base, Promised, CommitStep
    PROVE  Promised'
<1> DEFINE w == job.workflow
<1>t. /\ job \in Job /\ rows \in Rows /\ saved \in Rows /\ index \in Tree /\ work \in Tree
      /\ log \in Seq(Entry) /\ Len(log) \in Nat \ {0} /\ DOMAIN log = 1 .. Len(log)
      /\ baseline \in [Workflows -> 0 .. Len(log)] /\ job.commit \in 0 .. Len(log)
      /\ Typed /\ WithinLimits
  BY HeadType DEF Base, Typed, SessionTyped, RepositoryTyped
<1>l. job.at \in {"commit", "commit_accept", "manifest", "recheck", "rehash", "stage",
                  "staged", "create", "created", "inspect", "conclude"}
  BY DEF CommitStep, CommitPreflight, CommitAcceptance, BuildManifest, RecheckState,
         RecheckHashes, StagePaths, StagingFails, VerifyStaged, CreateCommit,
         ReadResultingCommit, InspectCommit, ConcludeCommit
<1>v. /\ w \in Workflows /\ baseline[w] \in 1 .. Len(log)
      /\ DOMAIN accepts[w] \subseteq authorized[w] /\ authorized[w] \subseteq Paths
  <2>1. w \in Workflows /\ baseline[w] # 0
    BY <1>l DEF Base, InCall, Working, Labels
  <2> QED BY <1>t, <2>1, PromotionAssumption DEF PromotionAssumption
<1>u. UNCHANGED baseline
  BY DEF CommitStep, CommitPreflight, CommitAcceptance, BuildManifest, RecheckState,
         RecheckHashes, StagePaths, StagingFails, VerifyStaged, CreateCommit,
         ReadResultingCommit, InspectCommit, ConcludeCommit
<1>s. {"FAILED", "COMPLETED", "ALREADY_COMMITTED", "POST_COMMIT_VERIFICATION_FAILED"}
        \subseteq Results
  BY DEF Results
<1>e. ASSUME NEW st \in {"FAILED", "ALREADY_COMMITTED", "POST_COMMIT_VERIFICATION_FAILED"},
             CommitReturns(st, rows), UNCHANGED log
      PROVE  Promised'
  BY <1>e, <1>l, <1>s, <1>t, <1>u, ApartKeeps, EndsApart
<1>j. ASSUME NEW l, At(l)
      PROVE  /\ job'.at = l
             /\ UNCHANGED <<job.workflow, job.todo, job.held, job.protected, job.commit>>
  BY <1>j, <1>t DEF At, Job
\* A step that leaves the branch and the rows alone: what it establishes is
\* about the call.
<1>g. ASSUME UNCHANGED <<log, rows, saved>>, job'.workflow = w,
             job'.at \in Fresh => \A k \in DOMAIN log : log[k].by # w,
             Chosen', Passed(w)', Present(w)'
      PROVE  Promised'
  <2>1. Once'
    BY <1>g, <1>u DEF Promised, Once, History, NotYetCommitted, OneCommitPerFreeze
  <2>2. AllVerified'
    BY <1>g, <1>u DEF Promised, AllVerified, Verified
  <2> QED BY <1>g, <2>1, <2>2 DEF Promised
<1>1. CASE CommitPreflight
  <2>1. CASE job' = [job EXCEPT !.at = "commit_accept",
                                !.todo = changed_paths \ DOMAIN job.protected]
    <3>1. /\ job'.at = "commit_accept" /\ job'.workflow = w
          /\ job'.todo = changed_paths \ DOMAIN job.protected
          /\ job'.protected = job.protected
      BY <1>t, <2>1 DEF Job
    <3>2. /\ changed_paths \ DOMAIN job.protected # {}
          /\ DOMAIN job.protected \cap authorized[w] = {}
          /\ UNCHANGED <<log, rows, saved>>
      BY <1>1, <1>l, <2>1, <3>1, CommitReturnsType, <1>s, <1>t DEF CommitPreflight, repository
    <3>3. Chosen' /\ (Passed(w))' /\ (Present(w))'
      BY <3>1, <3>2 DEF Chosen, Passed, Present, Checked, Manifested, Rechecked, Fresh, Made
    <3> QED BY <1>g, <3>1, <3>2, <3>3 DEF Fresh
  <2>2. CASE \E st \in {"ALREADY_COMMITTED", "FAILED"} : CommitReturns(st, rows)
    BY <1>1, <1>e, <2>2 DEF CommitPreflight, repository
  <2> QED BY <1>1, <2>1, <2>2 DEF CommitPreflight
<1>2. CASE CommitAcceptance
  <2>1. CASE /\ FilesAccepted(w, work) /\ Covered(w, job.todo)
             /\ At("manifest") /\ UNCHANGED <<rows, saved, shift, result>>
    <3>1. Chosen'
      BY <1>2, <1>j, <2>1 DEF CommitAcceptance, Promised, Chosen, Covered, Committing
    <3>2. (Passed(w))' /\ (Present(w))'
      BY <1>2, <1>j, <2>1 DEF CommitAcceptance, repository, Passed, Present, FilesAccepted,
                             Manifested, Rechecked, Fresh, Made
    <3> QED BY <1>2, <1>g, <1>j, <2>1, <3>1, <3>2 DEF CommitAcceptance, repository, Fresh
  <2>2. CASE CommitReturns("FAILED", rows)
    BY <1>2, <1>e, <2>2 DEF CommitAcceptance, repository
  <2> QED BY <1>2, <2>1, <2>2 DEF CommitAcceptance
<1>3. CASE BuildManifest
  <2>1. CASE job' = [job EXCEPT !.at = "recheck", !.held = [p \in job.todo |-> work[p]]]
             /\ UNCHANGED <<rows, saved, shift, result>>
    <3>1. /\ job'.at = "recheck" /\ job'.held = [p \in job.todo |-> work[p]]
          /\ UNCHANGED <<job.workflow, job.todo, job.protected, log, touched>>
          /\ job.at = "manifest"
      BY <1>3, <1>t, <2>1 DEF BuildManifest, repository, Job
    <3>2. Chosen'
      BY <3>1 DEF Promised, Chosen, Committing, Checked
    <3>3. (Passed(w))' /\ (Present(w))'
      BY <3>1 DEF Promised, Chosen, Passed, Present, Checked, Rechecked, Fresh, Made
    <3> QED BY <1>g, <2>1, <3>1, <3>2, <3>3 DEF Fresh
  <2>2. CASE CommitReturns("FAILED", rows)
    BY <1>3, <1>e, <2>2 DEF BuildManifest, repository
  <2> QED BY <1>3, <2>1, <2>2 DEF BuildManifest
<1>4. CASE RecheckState
  <2>1. CASE /\ HeadIsBaseline(w) /\ staged_paths = {}
             /\ changed_paths \ DOMAIN job.protected = job.todo /\ FilesAccepted(w, work)
             /\ At("rehash") /\ UNCHANGED <<rows, saved, shift, result>>
    <3>1. job.at = "recheck" /\ UNCHANGED <<log, touched>>
      BY <1>4 DEF RecheckState, repository
    <3>2. \A k \in DOMAIN log : log[k].by # w
      BY <1>t, <1>v, <2>1 DEF Promised, Once, History, HeadIsBaseline, current_head
    <3>3. \A p \in DOMAIN accepts[w] \ job.todo : Baseline(w)[p] \in accepts[w][p]
      <4>1. DOMAIN job.protected \cap authorized[w] = {}
        BY <3>1 DEF Promised, Chosen, Committing, Checked, Manifested
      <4>2. TAKE p \in DOMAIN accepts[w] \ job.todo
      <4>3. p \in Paths /\ p \notin changed_paths
        BY <1>v, <2>1, <4>1
      <4>4. work[p] = Baseline(w)[p]
        BY <1>t, <1>v, <2>1, <4>3, UnchangedIsBaseline DEF Typed
      <4> QED BY <2>1, <4>4 DEF FilesAccepted
    <3>4. Chosen'
      BY <1>j, <2>1, <3>1 DEF Promised, Chosen, Committing, Checked, Manifested
    <3>5. (Passed(w))' /\ (Present(w))'
      BY <1>j, <1>u, <2>1, <3>1, <3>3 DEF Promised, Passed, Present, Manifested, Made, Baseline
    <3> QED BY <1>g, <1>j, <2>1, <3>1, <3>2, <3>4, <3>5
  <2>2. CASE CommitReturns("FAILED", rows)
    BY <1>4, <1>e, <2>2 DEF RecheckState, repository
  <2> QED BY <1>4, <2>1, <2>2 DEF RecheckState
\* The steps between the hashes and git commit.
<1>f. ASSUME job.at \in Fresh, NEW l \in Fresh, At(l), UNCHANGED <<log, rows, saved, touched>>
      PROVE  Promised'
  <2>1. Chosen'
    BY <1>f, <1>j DEF Promised, Chosen, Committing, Checked, Manifested, Rechecked
  <2>2. (Passed(w))' /\ (Present(w))'
    BY <1>f, <1>j, <1>u DEF Promised, Passed, Present, Manifested, Rechecked, Fresh, Baseline
  <2> QED BY <1>f, <1>g, <1>j, <2>1, <2>2 DEF Promised, Once, NotYetCommitted
<1>5. CASE RecheckHashes
  BY <1>5, <1>e, <1>f DEF RecheckHashes, repository, Fresh
<1>6. CASE StagePaths
  BY <1>6, <1>f DEF StagePaths, Fresh
<1>7. CASE StagingFails
  BY <1>7, <1>e DEF StagingFails
<1>8. CASE VerifyStaged
  BY <1>8, <1>e, <1>f DEF VerifyStaged, Fresh
<1>9. CASE CreateCommit
  <2> DEFINE e == [tree |-> index, by |-> w]
  <2>1. CASE log' = Append(log, e) /\ At("created") /\ UNCHANGED <<index, rows, saved, shift, result>>
    <3>1. e \in Entry /\ e.by = w
      BY <1>t, <1>v DEF Entry
    <3>2. /\ DOMAIN log' = 1 .. Len(log) + 1
          /\ \A k \in DOMAIN log : k \in DOMAIN log' /\ log'[k] = log[k]
          /\ log'[Len(log) + 1] = e
      <4> HIDE DEF e
      <4> QED BY <1>t, <2>1, <3>1, Committed
    <3>3. job.at = "create" /\ UNCHANGED touched /\ job'.at = "created" /\ job'.workflow = w
          /\ UNCHANGED <<job.todo, job.held, job.protected>>
      BY <1>9, <1>j, <2>1 DEF CreateCommit
    <3>4. AllVerified' /\ (Baseline(w))' = Baseline(w)
      <4>1. AllVerified' /\ \A v \in Workflows : baseline[v] # 0 => (Baseline(v))' = Baseline(v)
        <5> HIDE DEF e
        <5> QED BY <1>u, <2>1, <3>1, AppendKeeps
      <4> QED BY <1>v, <3>3, <4>1
    <3> HIDE DEF e
    <3>5. \A k \in DOMAIN log : log[k].by # w
      BY <3>3 DEF Promised, Once, NotYetCommitted, Fresh
    <3>6. \A k \in DOMAIN log' : (k \in DOMAIN log /\ log'[k] = log[k]) \/ k = Len(log) + 1
      BY <1>t, <3>2
    <3>7. Len(log) + 1 > baseline[w] /\ Len(log) + 1 \in DOMAIN log'
      BY <1>t, <1>v, <3>2
    <3>8. Once'
      <4>1. History'
        BY <1>u, <1>v, <3>1, <3>2, <3>6, <3>7 DEF Promised, Once, History
      <4>2. OneCommitPerFreeze'
        BY <3>1, <3>2, <3>5, <3>6 DEF Promised, Once, OneCommitPerFreeze
      <4>3. NotYetCommitted'
        BY <3>3 DEF NotYetCommitted, Fresh
      <4> QED BY <4>1, <4>2, <4>3 DEF Once
    <3>9. Chosen'
      BY <3>3 DEF Promised, Chosen, Committing, Checked, Manifested, Rechecked, Fresh, Made
    <3>10. (Passed(w))'
      BY <3>4, <3>3 DEF Promised, Passed, Manifested, Rechecked, Fresh, Made
    <3>11. (Present(w))'
      BY <1>u, <3>1, <3>2, <3>3, <3>7 DEF Present
    <3> QED BY <3>4, <3>3, <3>8, <3>9, <3>10, <3>11 DEF Promised
  <2>2. CASE CommitReturns("FAILED", rows) /\ UNCHANGED log
    BY <1>e, <2>2
  <2> QED BY <1>9, <2>1, <2>2 DEF CreateCommit
<1>10. CASE ReadResultingCommit
  <2>1. /\ job.at = "created" /\ job'.at = "inspect" /\ job'.commit = Len(log)
        /\ UNCHANGED <<job.workflow, job.todo, job.held, job.protected, log, touched, rows, saved>>
    BY <1>10, <1>t DEF ReadResultingCommit, repository, current_head, Job
  <2>2. Chosen'
    BY <2>1 DEF Promised, Chosen, Committing, Checked, Manifested, Rechecked, Made
  <2>3. (Passed(w))'
    BY <1>u, <2>1 DEF Promised, Passed, Manifested, Rechecked, Made, Baseline
  <2>4. (Present(w))'
    BY <1>t, <1>u, <2>1 DEF Promised, Present
  <2> QED BY <1>g, <2>1, <2>2, <2>3, <2>4 DEF Fresh
<1>11. CASE InspectCommit
  <2>1. CASE /\ job.commit - 1 = baseline[w] /\ CommitChanged(job.commit) = job.todo
             /\ \A p \in job.todo : log[job.commit].tree[p] = job.held[p]
             /\ At("conclude") /\ UNCHANGED <<rows, saved, shift, result>>
    <3>1. job.at = "inspect" /\ UNCHANGED <<log, touched>>
      BY <1>11 DEF InspectCommit, repository
    <3>2. Chosen'
      BY <1>j, <2>1, <3>1 DEF Promised, Chosen, Committing, Checked, Manifested, Rechecked, Made
    <3>3. (Passed(w))'
      BY <1>j, <1>u, <2>1, <3>1 DEF Promised, Passed, Manifested, Rechecked, Made, Baseline
    <3>4. log[job.commit].by = w
      <4>1. PICK k \in DOMAIN log : k > baseline[w] /\ log[k].by = w /\ k <= job.commit
        BY <3>1 DEF Promised, Present
      <4>2. k = job.commit
        BY <1>t, <1>v, <2>1, <4>1
      <4> QED BY <4>1, <4>2
    <3>5. Differ(log[baseline[w]].tree, log[job.commit].tree) = job.todo
      BY <2>1 DEF CommitChanged, Differ
    <3>6. (Present(w))'
      BY <1>j, <1>u, <2>1, <3>1, <3>4, <3>5 DEF Present
    <3> QED BY <1>g, <1>j, <2>1, <3>1, <3>2, <3>3, <3>6 DEF Fresh
  <2>2. CASE CommitReturns("POST_COMMIT_VERIFICATION_FAILED", rows)
    BY <1>11, <1>e, <2>2 DEF InspectCommit, repository
  <2> QED BY <1>11, <2>1, <2>2 DEF InspectCommit
<1>12. CASE ConcludeCommit
  <2> DEFINE record == [workflow |-> w, commit |-> job.commit,
                        contents |-> job.held, edited |-> touched]
             more == [rows EXCEPT !.records = @ \cup {record}]
  <2>1. CASE CommitReturns("COMPLETED", more)
    <3>1. more \in Rows /\ more.records = rows.records \cup {record}
      <4>1. record \in Record
        BY <1>t, <1>v DEF Record, Job, Base, Typed, EditsTyped
      <4> HIDE DEF record
      <4> QED BY <1>t, <4>1 DEF Rows
    <3>2. /\ rows' = more /\ saved' \in {saved, more} /\ job'.at \in {"idle", "cycle"}
          /\ UNCHANGED <<log, touched>> /\ job.at = "conclude"
      <4> HIDE DEF more
      <4> QED BY <1>12, <1>l, <1>s, <1>t, <2>1, <3>1, CommitReturnsType
              DEF ConcludeCommit, repository
    <3>3. Once' /\ Chosen' /\ (Passed(job.workflow))' /\ (Present(job.workflow))'
      BY <1>u, <3>2 DEF Promised, Once, History, NotYetCommitted, OneCommitPerFreeze, Chosen,
                        Passed, Present, Committing, Checked, Manifested, Rechecked, Fresh, Made
    <3>4. job.commit \in 2 .. Len(log) /\ Verified(record)
      <4>1. /\ job.commit - 1 = baseline[w] /\ log[job.commit].by = w
            /\ Differ(log[baseline[w]].tree, log[job.commit].tree) = job.todo
            /\ \A p \in job.todo : log[job.commit].tree[p] = job.held[p]
        BY <3>2 DEF Promised, Present
      <4>2. /\ job.todo # {} /\ job.todo \subseteq DOMAIN accepts[w]
            /\ DOMAIN job.held = job.todo
            /\ \A p \in job.todo \ touched : job.held[p] \in accepts[w][p]
            /\ \A p \in DOMAIN accepts[w] \ job.todo : Baseline(w)[p] \in accepts[w][p]
        BY <3>2 DEF Promised, Chosen, Passed, Committing, Checked, Manifested, Rechecked, Made
      <4>3. job.commit \in 2 .. Len(log)
        BY <1>t, <1>v, <4>1
      <4>4. ASSUME NEW p \in DOMAIN accepts[w] \ touched
            PROVE  log[job.commit].tree[p] \in accepts[w][p]
        <5>1. CASE p \in job.todo
          BY <4>1, <4>2, <4>4, <5>1
        <5>2. CASE p \notin job.todo
          <6>1. p \in Paths
            BY <1>v, <4>4
          <6>2. log[job.commit].tree[p] = Baseline(w)[p]
            BY <4>1, <5>2, <6>1 DEF Differ, Baseline
          <6> QED BY <4>2, <4>4, <5>2, <6>2
        <5> QED BY <5>1, <5>2
      <4>5. /\ record.workflow = w /\ record.commit = job.commit
            /\ record.contents = job.held /\ record.edited = touched
        OBVIOUS
      <4> HIDE DEF record, w
      <4> QED BY <4>1, <4>2, <4>3, <4>4, <4>5 DEF Verified
    <3>5. AllVerified'
      <4>1. \A r \in rows.records \cup saved.records \cup {record} :
                r.commit \in 2 .. Len(log) /\ Verified(r)
        BY <3>4 DEF Promised, AllVerified
      <4>2. rows'.records \cup saved'.records
              \subseteq rows.records \cup saved.records \cup {record}
        BY <3>1, <3>2
      <4> HIDE DEF record
      <4> QED BY <1>u, <3>2, <4>1, <4>2 DEF AllVerified, Verified
    <3> QED BY <3>3, <3>5 DEF Promised
  <2>2. CASE CommitReturns("POST_COMMIT_VERIFICATION_FAILED", rows)
    BY <1>12, <1>e, <2>2 DEF ConcludeCommit, repository
  <2> QED BY <1>12, <2>1, <2>2 DEF ConcludeCommit
<1> QED
  BY <1>1, <1>2, <1>3, <1>4, <1>5, <1>6, <1>7, <1>8, <1>9, <1>10, <1>11, <1>12
  DEF CommitStep

LEMMA PromisedInit ==
    ASSUME PromotionInit
    PROVE  Promised
<1>1. log = <<[tree |-> firstTree, by |-> NoWorkflow]>> /\ NoWorkflow \notin Workflows
  BY PromotionAssumption DEF PromotionInit, PromotionAssumption
<1>2. Once
  BY <1>1 DEF PromotionInit, Idle, Once, History, NotYetCommitted, OneCommitPerFreeze, Fresh
<1>3. Chosen /\ Passed(job.workflow) /\ Present(job.workflow)
  BY DEF PromotionInit, Idle, Chosen, Passed, Present, Committing, Checked, Manifested,
         Rechecked, Fresh, Made
<1>4. AllVerified
  BY DEF PromotionInit, AllVerified
<1> QED BY <1>2, <1>3, <1>4 DEF Promised

LEMMA PromisedStep ==
    ASSUME Base, Promised, [PromotionNext]_promotionVars
    PROVE  Promised'
<1>t. index \in Tree /\ work \in Tree
  BY DEF Base, Typed, RepositoryTyped
<1>1. CASE IntegrationStep \/ ShiftStep \/ StartShift \/ Crash
           \/ \E w \in Workflows : CallIntegrate(w) \/ CallCommit(w)
  BY <1>1, ApartKeeps, IntegrationApart, ShiftApart, OthersApart
<1>2. CASE CommitStep
  BY <1>2, CommitKeeps
<1>3. CASE \E w \in Workflows : FreezePlan(w)
  BY <1>3, FreezeKeeps
<1>4. CASE EditorWrites
  <2>1. PICK p \in Paths, c \in Content \cup {Absent} :
            Edits({p}) /\ work' = [work EXCEPT ![p] = c] /\ UNCHANGED <<log, index>>
    BY <1>4 DEF EditorWrites
  <2>2. \A q \in Paths \ {p} : work'[q] = work[q]
    BY <1>t, <2>1 DEF Tree
  <2> QED BY <2>1, <2>2, EditsKeep
<1>5. CASE EditorStages
  BY <1>5, EditsKeep DEF EditorStages
<1>6. CASE EditorCommits
  <2>1. staged_paths \in SUBSET Paths
    BY DEF staged_paths, Differ
  <2> QED BY <1>6, <2>1, EditsKeep DEF EditorCommits
<1>7. CASE UNCHANGED promotionVars
  BY <1>7 DEF promotionVars, Promised, Once, History, NotYetCommitted, OneCommitPerFreeze,
              Chosen, Passed, Present, Baseline, AllVerified, Verified
<1> QED BY <1>1, <1>2, <1>3, <1>4, <1>5, <1>6, <1>7 DEF PromotionNext, ServiceStep

LEMMA PromisedAlways == PromotionSpec => [](Base /\ Promised)
<1>1. PromotionInit => Base /\ Promised
  BY BaseInit, PromisedInit
<1>2. Base /\ Promised /\ [PromotionNext]_promotionVars => (Base /\ Promised)'
  BY BaseStep, PromisedStep
<1> QED BY <1>1, <1>2, PTL DEF PromotionSpec

(***************************************************************************)
(* However often a commit is retried, whatever a crash forgets and whoever *)
(* else commits, the branch holds at most one commit of a workflow: the    *)
(* call finds the head at the frozen baseline after it last read it, and   *)
(* no commit of the workflow can be below the head then.                   *)
(***************************************************************************)
THEOREM CommittedOnce == PromotionSpec => []OneCommitPerFreeze
<1>1. Promised => OneCommitPerFreeze
  BY DEF Promised, Once
<1> QED BY <1>1, PromisedAlways, PTL

(***************************************************************************)
(* Every ControlledCommit record names a commit on the frozen baseline, by *)
(* its workflow, of exactly the files and contents recorded, each covered  *)
(* by a frozen check and accepted by it but for what the editor touched,   *)
(* although the checks, the hashes and git commit read the checkout at     *)
(* different times.                                                        *)
(***************************************************************************)
THEOREM RecordsAreVerified == PromotionSpec => []RecordedCommitIsVerified
<1>1. Promised => RecordedCommitIsVerified
  BY DEF Promised, AllVerified, Verified, RecordedCommitIsVerified
<1> QED BY <1>1, PromisedAlways, PTL

----------------------------------------------------------------------------
(* What an integration can put back.                                       *)

Integrating == {"candidate", "capture", "write", "accept", "rollback"}
Restored(w) ==
    job.at \in Integrating =>
      /\ \A p \in Paths : job.before.index[p] = Baseline(w)[p]
      /\ \A p \in authorized[w] : job.before.work[p] = Baseline(w)[p]
      /\ \A p \in Paths \ touched : index[p] = job.before.index[p]
      /\ \A p \in Paths \ (touched \cup authorized[w]) : work[p] = job.before.work[p]
      /\ job.at \in {"capture", "write", "rollback"} => job.todo \subseteq authorized[w]
      /\ job.at = "rollback" =>
            \A p \in authorized[w] \ (job.todo \cup touched) : work[p] = job.before.work[p]

LEMMA AtTheirEnd ==
    /\ \A r : CallEnds(r) => job'.at = "idle" /\ job'.by = "nobody"
    /\ \A st, r : ShiftEnds(st, r) => job'.at = "idle" /\ job'.by = "nobody"
BY DEF CallEnds, ShiftEnds, Idle

(* Only the integration itself works under these labels.                   *)
LEMMA CommitLeaves ==
    ASSUME Base, CommitStep
    PROVE  job'.at \notin Integrating
<1>t. /\ job \in Job /\ rows \in Rows /\ Typed /\ WithinLimits
  BY DEF Base, Typed, SessionTyped
<1>l. job.at # "cycle"
  BY DEF CommitStep, CommitPreflight, CommitAcceptance, BuildManifest, RecheckState,
         RecheckHashes, StagePaths, StagingFails, VerifyStaged, CreateCommit,
         ReadResultingCommit, InspectCommit, ConcludeCommit
<1>s. {"FAILED", "COMPLETED", "ALREADY_COMMITTED", "POST_COMMIT_VERIFICATION_FAILED"}
        \subseteq Results
  BY DEF Results
<1>e. ASSUME NEW st \in {"FAILED", "COMPLETED", "ALREADY_COMMITTED",
                         "POST_COMMIT_VERIFICATION_FAILED"},
             NEW r, CommitReturns(st, r)
      PROVE  job'.at \notin Integrating
  <2>1. CASE CycleAgain
    BY <1>t, <2>1, CycleType DEF Integrating
  <2> QED BY <1>e, <2>1, AtTheirEnd DEF CommitReturns, CycleAgain, Integrating
<1>a. \A l : At(l) => job'.at = l
  BY <1>t DEF At, Job
<1>1. CASE CommitPreflight
  BY <1>1, <1>e, <1>t DEF CommitPreflight, Integrating, Job
<1>2. CASE CommitAcceptance
  BY <1>2, <1>a, <1>e DEF CommitAcceptance, Integrating
<1>3. CASE BuildManifest
  BY <1>3, <1>e, <1>t DEF BuildManifest, Integrating, Job
<1>4. CASE RecheckState
  BY <1>4, <1>a, <1>e DEF RecheckState, Integrating
<1>5. CASE RecheckHashes
  BY <1>5, <1>a, <1>e DEF RecheckHashes, Integrating
<1>6. CASE StagePaths \/ StagingFails
  BY <1>6, <1>a, <1>e DEF StagePaths, StagingFails, Integrating
<1>7. CASE VerifyStaged
  BY <1>7, <1>a, <1>e DEF VerifyStaged, Integrating
<1>8. CASE CreateCommit
  BY <1>8, <1>a, <1>e DEF CreateCommit, Integrating
<1>9. CASE ReadResultingCommit
  BY <1>9, <1>t DEF ReadResultingCommit, Integrating, Job
<1>10. CASE InspectCommit
  BY <1>10, <1>a, <1>e DEF InspectCommit, Integrating
<1>11. CASE ConcludeCommit
  BY <1>11, <1>e DEF ConcludeCommit
<1> QED BY <1>1, <1>2, <1>3, <1>4, <1>5, <1>6, <1>7, <1>8, <1>9, <1>10, <1>11 DEF CommitStep

LEMMA OthersLeave ==
    ASSUME Base, \/ ShiftStep \/ StartShift \/ Crash
                 \/ \E w \in Workflows : CallIntegrate(w) \/ CallCommit(w)
    PROVE  job'.at \notin Integrating
<1>t. job \in Job
  BY DEF Base, Typed, SessionTyped
<1>1. CASE StartShift \/ Crash \/ \E w \in Workflows : CallIntegrate(w) \/ CallCommit(w)
  <2>1. CASE StartShift
    BY <2>1 DEF StartShift, Begins, Idle, Integrating
  <2>2. CASE Crash
    BY <2>2 DEF Crash, Idle, Integrating
  <2>3. ASSUME NEW w \in Workflows, CallIntegrate(w) PROVE job'.at \notin Integrating
    BY <2>3 DEF CallIntegrate, Begins, Idle, Integrating
  <2>4. ASSUME NEW w \in Workflows, CallCommit(w) PROVE job'.at \notin Integrating
    <3>1. job'.at = "commit"
      BY <2>4 DEF CallCommit, Begins, Idle
    <3> QED BY <3>1 DEF Integrating
  <2> QED BY <1>1, <2>1, <2>2, <2>3, <2>4
<1>2. ASSUME NEW st, NEW r, ShiftEnds(st, r) PROVE job'.at \notin Integrating
  BY <1>2 DEF ShiftEnds, Idle, Integrating
<1>3. CASE ShiftFinishes \/ RuntimeEndsShift
  BY <1>2, <1>3 DEF ShiftFinishes, RuntimeEndsShift
<1>4. CASE CaptureSnapshots
  BY <1>4, <1>t DEF CaptureSnapshots, Integrating, Job
<1>5. CASE \E w \in Workflows : TaskCompletes(w) \/ TaskFails(w)
  <2>1. ASSUME NEW w \in Workflows, NEW st, NEW l, TaskEnds(w, st, l) PROVE job'.at = l
    BY <1>t, <2>1 DEF TaskEnds, Job
  <2>2. job'.at \in {"promote", "contain"}
    BY <1>5, <2>1 DEF TaskCompletes, TaskFails
  <2> QED BY <2>2 DEF Integrating
<1>6. CASE Promote
  BY <1>2, <1>6, <1>t DEF Promote, Integrating, Job
<1>7. CASE ProveContained
  BY <1>2, <1>7, <1>t, CycleType DEF ProveContained, Integrating
<1> QED BY <1>1, <1>3, <1>4, <1>5, <1>6, <1>7 DEF ShiftStep

LEMMA IntegrationRestored ==
    ASSUME Base, Restored(job.workflow), IntegrationStep
    PROVE  Restored(job.workflow)'
<1> DEFINE w == job.workflow
<1>t. /\ job \in Job /\ index \in Tree /\ work \in Tree /\ RepositoryTyped
      /\ candidate \in [Workflows -> [files : Tree, moved : BOOLEAN]]
  BY DEF Base, Typed, SessionTyped, RepositoryTyped
<1>w. job.at \in Integrating \cup {"integrate"}
  BY DEF IntegrationStep, IntegrationPreflight, CandidatePreflight, CaptureCandidate,
         WriteFile, ObserveApplied, AcceptAndClose, RestorePath, RestoreFails,
         RollbackConcludes, Integrating
<1>v. w \in Workflows /\ authorized[w] \subseteq Paths
  <2>1. w \in Workflows
    BY <1>w DEF Base, InCall, Working, Labels, Integrating
  <2> QED BY <2>1, PromotionAssumption DEF PromotionAssumption
<1>b. /\ job.before.index \in Tree /\ job.before.work \in Tree /\ job.todo \in SUBSET Paths
  BY <1>t DEF Job
<1>u. UNCHANGED <<log, baseline, touched>>
  BY DEF IntegrationStep, IntegrationPreflight, CandidatePreflight, CaptureCandidate,
         WriteFile, ObserveApplied, AcceptAndClose, RestorePath, RestoreFails,
         RollbackConcludes, repository
<1>e. ASSUME NEW st, NEW r, IntegrationReturns(st, r) PROVE Restored(job.workflow)'
  <2>1. CASE job' = [job EXCEPT !.at = "commit", !.todo = {}, !.held = NoFiles,
                                !.before = NoBefore]
    BY <1>t, <2>1 DEF Restored, Integrating, Job
  <2> QED BY <1>e, <2>1, AtTheirEnd DEF IntegrationReturns, Restored, Integrating
<1>g. ASSUME UNCHANGED <<index, work>>, job.at \in Integrating,
             job'.at \in Integrating \ {"rollback"},
             job'.workflow = w, job'.before = job.before,
             job'.at \in {"capture", "write"} => job'.todo \subseteq authorized[w]
      PROVE  Restored(job.workflow)'
  BY <1>g, <1>u DEF Restored, Baseline
<1>1. CASE IntegrationPreflight
  <2>1. CASE /\ HeadIsBaseline(w) /\ CanonicalIsClean
             /\ DOMAIN capture_untracked_file_hashes \cap authorized[w] = {}
             /\ job' = [job EXCEPT !.at = "candidate",
                            !.protected = capture_untracked_file_hashes,
                            !.before = [index |-> index, work |-> work]]
    <3>1. /\ job'.at = "candidate" /\ job'.workflow = w
          /\ job'.before.index = index /\ job'.before.work = work
          /\ UNCHANGED <<index, work>>
      BY <1>1, <1>t, <2>1 DEF IntegrationPreflight, repository, Job
    <3>2. \A p \in Paths : index[p] = Baseline(w)[p]
      BY <2>1 DEF HeadIsBaseline, CanonicalIsClean, Baseline, staged_paths, Differ
    <3>3. \A p \in authorized[w] : work[p] = Baseline(w)[p]
      <4>1. DOMAIN capture_untracked_file_hashes = untracked_paths
        BY DEF capture_untracked_file_hashes
      <4> QED BY <1>v, <2>1, <3>2, <4>1
              DEF CanonicalIsClean, tracked_worktree_paths, untracked_paths, Differ
    <3>4. Baseline(w)' = Baseline(w)
      BY <1>u, <3>1 DEF Baseline
    <3> HIDE DEF w
    <3>5. job'.workflow = w /\ authorized[w] \subseteq Paths
      BY <1>v, <3>1
    <3> QED BY <1>u, <3>1, <3>2, <3>3, <3>4, <3>5 DEF Restored, Baseline
  <2> QED BY <1>1, <1>e, <2>1 DEF IntegrationPreflight
<1>2. CASE CandidatePreflight
  <2>1. CASE /\ CandidateChanged(w) \subseteq authorized[w]
             /\ job' = [job EXCEPT !.at = "capture", !.todo = CandidateChanged(w)]
    BY <1>2, <1>g, <1>t, <2>1 DEF CandidatePreflight, repository, Integrating, Job
  <2> QED BY <1>2, <1>e, <2>1 DEF CandidatePreflight
<1>3. CASE CaptureCandidate
  <2>1. CASE job' = [job EXCEPT !.at = "write",
                         !.held = [p \in job.todo |-> candidate[w].files[p]]]
    <3>1. /\ job'.at = "write" /\ job'.workflow = w /\ job'.before = job.before
          /\ job'.todo = job.todo
      BY <1>t, <2>1 DEF Job
    <3> QED BY <1>3, <1>g, <3>1 DEF CaptureCandidate, repository, Restored, Integrating
  <2> QED BY <1>3, <1>e, <2>1 DEF CaptureCandidate
<1>4. CASE WriteFile
  <2>1. PICK q \in job.todo : /\ work' = [work EXCEPT ![q] = job.held[q]]
                              /\ job' = [job EXCEPT !.todo = @ \ {q}]
    BY <1>4, <1>b, LeastPath DEF WriteFile
  <2>2. /\ job'.at = "write" /\ job.at = "write" /\ job'.workflow = w
        /\ job'.before = job.before /\ job'.todo = job.todo \ {q} /\ UNCHANGED index
    BY <1>4, <1>t, <2>1 DEF WriteFile, Job
  <2>3. job.todo \subseteq authorized[w]
    BY <2>2 DEF Restored, Integrating
  <2>4. \A p \in Paths \ authorized[w] : work'[p] = work[p]
    BY <1>t, <2>1, <2>3 DEF Tree
  <2> QED BY <1>u, <2>2, <2>3, <2>4 DEF Restored, Integrating, Baseline
<1>r. ASSUME RollBack, job.at \in Integrating, UNCHANGED <<index, work>>
      PROVE  Restored(job.workflow)'
  <2>1. /\ job'.at = "rollback" /\ job'.workflow = w /\ job'.before = job.before
        /\ job'.todo = authorized[w]
    BY <1>r, <1>t DEF RollBack, Job
  <2> QED BY <1>r, <1>u, <2>1 DEF Restored, Baseline
<1>5. CASE ObserveApplied
  <2>1. CASE At("accept")
    BY <1>5, <1>g, <1>t, <2>1 DEF ObserveApplied, At, repository, Integrating, Job
  <2> QED BY <1>5, <1>r, <2>1 DEF ObserveApplied, repository, Integrating
<1>6. CASE AcceptAndClose
  BY <1>6, <1>e, <1>r DEF AcceptAndClose, repository, Integrating
<1>7. CASE RestorePath
  <2>1. PICK q \in job.todo :
          /\ work' = [work EXCEPT ![q] = Baseline(w)[q]]
          /\ index' \in {index, [index EXCEPT ![q] = Baseline(w)[q]]}
          /\ job' = [job EXCEPT !.todo = @ \ {q}]
    BY <1>7, <1>b, LeastPath DEF RestorePath
  <2>2. /\ job'.at = "rollback" /\ job.at = "rollback" /\ job'.workflow = w
        /\ job'.before = job.before /\ job'.todo = job.todo \ {q}
    BY <1>7, <1>t, <2>1 DEF RestorePath, Job
  <2>3. job.todo \subseteq authorized[w]
    BY <2>2 DEF Restored, Integrating
  <2>4. /\ \A p \in Paths \ {q} : work'[p] = work[p] /\ index'[p] = index[p]
        /\ work'[q] = Baseline(w)[q] /\ index'[q] \in {index[q], Baseline(w)[q]}
    BY <1>b, <1>t, <2>1 DEF Tree
  <2>5. Baseline(w)' = Baseline(w)
    BY <1>u, <2>2 DEF Baseline
  <2>6. \A p \in Paths \ touched : index'[p] = job.before.index[p]
    BY <2>2, <2>4 DEF Restored, Integrating
  <2>7. \A p \in Paths \ (touched \cup authorized[w]) : work'[p] = job.before.work[p]
    BY <2>2, <2>3, <2>4 DEF Restored, Integrating
  <2>8. \A p \in authorized[w] \ (job'.todo \cup touched) : work'[p] = job.before.work[p]
    BY <1>v, <2>2, <2>3, <2>4 DEF Restored, Integrating
  <2>9. /\ \A p \in Paths : job.before.index[p] = Baseline(w)[p]
        /\ \A p \in authorized[w] : job.before.work[p] = Baseline(w)[p]
    BY <2>2 DEF Restored, Integrating
  <2> QED BY <1>u, <2>2, <2>3, <2>5, <2>6, <2>7, <2>8, <2>9 DEF Restored
<1>8. CASE RestoreFails \/ RollbackConcludes
  BY <1>8, <1>e DEF RestoreFails, RollbackConcludes
<1> QED BY <1>1, <1>2, <1>3, <1>4, <1>5, <1>6, <1>7, <1>8 DEF IntegrationStep

LEMMA EditsRestored ==
    ASSUME Base, Promised, Restored(job.workflow), NEW S \in SUBSET Paths, Edits(S),
           log' \in {log, Append(log, [tree |-> index, by |-> NoWorkflow])},
           \A p \in Paths \ S : work'[p] = work[p] /\ index'[p] = index[p]
    PROVE  Restored(job.workflow)'
<1> DEFINE w == job.workflow
<1>1. UNCHANGED <<baseline, rows, saved, job>> /\ touched' = touched \cup S
  BY DEF Edits
<1>2. [tree |-> index, by |-> NoWorkflow] \in Entry
  BY DEF Base, Typed, RepositoryTyped, Entry
<1>3. \A v \in Workflows : baseline[v] # 0 => (Baseline(v))' = Baseline(v)
  BY <1>1, <1>2, AppendKeeps
<1>4. job.at \in Integrating => /\ w \in Workflows /\ baseline[w] # 0
                                /\ authorized[w] \subseteq Paths
  <2>1. job.at \in Integrating => w \in Workflows /\ baseline[w] # 0
    BY DEF Base, InCall, Working, Labels, Integrating
  <2> QED BY <2>1, PromotionAssumption DEF PromotionAssumption
<1>5. job.at \in Integrating => Baseline(w)' = Baseline(w)
  BY <1>1, <1>3, <1>4
<1> QED BY <1>1, <1>4, <1>5 DEF Restored

LEMMA RestoredStep ==
    ASSUME Base, Promised, Restored(job.workflow), [PromotionNext]_promotionVars
    PROVE  Restored(job.workflow)'
<1>t. index \in Tree /\ work \in Tree
  BY DEF Base, Typed, RepositoryTyped
<1>0. ASSUME job'.at \notin Integrating PROVE Restored(job.workflow)'
  BY <1>0 DEF Restored
<1>1. CASE IntegrationStep
  BY <1>1, IntegrationRestored
<1>2. CASE CommitStep \/ ShiftStep \/ StartShift \/ Crash
           \/ \E w \in Workflows : CallIntegrate(w) \/ CallCommit(w)
  BY <1>0, <1>2, CommitLeaves, OthersLeave
<1>3. CASE \E w \in Workflows : FreezePlan(w)
  BY <1>0, <1>3 DEF FreezePlan, Integrating
<1>4. CASE EditorWrites
  <2>1. PICK p \in Paths, c \in Content \cup {Absent} :
            Edits({p}) /\ work' = [work EXCEPT ![p] = c] /\ UNCHANGED <<log, index>>
    BY <1>4 DEF EditorWrites
  <2>2. \A q \in Paths \ {p} : work'[q] = work[q]
    BY <1>t, <2>1 DEF Tree
  <2> QED BY <2>1, <2>2, EditsRestored
<1>5. CASE EditorStages
  <2>1. PICK p \in Paths :
            Edits({p}) /\ index' = [index EXCEPT ![p] = work[p]] /\ UNCHANGED <<log, work>>
    BY <1>5 DEF EditorStages
  <2>2. \A q \in Paths \ {p} : index'[q] = index[q]
    BY <1>t, <2>1 DEF Tree
  <2> QED BY <2>1, <2>2, EditsRestored
<1>6. CASE EditorCommits
  <2>1. staged_paths \in SUBSET Paths
    BY DEF staged_paths, Differ
  <2> QED BY <1>6, <2>1, EditsRestored DEF EditorCommits
<1>7. CASE UNCHANGED promotionVars
  BY <1>7 DEF promotionVars, Restored, Baseline
<1> QED BY <1>1, <1>2, <1>3, <1>4, <1>5, <1>6, <1>7 DEF PromotionNext, ServiceStep

(***************************************************************************)
(* An integration that reports FAILED after it has begun to write has put  *)
(* back every file and index entry the editor did not touch: it started on *)
(* a clean tree at the baseline, writes authorized files only, and its     *)
(* rollback works off all of them.                                         *)
(***************************************************************************)
THEOREM FailureRestores == PromotionSpec => FailedIntegrationRestores
<1>1. PromotionInit => Restored(job.workflow)
  BY DEF PromotionInit, Idle, Restored, Integrating
<1>2. Base /\ Promised /\ Restored(job.workflow) /\ [PromotionNext]_promotionVars
        => Restored(job.workflow)'
  BY RestoredStep
<1>3. Base /\ Restored(job.workflow) /\ [PromotionNext]_promotionVars
        => [RestoresWhatItWrote]_promotionVars
  <2> SUFFICES ASSUME Base, Restored(job.workflow), PromotionNext,
                      job.at \in {"write", "accept", "rollback"}, job'.at = "idle",
                      result' = "FAILED"
               PROVE  \A p \in Paths \ touched : /\ work[p] = job.before.work[p]
                                                 /\ index[p] = job.before.index[p]
    BY DEF RestoresWhatItWrote
  <2>1. RollbackConcludes
    <3>1. CASE IntegrationStep
      BY <3>1 DEF IntegrationStep, IntegrationPreflight, CandidatePreflight,
                  CaptureCandidate, WriteFile, ObserveApplied, RollBack, At, AcceptAndClose,
                  RestorePath, RestoreFails, IntegrationReturns,
                  Base, Typed, SessionTyped, Job
    <3>2. CASE ~IntegrationStep
      BY <3>2 DEF PromotionNext, ServiceStep, CommitStep, CommitPreflight, CommitAcceptance,
                  BuildManifest, RecheckState, RecheckHashes, StagePaths, StagingFails,
                  VerifyStaged, CreateCommit, ReadResultingCommit, InspectCommit,
                  ConcludeCommit, ShiftStep, ShiftFinishes, CaptureSnapshots,
                  RuntimeEndsShift, TaskCompletes, TaskFails, TaskEnds, Promote,
                  ProveContained, StartShift, CallIntegrate, CallCommit, FreezePlan, Begins,
                  EditorWrites, EditorStages, EditorCommits, Edits, Crash
    <3> QED BY <3>1, <3>2
  <2>2. job.at = "rollback" /\ job.todo = {}
    BY <2>1 DEF RollbackConcludes
  <2> QED BY <2>2 DEF Restored, Integrating
<1> QED BY <1>1, <1>2, <1>3, PromisedAlways, PTL
        DEF PromotionSpec, FailedIntegrationRestores

----------------------------------------------------------------------------
(* What a shift leaves behind.                                             *)

(* The shift works under these labels before it writes to the checkout.    *)
Reading == {"cycle", "running", "contain", "promote", "integrate", "candidate", "capture"}
(* Nothing of the workflow was recorded before its commit is asked for.    *)
Unrecorded == {"candidate", "capture", "write", "accept", "rollback", "commit"}
\* The workflow's commit is about to be recorded, or was.
Accounted ==
    \A k \in DOMAIN log : log[k].by \in Workflows /\ k > job.found.head =>
        \/ \E r \in rows.records : r.commit = k
        \/ job.at \in Made /\ log[k].by = job.workflow
Explained == changed_paths \subseteq job.found.changed \cup touched
Open ==
    /\ job.at \in {"cycle", "running", "contain", "promote"} => job.by = "shift"
    /\ job.by = "shift" =>
          /\ job.at # "idle"
          /\ Accounted
          /\ job.at \in Reading => Explained
          /\ DOMAIN job.protected \subseteq job.found.changed \cup touched
          /\ job.at \in Unrecorded => ~Recorded(job.workflow)

LEMMA NobodyOpen ==
    ASSUME job'.at = "idle", job'.by = "nobody"
    PROVE  Open'
BY DEF Open

(* A step of a call that is not the shift's.                               *)
LEMMA CallerOpen ==
    ASSUME job'.by = "caller",
           job'.at \notin {"cycle", "running", "contain", "promote"}
    PROVE  Open'
BY DEF Open

(* What a call holds of the checkout when it begins to act on it.          *)
LEMMA ChangedIs ==
    ASSUME NEW p \in Paths
    PROVE  p \in changed_paths <=>
             \/ work[p] # index[p] \/ index[p] # log[current_head].tree[p]
BY DEF changed_paths, tracked_worktree_paths, staged_paths, untracked_paths, Differ

(* The branch, the checkout and the rows stay; the call goes on.           *)
LEMMA OpenGoesOn ==
    ASSUME Base, Open, UNCHANGED <<log, touched>>, rows'.records = rows.records,
           job'.by = job.by, job'.found = job.found,
           job'.at # "idle", job.at \notin Made, job'.workflow = job.workflow \/ job'.at \notin Unrecorded,
           job.by = "shift" =>
              /\ job'.at \in Reading => Explained'
              /\ DOMAIN job'.protected \subseteq job.found.changed \cup touched
              /\ job'.at \in Unrecorded => ~Recorded(job.workflow),
           job'.at \in {"cycle", "running", "contain", "promote"} => job.by = "shift"
    PROVE  Open'
BY DEF Open, Accounted, Recorded

LEMMA ShiftOpen ==
    ASSUME Base, Open, ShiftStep
    PROVE  Open'
<1>t. /\ job \in Job /\ rows \in Rows /\ index \in Tree /\ work \in Tree
  BY DEF Base, Typed, SessionTyped, RepositoryTyped
<1>b. job.at \in {"cycle", "running", "contain", "promote"} /\ job.by = "shift"
  BY DEF Open, ShiftStep, ShiftFinishes, CaptureSnapshots, RuntimeEndsShift, TaskCompletes,
         TaskFails, TaskEnds, Promote, ProveContained
<1>u. UNCHANGED <<log, index, work, touched>>
  BY DEF ShiftStep, ShiftFinishes, CaptureSnapshots, RuntimeEndsShift, TaskCompletes,
         TaskFails, TaskEnds, Promote, ProveContained, repository
<1>o. /\ Accounted /\ Explained /\ DOMAIN job.protected \subseteq job.found.changed \cup touched
      /\ job.at \notin Made
  BY <1>b DEF Open, Reading, Made
<1>g. ASSUME rows'.records = rows.records, job'.by = "shift", job'.found = job.found,
             job'.at \in {"cycle", "running", "contain", "promote", "integrate"},
             DOMAIN job'.protected \subseteq job.found.changed \cup touched
      PROVE  Open'
  <2>1. Explained'
    BY <1>g, <1>o, <1>u DEF Explained, changed_paths, tracked_worktree_paths, staged_paths,
                            untracked_paths, Differ, current_head
  <2> QED BY <1>b, <1>g, <1>o, <1>u, <2>1, OpenGoesOn DEF Unrecorded
<1>e. ASSUME NEW st, NEW r, ShiftEnds(st, r) PROVE Open'
  BY <1>e, AtTheirEnd, NobodyOpen
<1>1. CASE ShiftFinishes \/ RuntimeEndsShift
  BY <1>1, <1>e DEF ShiftFinishes, RuntimeEndsShift
<1>2. CASE CaptureSnapshots
  <2> DEFINE hashes == capture_untracked_file_hashes
  <2>1. DOMAIN hashes = untracked_paths
    BY DEF capture_untracked_file_hashes
  <2>2. DOMAIN hashes \subseteq job.found.changed \cup touched
    BY <1>o, <2>1 DEF Explained, changed_paths
  <2>3. PICK seen : job' = [job EXCEPT !.at = "running", !.protected = hashes, !.snapshot = seen]
    BY <1>2 DEF CaptureSnapshots
  <2> HIDE DEF hashes
  <2>4. job'.by = "shift" /\ job'.found = job.found /\ job'.at = "running"
        /\ job'.protected = hashes
    BY <1>b, <1>t, <2>3 DEF Job
  <2> QED BY <1>2, <1>g, <2>2, <2>4 DEF CaptureSnapshots
<1>3. ASSUME NEW w \in Workflows, NEW st, NEW l \in {"promote", "contain"}, TaskEnds(w, st, l)
      PROVE  Open'
  <2>1. /\ rows' = [Reopened EXCEPT !.state[w] = st] /\ job'.at = l /\ job'.by = "shift"
        /\ job'.found = job.found /\ job'.protected = job.protected
    BY <1>3, <1>b, <1>t DEF TaskEnds, Job
  <2>2. Reopened \in Rows /\ Reopened.records = rows.records
    BY <1>t, ReopenedType
  <2>3. rows'.records = rows.records
    <3> HIDE DEF Reopened
    <3> QED BY <2>1, <2>2 DEF Rows
  <2> QED BY <1>g, <1>o, <2>1, <2>3
<1>4. CASE \E w \in Workflows : TaskCompletes(w) \/ TaskFails(w)
  BY <1>3, <1>4 DEF TaskCompletes, TaskFails
<1>5. CASE Promote
  <2>1. CASE /\ UNCHANGED <<rows, saved, shift>>
             /\ job' = [job EXCEPT !.at = "integrate", !.protected = NoFiles,
                                   !.snapshot = NoSnapshot]
    <3>1. /\ job'.by = "shift" /\ job'.found = job.found /\ job'.at = "integrate"
          /\ job'.protected = NoFiles
      BY <1>b, <1>t, <2>1 DEF Job
    <3> QED BY <1>g, <2>1, <3>1, NoFilesType
  <2> QED BY <1>5, <1>e, <2>1 DEF Promote
<1>6. CASE ProveContained
  <2>1. CASE CycleAgain /\ rows'.records = rows.records
    BY <1>g, <1>t, <2>1, CycleType, NoFilesType
  <2>2. [rows EXCEPT !.state[job.workflow] = "BLOCKED"].records = rows.records
    BY <1>t DEF Rows
  <2> QED BY <1>6, <1>e, <2>1, <2>2 DEF ProveContained
<1> QED BY <1>1, <1>2, <1>4, <1>5, <1>6 DEF ShiftStep

LEMMA IntegrationOpen ==
    ASSUME Base, Promised, Open, IntegrationStep
    PROVE  Open'
<1> DEFINE w == job.workflow
<1>t. /\ job \in Job /\ rows \in Rows /\ index \in Tree /\ work \in Tree
      /\ Typed /\ WithinLimits
      /\ Len(log) \in Nat \ {0} /\ baseline \in [Workflows -> 0 .. Len(log)]
  BY HeadType DEF Base, Typed, SessionTyped, RepositoryTyped
<1>l. job.at \in {"integrate", "candidate", "capture", "write", "accept", "rollback"}
  BY DEF IntegrationStep, IntegrationPreflight, CandidatePreflight, CaptureCandidate,
         WriteFile, ObserveApplied, AcceptAndClose, RestorePath, RestoreFails,
         RollbackConcludes
<1>u. UNCHANGED <<log, baseline, touched>>
  BY DEF IntegrationStep, IntegrationPreflight, CandidatePreflight, CaptureCandidate,
         WriteFile, ObserveApplied, AcceptAndClose, RestorePath, RestoreFails,
         RollbackConcludes, repository
<1>h. ASSUME job.by = "shift"
      PROVE  /\ DOMAIN job.protected \subseteq job.found.changed \cup touched
             /\ job.at \in Reading => Explained
             /\ job.at \in Unrecorded => ~Recorded(w)
  BY <1>h DEF Open
\* The integration goes on.
<1>g. ASSUME rows'.records = rows.records, job'.by = job.by, job'.found = job.found,
             job'.workflow = w, job'.at \in Integrating \cup {"commit"},
             job'.at \in {"candidate", "capture"} =>
                job.at \in Reading /\ UNCHANGED <<index, work>>,
             job.by = "shift" =>
                DOMAIN job'.protected \subseteq job.found.changed \cup touched,
             job.by = "shift" => ~Recorded(w)
      PROVE  Open'
  <2>1. job.by = "shift" /\ job'.at \in Reading => Explained'
    BY <1>g, <1>h, <1>u DEF Explained, changed_paths, tracked_worktree_paths, staged_paths,
                            untracked_paths, Differ, current_head, Reading, Integrating
  <2> QED BY <1>g, <1>l, <1>u, <2>1, OpenGoesOn DEF Integrating, Made
<1>e. ASSUME NEW st, NEW r, IntegrationReturns(st, r), r.records = rows.records,
             job.by = "shift" /\ st = "COMPLETED" => ~Recorded(w)
      PROVE  Open'
  <2>1. CASE /\ job.by = "shift" /\ st = "COMPLETED" /\ rows' = r
             /\ job' = [job EXCEPT !.at = "commit", !.todo = {}, !.held = NoFiles,
                                   !.before = NoBefore]
    <3>1. /\ job'.at = "commit" /\ job'.by = job.by /\ job'.found = job.found
          /\ job'.workflow = w /\ job'.protected = job.protected
      BY <1>t, <2>1 DEF Job
    <3> QED BY <1>e, <1>g, <1>h, <2>1, <3>1
  <2> QED BY <1>e, <2>1, AtTheirEnd, NobodyOpen DEF IntegrationReturns
<1>f. ASSUME NEW st \in {"FAILED", "ROLLBACK_FAILED"}, IntegrationReturns(st, rows)
      PROVE  Open'
  BY <1>e, <1>f
\* A step of the writing, or of the way back.
<1>n. ASSUME job.at \in Integrating, UNCHANGED rows, job'.by = job.by, job'.found = job.found,
             job'.workflow = w, job'.protected = job.protected,
             job'.at \in {"write", "accept", "rollback"}
      PROVE  Open'
  BY <1>g, <1>h, <1>n DEF Integrating, Unrecorded
<1>a. ASSUME job.at \in Integrating, UNCHANGED rows, At("accept") \/ RollBack
      PROVE  Open'
  <2>1. /\ job'.at \in {"accept", "rollback"} /\ job'.workflow = w /\ job'.by = job.by
        /\ job'.found = job.found /\ job'.protected = job.protected
    BY <1>a, <1>t DEF At, RollBack, Job
  <2> QED BY <1>a, <1>n, <2>1
<1>1. CASE IntegrationPreflight
  <2> DEFINE hashes == capture_untracked_file_hashes
  <2>1. CASE /\ HeadIsBaseline(w) /\ UNCHANGED rows
             /\ job' = [job EXCEPT !.at = "candidate", !.protected = hashes,
                            !.before = [index |-> index, work |-> work]]
    <3>1. /\ job'.at = "candidate" /\ job'.by = job.by /\ job'.found = job.found
          /\ job'.workflow = w /\ job'.protected = hashes /\ job.at = "integrate"
          /\ UNCHANGED <<index, work>>
      BY <1>1, <1>t, <2>1 DEF IntegrationPreflight, repository, Job
    <3>2. DOMAIN hashes = untracked_paths /\ untracked_paths \subseteq changed_paths
      BY DEF capture_untracked_file_hashes, changed_paths
    <3>3. job.by = "shift" => DOMAIN hashes \subseteq job.found.changed \cup touched
      BY <1>h, <3>1, <3>2 DEF Explained, Reading
    <3>4. ~Recorded(w)
      <4>1. SUFFICES ASSUME NEW r \in rows.records, r.workflow = w PROVE FALSE
        BY DEF Recorded
      <4>2. r.commit \in 2 .. Len(log) /\ r.commit - 1 = baseline[w]
        BY <4>1 DEF Promised, AllVerified, Verified
      <4> QED BY <1>t, <2>1, <4>2 DEF HeadIsBaseline, current_head
    <3> HIDE DEF hashes
    <3> QED BY <1>g, <2>1, <3>1, <3>3, <3>4 DEF Integrating, Reading
  <2> QED BY <1>1, <1>f, <2>1 DEF IntegrationPreflight
<1>2. CASE CandidatePreflight
  <2>1. CASE /\ job' = [job EXCEPT !.at = "capture", !.todo = CandidateChanged(w)]
             /\ UNCHANGED rows
    <3>1. /\ job'.at = "capture" /\ job'.workflow = w /\ job'.by = job.by
          /\ job'.found = job.found /\ job'.protected = job.protected
          /\ job.at = "candidate" /\ UNCHANGED <<index, work>>
      BY <1>2, <1>t, <2>1 DEF CandidatePreflight, repository, Job
    <3> QED BY <1>g, <1>h, <2>1, <3>1 DEF Integrating, Reading, Unrecorded
  <2> QED BY <1>2, <1>f, <2>1 DEF CandidatePreflight
<1>3. CASE CaptureCandidate
  <2>1. CASE /\ job' = [job EXCEPT !.at = "write",
                           !.held = [p \in job.todo |-> candidate[w].files[p]]]
             /\ UNCHANGED rows
    <3>1. /\ job'.at = "write" /\ job'.workflow = w /\ job'.by = job.by
          /\ job'.found = job.found /\ job'.protected = job.protected
      BY <1>t, <2>1 DEF Job
    <3>2. job.at \in Integrating
      BY <1>3 DEF CaptureCandidate, Integrating
    <3> QED BY <1>n, <2>1, <3>1, <3>2
  <2> QED BY <1>3, <1>f, <2>1 DEF CaptureCandidate
<1>4. CASE WriteFile
  <2>1. PICK todo : job' = [job EXCEPT !.todo = todo]
    BY <1>4 DEF WriteFile
  <2>2. /\ job.at = "write" /\ UNCHANGED rows /\ job'.at = "write" /\ job'.workflow = w
        /\ job'.by = job.by /\ job'.found = job.found /\ job'.protected = job.protected
    BY <1>4, <1>t, <2>1 DEF WriteFile, Job
  <2>3. job.at \in Integrating
    BY <2>2 DEF Integrating
  <2> QED BY <1>n, <2>2, <2>3
<1>5. CASE ObserveApplied
  <2>1. job.at \in Integrating
    BY <1>5 DEF ObserveApplied, Integrating
  <2>2. At("accept") \/ RollBack
    BY <1>5 DEF ObserveApplied
  <2>3. UNCHANGED rows
    BY <1>5 DEF ObserveApplied, RollBack
  <2> QED BY <1>a, <2>1, <2>2, <2>3
<1>6. CASE AcceptAndClose
  <2>1. CASE IntegrationReturns("COMPLETED", [rows EXCEPT !.state[w] = "CLOSED"])
    <3>1. [rows EXCEPT !.state[w] = "CLOSED"].records = rows.records
      BY <1>t DEF Rows
    <3>2. job.by = "shift" => ~Recorded(w)
      BY <1>6, <1>h DEF AcceptAndClose, Unrecorded
    <3> QED BY <1>e, <2>1, <3>1, <3>2
  <2>2. job.at \in Integrating
    BY <1>6 DEF AcceptAndClose, Integrating
  <2>3. CASE RollBack
    BY <1>a, <2>2, <2>3 DEF RollBack
  <2> QED BY <1>6, <2>1, <2>3 DEF AcceptAndClose
<1>7. CASE RestorePath
  <2>1. PICK todo : job' = [job EXCEPT !.todo = todo]
    BY <1>7 DEF RestorePath
  <2>2. /\ job.at = "rollback" /\ UNCHANGED rows /\ job'.at = "rollback" /\ job'.workflow = w
        /\ job'.by = job.by /\ job'.found = job.found /\ job'.protected = job.protected
    BY <1>7, <1>t, <2>1 DEF RestorePath, Job
  <2>3. job.at \in Integrating
    BY <2>2 DEF Integrating
  <2> QED BY <1>n, <2>2, <2>3
<1>8. CASE RestoreFails \/ RollbackConcludes
  BY <1>8, <1>f DEF RestoreFails, RollbackConcludes
<1> QED BY <1>1, <1>2, <1>3, <1>4, <1>5, <1>6, <1>7, <1>8 DEF IntegrationStep

LEMMA CommitOpen ==
    ASSUME Base, Promised, Open, CommitStep
    PROVE  Open'
<1> DEFINE w == job.workflow
<1>t. /\ job \in Job /\ rows \in Rows /\ index \in Tree /\ log \in Seq(Entry)
      /\ Len(log) \in Nat \ {0} /\ DOMAIN log = 1 .. Len(log)
  BY HeadType DEF Base, Typed, SessionTyped, RepositoryTyped
<1>l. job.at \in {"commit", "commit_accept", "manifest", "recheck", "rehash", "stage",
                  "staged", "create", "created", "inspect", "conclude"}
  BY DEF CommitStep, CommitPreflight, CommitAcceptance, BuildManifest, RecheckState,
         RecheckHashes, StagePaths, StagingFails, VerifyStaged, CreateCommit,
         ReadResultingCommit, InspectCommit, ConcludeCommit
<1>u. UNCHANGED touched
  BY DEF CommitStep, CommitPreflight, CommitAcceptance, BuildManifest, RecheckState,
         RecheckHashes, StagePaths, StagingFails, VerifyStaged, CreateCommit,
         ReadResultingCommit, InspectCommit, ConcludeCommit
\* The commit goes on, under a label that asks for nothing but the accounts.
<1>g. ASSUME NEW l \in {"commit_accept", "manifest", "recheck", "rehash", "stage", "staged",
                        "create", "created", "inspect", "conclude"},
             job'.at = l, job'.by = job.by, job'.found = job.found,
             job'.protected = job.protected, job.by = "shift" => Accounted'
      PROVE  Open'
  BY <1>g, <1>u DEF Open, Reading, Unrecorded
<1>b. job.by = "shift" => Accounted
  BY DEF Open
\* ... and the branch stays.
<1>s. ASSUME NEW l \in {"commit_accept", "manifest", "recheck", "rehash", "stage", "staged",
                        "create", "created", "inspect", "conclude"},
             job'.at = l, job'.by = job.by, job'.found = job.found, job'.workflow = w,
             job'.protected = job.protected, job.at \in Made => l \in Made,
             UNCHANGED <<log, rows>>
      PROVE  Open'
  <2>1. Accounted => Accounted'
    BY <1>s DEF Accounted
  <2> QED BY <1>b, <1>g, <1>s, <2>1
<1>a. ASSUME NEW l \in {"commit_accept", "manifest", "recheck", "rehash", "stage", "staged",
                        "create", "created", "inspect", "conclude"},
             At(l), job.at \in Made => l \in Made, UNCHANGED <<log, rows>>
      PROVE  Open'
  <2>1. /\ job'.at = l /\ job'.by = job.by /\ job'.found = job.found /\ job'.workflow = w
        /\ job'.protected = job.protected
    BY <1>a, <1>t DEF At, Job
  <2> QED BY <1>a, <1>s, <2>1
<1>f. ASSUME NEW st \in {"FAILED", "POST_COMMIT_VERIFICATION_FAILED"}, NEW r,
             CommitReturns(st, r)
      PROVE  Open'
  BY <1>f, AtTheirEnd, NobodyOpen DEF CommitReturns
<1>1. CASE CommitPreflight
  <2> DEFINE actual == changed_paths \ DOMAIN job.protected
  <2>1. CASE /\ job' = [job EXCEPT !.at = "commit_accept", !.todo = actual]
             /\ UNCHANGED <<rows, saved, shift, result>>
    <3> HIDE DEF actual
    <3>1. /\ job'.at = "commit_accept" /\ job'.by = job.by /\ job'.found = job.found
          /\ job'.workflow = w /\ job'.protected = job.protected
      BY <1>t, <2>1 DEF Job
    <3>2. job.at = "commit" /\ UNCHANGED log
      BY <1>1 DEF CommitPreflight, repository
    <3> QED BY <1>s, <2>1, <3>1, <3>2 DEF Made
  <2>2. CASE CommitReturns("ALREADY_COMMITTED", rows) /\ Recorded(w)
    <3>1. job.by # "shift"
      BY <1>1, <2>2 DEF CommitPreflight, Open, Unrecorded
    <3> QED BY <2>2, <3>1, AtTheirEnd, NobodyOpen DEF CommitReturns
  <2>3. CASE CommitReturns("FAILED", rows)
    BY <1>f, <2>3
  <2> QED BY <1>1, <2>1, <2>2, <2>3 DEF CommitPreflight
<1>2. CASE CommitAcceptance
  BY <1>2, <1>a, <1>f DEF CommitAcceptance, repository, Made
<1>3. CASE BuildManifest
  <2>1. CASE /\ job' = [job EXCEPT !.at = "recheck", !.held = [p \in job.todo |-> work[p]]]
             /\ UNCHANGED <<rows, saved, shift, result>>
    <3>1. /\ job'.at = "recheck" /\ job'.by = job.by /\ job'.found = job.found
          /\ job'.workflow = w /\ job'.protected = job.protected
      BY <1>t, <2>1 DEF Job
    <3>2. job.at = "manifest" /\ UNCHANGED log
      BY <1>3 DEF BuildManifest, repository
    <3> QED BY <1>s, <2>1, <3>1, <3>2 DEF Made
  <2> QED BY <1>3, <1>f, <2>1 DEF BuildManifest
<1>4. CASE RecheckState
  BY <1>4, <1>a, <1>f DEF RecheckState, repository, Made
<1>5. CASE RecheckHashes
  BY <1>5, <1>a, <1>f DEF RecheckHashes, repository, Made
<1>6. CASE StagePaths \/ StagingFails
  BY <1>6, <1>a, <1>f DEF StagePaths, StagingFails, Made
<1>7. CASE VerifyStaged
  BY <1>7, <1>a, <1>f DEF VerifyStaged, Made
<1>8. CASE CreateCommit
  <2> DEFINE e == [tree |-> index, by |-> w]
  <2>1. CASE log' = Append(log, e) /\ At("created") /\ UNCHANGED <<index, rows, saved, shift, result>>
    <3>1. w \in Workflows /\ job.at = "create"
      BY <1>8 DEF CreateCommit, Base, InCall, Working, Labels
    <3>2. e \in Entry /\ e.by = w
      BY <1>t, <3>1 DEF Entry
    <3> HIDE DEF e
    <3>3. /\ DOMAIN log' = 1 .. Len(log) + 1 /\ log'[Len(log) + 1].by = w
          /\ \A k \in DOMAIN log : log'[k] = log[k]
      BY <1>t, <2>1, <3>2, Committed
    <3>4. /\ job'.at = "created" /\ job'.by = job.by /\ job'.found = job.found
          /\ job'.workflow = w /\ job'.protected = job.protected
      BY <1>t, <2>1 DEF At, Job
    <3>5. \A k \in DOMAIN log' : k \in DOMAIN log \/ k = Len(log) + 1
      BY <1>t, <3>3
    <3>6. Accounted => Accounted'
      BY <2>1, <3>1, <3>3, <3>4, <3>5 DEF Accounted, Made
    <3> QED BY <1>b, <1>g, <3>4, <3>6
  <2> QED BY <1>8, <1>f, <2>1 DEF CreateCommit
<1>9. CASE ReadResultingCommit
  <2>1. /\ job'.at = "inspect" /\ job'.by = job.by /\ job'.found = job.found
        /\ job'.workflow = w /\ job'.protected = job.protected /\ UNCHANGED <<log, rows>>
    BY <1>9, <1>t DEF ReadResultingCommit, repository, Job
  <2> QED BY <1>s, <2>1 DEF Made
<1>10. CASE InspectCommit
  BY <1>10, <1>a, <1>f DEF InspectCommit, repository, Made
<1>11. CASE ConcludeCommit
  <2> DEFINE record == [workflow |-> w, commit |-> job.commit,
                        contents |-> job.held, edited |-> touched]
             more == [rows EXCEPT !.records = @ \cup {record}]
  <2>1. CASE CommitReturns("COMPLETED", more) /\ changed_paths \subseteq DOMAIN job.protected
    <3>1. more.records = rows.records \cup {record} /\ record.commit = job.commit
      BY <1>t DEF Rows
    <3>2. job.at = "conclude" /\ UNCHANGED <<log, index, work>>
      BY <1>11 DEF ConcludeCommit, repository
    <3> HIDE DEF more, record
    <3>3. CASE CycleAgain /\ job.by = "shift" /\ rows' = more
      <4>1. /\ job'.at = "cycle" /\ job'.by = "shift" /\ job'.found = job.found
            /\ job'.protected = NoFiles
        BY <1>t, <3>3, CycleType
      <4>2. Explained'
        <5>1. Explained
          BY <2>1, <3>3 DEF Open, Explained
        <5> QED BY <1>u, <3>2, <4>1, <5>1 DEF Explained, changed_paths,
                   tracked_worktree_paths, staged_paths, untracked_paths, Differ, current_head
      <4>3. Accounted'
        <5>1. log[job.commit].by = w /\ job.commit \in DOMAIN log
          <6>1. job.commit - 1 = baseline[w] /\ log[job.commit].by = w
            BY <3>2 DEF Promised, Present
          <6>2. baseline[w] \in 1 .. Len(log)
            BY <1>t, <3>2 DEF Base, Typed, RepositoryTyped, InCall, Working, Labels
          <6>3. job.commit \in 0 .. Len(log)
            BY DEF Base, Typed, SessionTyped
          <6> QED BY <1>t, <6>1, <6>2, <6>3
        <5>2. OneCommitPerFreeze
          BY DEF Promised, Once
        <5>3. ASSUME NEW k \in DOMAIN log, log[k].by \in Workflows, k > job.found.head
              PROVE  \E r \in more.records : r.commit = k
          <6>1. CASE \E r \in rows.records : r.commit = k
            BY <3>1, <6>1
          <6>2. CASE log[k].by = w
            BY <3>1, <5>1, <5>2, <5>3, <6>2 DEF OneCommitPerFreeze
          <6> QED BY <1>b, <3>3, <5>3, <6>1, <6>2 DEF Accounted
        <5> QED BY <3>2, <3>3, <4>1, <5>3 DEF Accounted
      <4> QED BY <4>1, <4>2, <4>3, NoFilesType DEF Open, Unrecorded
    <3>4. CASE CallEnds(more)
      BY <3>4, AtTheirEnd, NobodyOpen
    <3> QED BY <2>1, <3>3, <3>4 DEF CommitReturns, CycleAgain
  <2> QED BY <1>11, <1>f, <2>1 DEF ConcludeCommit
<1> QED BY <1>1, <1>2, <1>3, <1>4, <1>5, <1>6, <1>7, <1>8, <1>9, <1>10, <1>11 DEF CommitStep

LEMMA EditsOpen ==
    ASSUME Base, Open, NEW S \in SUBSET Paths, Edits(S),
           log' \in {log, Append(log, [tree |-> index, by |-> NoWorkflow])},
           changed_paths' \subseteq changed_paths \cup S
    PROVE  Open'
<1> DEFINE e == [tree |-> index, by |-> NoWorkflow]
<1>1. UNCHANGED <<rows, job>> /\ touched' = touched \cup S /\ NoWorkflow \notin Workflows
  BY PromotionAssumption DEF Edits, PromotionAssumption
<1>2. e \in Entry /\ log \in Seq(Entry) /\ e.by = NoWorkflow
  BY DEF Base, Typed, RepositoryTyped, Entry
<1> HIDE DEF e
<1>3. \A k \in DOMAIN log' :
         log'[k].by \in Workflows => k \in DOMAIN log /\ log'[k] = log[k]
  <2>1. CASE log' = log
    BY <2>1
  <2>2. CASE log' = Append(log, e)
    BY <1>1, <1>2, <2>2, Committed
  <2> QED BY <2>1, <2>2 DEF e
<1>4. Accounted => Accounted'
  BY <1>1, <1>3 DEF Accounted
<1>5. Explained => Explained'
  BY <1>1 DEF Explained
<1> QED BY <1>1, <1>4, <1>5 DEF Open, Recorded

LEMMA EditorOpen ==
    ASSUME Base, Open, EditorWrites \/ EditorStages \/ EditorCommits
    PROVE  Open'
<1>t. /\ index \in Tree /\ work \in Tree /\ log \in Seq(Entry) /\ Len(log) \in Nat \ {0}
  BY HeadType DEF Base, Typed, RepositoryTyped
<1>c. \A p \in Paths : p \in changed_paths <=>
          work[p] # index[p] \/ index[p] # log[Len(log)].tree[p]
  BY ChangedIs DEF current_head
<1>n. changed_paths' \subseteq Paths /\
      \A p \in Paths : p \in changed_paths' <=>
          work'[p] # index'[p] \/ index'[p] # log'[Len(log')].tree[p]
  BY DEF changed_paths, tracked_worktree_paths, staged_paths, untracked_paths, Differ,
         current_head
<1>1. CASE EditorWrites
  <2>1. PICK p \in Paths, c \in Content \cup {Absent} :
            Edits({p}) /\ work' = [work EXCEPT ![p] = c] /\ UNCHANGED <<log, index>>
    BY <1>1 DEF EditorWrites
  <2>2. \A q \in Paths \ {p} : work'[q] = work[q]
    BY <1>t, <2>1 DEF Tree
  <2>3. changed_paths' \subseteq changed_paths \cup {p}
    BY <1>c, <1>n, <2>1, <2>2
  <2> QED BY <2>1, <2>3, EditsOpen
<1>2. CASE EditorStages
  <2>1. PICK p \in Paths :
            Edits({p}) /\ index' = [index EXCEPT ![p] = work[p]] /\ UNCHANGED <<log, work>>
    BY <1>2 DEF EditorStages
  <2>2. \A q \in Paths \ {p} : index'[q] = index[q]
    BY <1>t, <2>1 DEF Tree
  <2>3. changed_paths' \subseteq changed_paths \cup {p}
    BY <1>c, <1>n, <2>1, <2>2
  <2> QED BY <2>1, <2>3, EditsOpen
<1>3. CASE EditorCommits
  <2> DEFINE e == [tree |-> index, by |-> NoWorkflow]
  <2>1. /\ Edits(staged_paths) /\ log' = Append(log, e) /\ UNCHANGED <<index, work>>
        /\ staged_paths \in SUBSET Paths
    BY <1>3 DEF EditorCommits, staged_paths, Differ
  <2>2. log'[Len(log')].tree = index
    <3>1. e \in Entry /\ e.tree = index
      BY <1>t DEF Entry
    <3> HIDE DEF e
    <3> QED BY <1>t, <2>1, <3>1, Committed
  <2>3. changed_paths' \subseteq changed_paths \cup staged_paths
    BY <1>c, <1>n, <2>1, <2>2
  <2> QED BY <2>1, <2>3, EditsOpen
<1> QED BY <1>1, <1>2, <1>3

LEMMA CallsOpen ==
    ASSUME Base, Open
    PROVE  /\ StartShift => Open'
           /\ \A w \in Workflows : CallIntegrate(w) \/ CallCommit(w) \/ FreezePlan(w) => Open'
           /\ Crash => Open'
<1>1. CASE StartShift
  <2> DEFINE found == [head |-> current_head, changed |-> changed_paths]
  <2>1. /\ job' = [Idle EXCEPT !.at = "cycle", !.by = "shift", !.found = found]
        /\ UNCHANGED <<log, index, work, rows>>
    BY <1>1 DEF StartShift, Begins, repository
  <2>2. found.head = Len(log) /\ found.changed = changed_paths
    BY DEF current_head
  <2> HIDE DEF found
  <2>3. /\ job'.at = "cycle" /\ job'.by = "shift" /\ job'.found = found
        /\ job'.protected = NoFiles
    BY <2>1 DEF Idle
  <2>4. changed_paths' = changed_paths
    BY <2>1 DEF changed_paths, tracked_worktree_paths, staged_paths, untracked_paths, Differ,
                current_head
  <2>5. Explained'
    BY <2>2, <2>3, <2>4 DEF Explained
  <2>6. Accounted'
    <3>1. Len(log) \in Nat \ {0} /\ DOMAIN log = 1 .. Len(log)
      BY HeadType DEF Base, Typed
    <3> QED BY <2>1, <2>2, <2>3, <3>1 DEF Accounted
  <2> QED BY <2>3, <2>5, <2>6, NoFilesType DEF Open, Unrecorded
<1>2. ASSUME NEW w \in Workflows, CallIntegrate(w) PROVE Open'
  <2>1. job'.by = "caller" /\ job'.at = "integrate"
    BY <1>2 DEF CallIntegrate, Begins, Idle
  <2> QED BY <2>1, CallerOpen
<1>3. ASSUME NEW w \in Workflows, CallCommit(w) PROVE Open'
  <2>1. job'.by = "caller" /\ job'.at = "commit"
    BY <1>3 DEF CallCommit, Begins, Idle
  <2> QED BY <2>1, CallerOpen
<1>4. ASSUME NEW w \in Workflows, FreezePlan(w) PROVE Open'
  <2>1. job' = job /\ job.at = "idle"
    BY <1>4 DEF FreezePlan
  <2> QED BY <2>1 DEF Open
<1>5. CASE Crash
  <2>1. job'.at = "idle" /\ job'.by = "nobody"
    BY <1>5 DEF Crash, Idle
  <2> QED BY <2>1, NobodyOpen
<1> QED BY <1>1, <1>2, <1>3, <1>4, <1>5

LEMMA OpenStep ==
    ASSUME Base, Promised, Open, [PromotionNext]_promotionVars
    PROVE  Open'
<1>1. CASE PromotionNext
  BY <1>1, IntegrationOpen, CommitOpen, ShiftOpen, EditorOpen, CallsOpen
  DEF PromotionNext, ServiceStep
<1>2. CASE UNCHANGED promotionVars
  BY <1>2 DEF promotionVars, Open, Accounted, Explained, Recorded, changed_paths,
              tracked_worktree_paths, staged_paths, untracked_paths, Differ, current_head
<1> QED BY <1>1, <1>2

(***************************************************************************)
(* A shift that reports CLEAN_TERMINATION leaves no commit of its own      *)
(* unrecorded, and no path changed that was not so before or that the      *)
(* editor did not touch: a failed integration, a failed commit or a task   *)
(* that is not contained ends the shift with HARD_STOP.                    *)
(***************************************************************************)
THEOREM CleanShift == PromotionSpec => CleanShiftHidesNothing
<1>1. PromotionInit => Open
  BY DEF PromotionInit, Idle, Open
<1>2. Base /\ Promised /\ Open /\ [PromotionNext]_promotionVars => Open'
  BY OpenStep
<1>3. Base /\ Open /\ [PromotionNext]_promotionVars => [EndsWithNothingHidden]_promotionVars
  <2> SUFFICES ASSUME Base, Open, PromotionNext, job.by = "shift", job'.at = "idle",
                      shift'.status = "CLEAN_TERMINATION"
               PROVE  /\ \A k \in DOMAIN log : log[k].by \in Workflows /\ k > job.found.head
                            => \E r \in saved'.records : r.commit = k
                      /\ changed_paths \subseteq job.found.changed \cup touched
    BY DEF EndsWithNothingHidden
  <2>t. job \in Job /\ rows \in Rows /\ shift \in Shift
    BY DEF Base, Typed, SessionTyped
  <2>o. job.at # "idle" /\ Accounted /\ (job.at \in Reading => Explained)
    BY DEF Open
  <2>e. ASSUME NEW st, NEW r, ShiftEnds(st, r) PROVE st = "CLEAN_TERMINATION" /\ saved' = r
    BY <2>e, <2>t DEF ShiftEnds, Shift
  <2>h. ASSUME NEW r, ShiftEnds("HARD_STOP", r) PROVE FALSE
    BY <2>e, <2>h
  <2>g. ASSUME saved'.records = rows.records, job.at \in {"cycle", "running"}
        PROVE  /\ \A k \in DOMAIN log : log[k].by \in Workflows /\ k > job.found.head
                     => \E r \in saved'.records : r.commit = k
               /\ changed_paths \subseteq job.found.changed \cup touched
    BY <2>g, <2>o DEF Accounted, Explained, Reading, Made
  <2>1. CASE ShiftFinishes
    BY <2>1, <2>e, <2>g DEF ShiftFinishes
  <2>2. CASE RuntimeEndsShift
    BY <2>2, <2>e, <2>g, <2>t, ReopenedType DEF RuntimeEndsShift
  <2>3. ASSUME ~ShiftFinishes, ~RuntimeEndsShift PROVE FALSE
    <3>1. CASE ShiftStep
      <4>1. CASE Promote \/ ProveContained
        <5>1. ~CycleAgain
          BY <2>t, CycleType
        <5>2. job'.at # "integrate"
          OBVIOUS
        <5> QED BY <2>h, <2>t, <4>1, <5>1, <5>2 DEF Promote, ProveContained, Job
      <4>2. CASE CaptureSnapshots \/ \E w \in Workflows : TaskCompletes(w) \/ TaskFails(w)
        BY <2>t, <4>2 DEF CaptureSnapshots, TaskCompletes, TaskFails, TaskEnds, Job
      <4> QED BY <2>3, <3>1, <4>1, <4>2 DEF ShiftStep
    <3>2. CASE IntegrationStep
      <4>1. ASSUME NEW st, NEW r, IntegrationReturns(st, r) PROVE FALSE
        <5>1. job' # [job EXCEPT !.at = "commit", !.todo = {}, !.held = NoFiles,
                                 !.before = NoBefore]
          BY <2>t DEF Job
        <5> QED BY <2>h, <4>1, <5>1 DEF IntegrationReturns
      <4> QED BY <2>o, <2>t, <3>2, <4>1
              DEF IntegrationStep, IntegrationPreflight, CandidatePreflight,
                  CaptureCandidate, WriteFile, ObserveApplied, RollBack, At, AcceptAndClose,
                  RestorePath, RestoreFails, RollbackConcludes, Job
    <3>3. CASE CommitStep
      <4>1. ASSUME NEW st, NEW r, CommitReturns(st, r) PROVE FALSE
        BY <2>e, <2>t, <4>1, CycleType DEF CommitReturns, CycleAgain
      <4> QED BY <2>t, <3>3, <4>1
              DEF CommitStep, CommitPreflight, CommitAcceptance, BuildManifest, RecheckState,
                  RecheckHashes, StagePaths, StagingFails, VerifyStaged, CreateCommit,
                  ReadResultingCommit, InspectCommit, ConcludeCommit, At, Job
    <3>4. ~Crash
      <4>1. CASE Crash
        BY <2>t, <4>1 DEF Crash, Shift
      <4> QED BY <4>1
    <3> QED BY <2>o, <3>1, <3>2, <3>3, <3>4
            DEF PromotionNext, ServiceStep, StartShift, CallIntegrate, CallCommit, Begins,
                FreezePlan, EditorWrites, EditorStages, EditorCommits, Edits
  <2> QED BY <2>1, <2>2, <2>3
<1> QED BY <1>1, <1>2, <1>3, PromisedAlways, PTL DEF PromotionSpec, CleanShiftHidesNothing
=============================================================================
