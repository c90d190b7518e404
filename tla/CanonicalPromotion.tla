------------------------- MODULE CanonicalPromotion -------------------------
(***************************************************************************)
(* How finished work reaches the canonical repository: the Night Shift     *)
(* supervisor (night_shift/supervisor.py), canonical integration           *)
(* (integration/service.py) and the controlled commit                      *)
(* (integration/controlled_commit.py), over the git helpers of             *)
(* repositories/git_mutation.py.                                           *)
(*                                                                         *)
(* The rows live in one session that is committed when the shift, or a     *)
(* direct call of a service, returns; files and commits are changed at     *)
(* once and stay when the session rolls back.  A step is a group of git    *)
(* calls that read or write one thing; between two steps a person (the     *)
(* editor) may edit, stage and commit in the canonical checkout.           *)
(***************************************************************************)
EXTENDS Naturals, Sequences, FiniteSets, FiniteSetsExt

CONSTANTS
    Workflows,          \* workflows with a frozen plan and a candidate worktree
    NoWorkflow,
    Paths,              \* repository paths, numbers in their sorted order
    Content,            \* what a file can hold
    Absent,             \* no file
    firstTree,          \* the tree of the first commit
    humanFiles,         \* the untracked files a person keeps beside it
    authorized,         \* per workflow, the frozen affected_files
    taskOutputs,        \* per workflow, the files a task of it may write
    editorWrites,       \* what a person may write: path and content, or Absent
    accepts,            \* per workflow, checked path -> contents that pass
    RunsCommands,       \* workflows with a frozen command check, which may fail
    CommitAuthority,    \* workflows whose contract allows CREATE_COMMIT at L2
    max_tasks, max_commits,     \* NightShiftConfig
    MaxEdits,           \* bound: number of the editor's actions
    MaxCalls            \* bound: number of shifts and direct calls

Tree == [Paths -> Content \cup {Absent}]
Partial == UNION {[S -> Content] : S \in SUBSET Paths}
Overlay(files, tree) == [p \in Paths |-> IF p \in DOMAIN files THEN files[p] ELSE tree[p]]

ASSUME PromotionAssumption ==
    /\ Paths \subseteq Nat /\ Absent \notin Content
    /\ firstTree \in Tree
    /\ DOMAIN humanFiles \subseteq {p \in Paths : firstTree[p] = Absent}
    /\ humanFiles \in [DOMAIN humanFiles -> Content]
    /\ \A w \in Workflows : taskOutputs[w] \subseteq Partial
    /\ authorized \in [Workflows -> (SUBSET Paths) \ {{}}]
    /\ \A w \in Workflows :
          /\ DOMAIN accepts[w] \subseteq authorized[w]
          /\ \A p \in DOMAIN accepts[w] : accepts[w][p] \subseteq Content
    /\ editorWrites \subseteq Paths \X (Content \cup {Absent})
    /\ NoWorkflow \notin Workflows 
    /\ CommitAuthority \subseteq Workflows /\ RunsCommands \subseteq Workflows
    /\ {max_tasks, max_commits, MaxEdits, MaxCalls} \subseteq Nat

VARIABLES
    log,        \* the canonical branch: commits with their tree and author
    index,      \* the canonical index
    work,       \* the canonical working tree
    candidate,  \* per workflow, its worktree: files, and whether HEAD moved
    baseline,   \* per workflow, the frozen commit (its number); 0: not frozen
    rows,       \* the session: workflow states and ControlledCommit records
    saved,      \* the rows as last committed
    job,        \* the call in progress and what it holds in memory
    shift,      \* the NightShiftResult counters, and how the last shift ended
    result,     \* the status the last service call returned
    touched,    \* history: what the editor changed since the call began
    budget      \* bound: editor actions and calls used

repository == <<log, index, work, candidate>>
promotionVars == <<log, index, work, candidate, baseline, rows, saved, job,
                   shift, result, touched, budget>>

----------------------------------------------------------------------------
\* Git, as the helpers of git_mutation.py ask it.
current_head == Len(log)
Differ(s, t) == {p \in Paths : s[p] # t[p]}
tracked_worktree_paths == {p \in Differ(work, index) : index[p] # Absent}
staged_paths == Differ(index, log[current_head].tree)
untracked_paths == {p \in Paths : index[p] = Absent /\ work[p] # Absent}
changed_paths == tracked_worktree_paths \cup staged_paths \cup untracked_paths
CommitChanged(k) == Differ(log[k].tree, log[k - 1].tree)

capture_untracked_file_hashes == [p \in untracked_paths |-> work[p]]
\* Untracked files that are still untracked and still the same.
ProtectedIntact(hashes) ==
    \A p \in DOMAIN hashes : p \in untracked_paths /\ work[p] = hashes[p]

Baseline(w) == log[baseline[w]].tree
CandidateChanged(w) ==
    IF candidate[w].moved THEN {} ELSE Differ(candidate[w].files, Baseline(w))
MutHeadIsBaseline(w) == TRUE
\* The checks against CANONICAL_HEAD_DRIFT.
HeadIsBaseline(w) == current_head = baseline[w]

\* verify_deterministic_acceptance: the file checks need their file; a frozen
\* command exits as it likes.
FilesAccepted(w, tree) == \A p \in DOMAIN accepts[w] : tree[p] \in accepts[w][p]
MayReject(w, tree) == w \in RunsCommands \/ ~FilesAccepted(w, tree)
\* Every change is covered by a check on its path.
Covered(w, paths) == paths \subseteq DOMAIN accepts[w]

----------------------------------------------------------------------------
States == {"IMPLEMENTING", "BLOCKED", "COMPLETED_PENDING_INTEGRATION", "CLOSED"}
\* A record keeps the hash of every committed file.  "edited" is history: what
\* the editor had touched when the commit was recorded.
Record == [workflow : Workflows, commit : Nat, contents : Partial,
           edited : SUBSET Paths]
NoFiles == [p \in {} |-> Absent]
NoFound == [head |-> 0, changed |-> {}]
NoSnapshot == [head |-> 0, clean |-> FALSE, sound |-> {}]
NoBefore == [index |-> firstTree, work |-> firstTree]
Idle == [at |-> "idle", by |-> "nobody", workflow |-> NoWorkflow,
         todo |-> {}, held |-> NoFiles, protected |-> NoFiles, commit |-> 0,
         found |-> NoFound, snapshot |-> NoSnapshot, before |-> NoBefore]
Labels ==
    {"idle", "cycle", "running", "contain", "promote",
     "integrate", "candidate", "capture", "write", "observe", "accept",
     "rollback", "commit", "commit_accept", "manifest", "recheck", "rehash",
     "stage", "staged", "create", "created", "inspect", "conclude"}
\* A call: what it is about and holds of it, what the shift found when it
\* started and when the task did, what the integration found.
Job == [at : Labels, by : {"nobody", "shift", "caller"},
        workflow : Workflows \cup {NoWorkflow}, todo : SUBSET Paths,
        held : Partial, protected : Partial, commit : Nat,
        found : [head : Nat, changed : SUBSET Paths],
        snapshot : [head : Nat, clean : BOOLEAN, sound : SUBSET Workflows],
        before : [index : Tree, work : Tree]]
Results == {"NONE", "COMPLETED", "FAILED", "ROLLBACK_FAILED",
            "ALREADY_COMMITTED", "POST_COMMIT_VERIFICATION_FAILED"}

PromotionTypeOK ==
    /\ log \in Seq([tree : Tree, by : Workflows \cup {NoWorkflow}])
    /\ index \in Tree /\ work \in Tree
    /\ candidate \in [Workflows -> [files : Tree, moved : BOOLEAN]]
    /\ baseline \in [Workflows -> 0 .. current_head]
    /\ {rows, saved} \subseteq
          [state : [Workflows -> States], records : SUBSET Record]
    /\ job \in Job /\ job.commit \in 0 .. current_head
    /\ shift \in [tasks : 0 .. max_tasks, commits : 0 .. max_commits,
                  status : {"NONE", "CLEAN_TERMINATION", "HARD_STOP"}]
    /\ result \in Results /\ touched \subseteq Paths
    /\ budget \in [edits : 0 .. MaxEdits, calls : 0 .. MaxCalls]

PromotionInit ==
    /\ log = <<[tree |-> firstTree, by |-> NoWorkflow]>>
    /\ index = firstTree
    /\ work = Overlay(humanFiles, firstTree)
    /\ candidate = [w \in Workflows |-> [files |-> firstTree, moved |-> FALSE]]
    /\ baseline = [w \in Workflows |-> 0]
    /\ rows = [state |-> [w \in Workflows |-> "IMPLEMENTING"], records |-> {}]
    /\ saved = rows
    /\ job = Idle
    /\ shift = [tasks |-> 0, commits |-> 0, status |-> "NONE"]
    /\ result = "NONE" /\ touched = {}
    /\ budget = [edits |-> 0, calls |-> 0]

----------------------------------------------------------------------------
\* Returning from a service or from the shift.
At(label) == job' = [job EXCEPT !.at = label]

\* The shift returns and the session is committed.
ShiftEnds(status, newRows) ==
    /\ job' = Idle /\ rows' = newRows /\ saved' = newRows
    /\ shift' = [shift EXCEPT !.status = status]

\* A direct caller gets the result, and may keep the protected hashes.
CallEnds(newRows) ==
    /\ job' = [Idle EXCEPT !.protected = job.protected]
    /\ rows' = newRows /\ saved' = newRows
    /\ UNCHANGED shift

IntegrationReturns(status, newRows) ==
    /\ result' = status
    /\ \/ job.by = "caller" /\ CallEnds(newRows)
       \/ /\ job.by = "shift"
          /\ status = "COMPLETED" /\ job.workflow \in CommitAuthority
          /\ job' = [job EXCEPT !.at = "commit", !.todo = {}, !.held = NoFiles,
                                !.before = NoBefore]
          /\ rows' = newRows /\ UNCHANGED <<saved, shift>>
       \/ /\ job.by = "shift"
          /\ ~(status = "COMPLETED" /\ job.workflow \in CommitAuthority)
          /\ ShiftEnds("HARD_STOP", newRows)

MutCommitReturns(status, newRows) ==
    /\ result' = status
    /\ \/ job.by = "caller" /\ CallEnds(newRows)
       \/ /\ job.by = "shift"
          /\ job' = [Idle EXCEPT !.at = "cycle", !.by = "shift", !.found = job.found]
          /\ rows' = newRows /\ UNCHANGED saved
          /\ shift' = [shift EXCEPT !.commits =
                          IF status = "COMPLETED" THEN @ + 1 ELSE @]
CommitReturns(status, newRows) ==
    /\ result' = status
    /\ \/ job.by = "caller" /\ CallEnds(newRows)
       \/ /\ job.by = "shift" /\ status \in {"COMPLETED", "ALREADY_COMMITTED"}
          /\ job' = [Idle EXCEPT !.at = "cycle", !.by = "shift", !.found = job.found]
          /\ rows' = newRows /\ UNCHANGED saved
          /\ shift' = [shift EXCEPT !.commits =
                          IF status = "COMPLETED" THEN @ + 1 ELSE @]
       \/ /\ job.by = "shift" /\ status \notin {"COMPLETED", "ALREADY_COMMITTED"}
          /\ ShiftEnds("HARD_STOP", newRows)

----------------------------------------------------------------------------
\* integrate(request)
CanonicalIsClean == staged_paths = {} /\ tracked_worktree_paths = {}

\* The first half of _preflight, up to the canonical tree.
IntegrationPreflight ==
    LET w == job.workflow
        hashes == capture_untracked_file_hashes
        passes == /\ rows.state[w] = "COMPLETED_PENDING_INTEGRATION"
                  /\ HeadIsBaseline(w)
                  /\ CanonicalIsClean
                  /\ DOMAIN hashes \cap authorized[w] = {}
    IN  /\ job.at = "integrate"
        /\ IF passes
           THEN /\ job' = [job EXCEPT !.at = "candidate", !.protected = hashes,
                                      !.before = [index |-> index, work |-> work]]
                /\ UNCHANGED <<rows, saved, shift, result>>
           ELSE IntegrationReturns("FAILED", rows)
        /\ UNCHANGED <<repository, baseline, touched, budget>>

\* Its second half: the candidate's HEAD, changes and acceptance.
CandidatePreflight ==
    LET w == job.workflow
        changed == CandidateChanged(w)
        sound == /\ ~candidate[w].moved
                 /\ changed # {} /\ changed \subseteq authorized[w]
    IN  /\ job.at = "candidate"
        /\ \/ /\ sound
              /\ FilesAccepted(w, candidate[w].files) /\ Covered(w, changed)
              /\ job' = [job EXCEPT !.at = "capture", !.todo = changed]
              /\ UNCHANGED <<rows, saved, shift, result>>
           \/ /\ ~sound \/ MayReject(w, candidate[w].files) \/ ~Covered(w, changed)
              /\ IntegrationReturns("FAILED", rows)
        /\ UNCHANGED <<repository, baseline, touched, budget>>

\* What was read is what the frozen checks accept, for every checked path.
CaptureMatches(w, paths) ==
    /\ \A p \in paths : candidate[w].files[p] # Absent
    /\ DOMAIN accepts[w] \subseteq paths
    /\ \A p \in DOMAIN accepts[w] : candidate[w].files[p] \in accepts[w][p]

CaptureCandidate ==
    LET w == job.workflow
    IN  /\ job.at = "capture"
        /\ IF CaptureMatches(w, job.todo)
           THEN /\ job' = [job EXCEPT !.at = "write",
                     !.held = [p \in job.todo |-> candidate[w].files[p]]]
                /\ UNCHANGED <<rows, saved, shift, result>>
           ELSE IntegrationReturns("FAILED", rows)
        /\ UNCHANGED <<repository, baseline, touched, budget>>

\* write_validated_file_contents, one file; an OSError escapes, see Crash.
WriteFile ==
    /\ job.at = "write" /\ job.todo # {}
    /\ LET p == Min(job.todo)
       IN  /\ work' = [work EXCEPT ![p] = job.held[p]]
           /\ job' = [job EXCEPT !.todo = @ \ {p}]
    /\ UNCHANGED <<log, index, candidate, baseline, rows, saved, shift, result,
                   touched, budget>>

\* _verify_post_apply of the changes git reports.
PostApplyHolds ==
    LET actual == changed_paths \ DOMAIN job.protected
    IN  /\ ProtectedIntact(job.protected)
        /\ actual \subseteq authorized[job.workflow]
        /\ DOMAIN job.held \subseteq actual

RollBack ==
    /\ job' = [job EXCEPT !.at = "rollback", !.todo = authorized[job.workflow]]
    /\ UNCHANGED <<rows, saved, shift, result>>

ObserveApplied ==
    /\ job.at = "write" /\ job.todo = {}
    /\ IF PostApplyHolds
       THEN At("accept") /\ UNCHANGED <<rows, saved, shift, result>>
       ELSE RollBack
    /\ UNCHANGED <<repository, baseline, touched, budget>>

\* Acceptance on the canonical tree, then the workflow is closed.
AcceptAndClose ==
    LET w == job.workflow
    IN  /\ job.at = "accept"
        /\ \/ /\ FilesAccepted(w, work)
              /\ IntegrationReturns("COMPLETED",
                                    [rows EXCEPT !.state[w] = "CLOSED"])
           \/ MayReject(w, work) /\ RollBack
        /\ UNCHANGED <<repository, baseline, touched, budget>>

MutRestorePath ==
    LET w == job.workflow
        p == Min(job.todo)
    IN  /\ job.at = "rollback" /\ job.todo # {}
        /\ work' = IF Baseline(w)[p] = Absent THEN work
                   ELSE [work EXCEPT ![p] = Baseline(w)[p]]
        /\ index' = [index EXCEPT ![p] = Baseline(w)[p]]
        /\ job' = [job EXCEPT !.todo = @ \ {p}]
        /\ UNCHANGED <<log, candidate, baseline, rows, saved, shift, result,
                       touched, budget>>
\* restore_authorized_paths_to_baseline, one path: git restore of a file of
\* the baseline, removal of one that was not there.
RestorePath ==
    LET w == job.workflow
        p == Min(job.todo)
    IN  /\ job.at = "rollback" /\ job.todo # {}
        /\ work' = [work EXCEPT ![p] = Baseline(w)[p]]
        /\ index' = IF Baseline(w)[p] = Absent THEN index
                    ELSE [index EXCEPT ![p] = Baseline(w)[p]]
        /\ job' = [job EXCEPT !.todo = @ \ {p}]
        /\ UNCHANGED <<log, candidate, baseline, rows, saved, shift, result,
                       touched, budget>>

RestoreFails ==
    /\ job.at = "rollback" /\ job.todo # {}
    /\ IntegrationReturns("ROLLBACK_FAILED", rows)
    /\ UNCHANGED <<repository, baseline, touched, budget>>

RollbackConcludes ==
    /\ job.at = "rollback" /\ job.todo = {}
    /\ IntegrationReturns(
          IF current_head = baseline[job.workflow] /\ ProtectedIntact(job.protected)
          THEN "FAILED" ELSE "ROLLBACK_FAILED", rows)
    /\ UNCHANGED <<repository, baseline, touched, budget>>

----------------------------------------------------------------------------
\* commit(request)
Recorded(w) == \E r \in rows.records : r.workflow = w

\* _preflight up to the changed paths.
CommitPreflight ==
    LET w == job.workflow
        actual == changed_paths \ DOMAIN job.protected
        open == rows.state[w] = "CLOSED" /\ w \in CommitAuthority
        passes == /\ HeadIsBaseline(w)
                  /\ staged_paths = {}
                  /\ DOMAIN job.protected \cap authorized[w] = {}
                  /\ ProtectedIntact(job.protected)
                  /\ actual # {} /\ actual \subseteq authorized[w]
    IN  /\ job.at = "commit"
        /\ IF open /\ ~Recorded(w) /\ passes
           THEN /\ job' = [job EXCEPT !.at = "commit_accept", !.todo = actual]
                /\ UNCHANGED <<rows, saved, shift, result>>
           ELSE CommitReturns(IF open /\ Recorded(w) THEN "ALREADY_COMMITTED"
                              ELSE "FAILED", rows)
        /\ UNCHANGED <<repository, baseline, touched, budget>>

\* The rest of _preflight: acceptance, coverage ...
CommitAcceptance ==
    LET w == job.workflow
    IN  /\ job.at = "commit_accept"
        /\ \/ /\ FilesAccepted(w, work) /\ Covered(w, job.todo)
              /\ At("manifest") /\ UNCHANGED <<rows, saved, shift, result>>
           \/ /\ MayReject(w, work) \/ ~Covered(w, job.todo)
              /\ CommitReturns("FAILED", rows)
        /\ UNCHANGED <<repository, baseline, touched, budget>>

\* ... and the hash of every changed file, which must be there.
BuildManifest ==
    /\ job.at = "manifest"
    /\ IF \A p \in job.todo : work[p] # Absent
       THEN /\ job' = [job EXCEPT !.at = "recheck",
                                  !.held = [p \in job.todo |-> work[p]]]
            /\ UNCHANGED <<rows, saved, shift, result>>
       ELSE CommitReturns("FAILED", rows)
    /\ UNCHANGED <<repository, baseline, touched, budget>>

\* _verify_pre_commit_state: HEAD, index, protected files, changes, acceptance,
RecheckState ==
    LET w == job.workflow
        same == /\ HeadIsBaseline(w) /\ staged_paths = {}
                /\ ProtectedIntact(job.protected)
                /\ changed_paths \ DOMAIN job.protected = job.todo
    IN  /\ job.at = "recheck"
        /\ \/ /\ same /\ FilesAccepted(w, work)
              /\ At("rehash") /\ UNCHANGED <<rows, saved, shift, result>>
           \/ /\ ~same \/ MayReject(w, work)
              /\ CommitReturns("FAILED", rows)
        /\ UNCHANGED <<repository, baseline, touched, budget>>

\* ... and the hashes again.
RecheckHashes ==
    /\ job.at = "rehash"
    /\ IF \A p \in job.todo : work[p] = job.held[p]
       THEN At("stage") /\ UNCHANGED <<rows, saved, shift, result>>
       ELSE CommitReturns("FAILED", rows)
    /\ UNCHANGED <<repository, baseline, touched, budget>>

\* git add of the manifest's paths; git refuses a path it finds nowhere.
StagePaths ==
    /\ job.at = "stage"
    /\ \A p \in job.todo : work[p] # Absent \/ index[p] # Absent
    /\ index' = [p \in Paths |-> IF p \in job.todo THEN work[p] ELSE index[p]]
    /\ At("staged")
    /\ UNCHANGED <<log, work, candidate, baseline, rows, saved, shift, result,
                   touched, budget>>

\* _cleanup_staging: git restore --staged of the paths to be staged.
Unstaged ==
    [p \in Paths |-> IF p \in job.todo THEN log[current_head].tree[p] ELSE index[p]]

StagingFails ==
    /\ job.at = "stage"
    /\ index' \in {index, Unstaged}
    /\ CommitReturns("FAILED", rows)
    /\ UNCHANGED <<log, work, candidate, baseline, touched, budget>>

\* _verify_staged_manifest; when it fails the paths are unstaged again.
VerifyStaged ==
    /\ job.at = "staged"
    /\ IF /\ ProtectedIntact(job.protected)
          /\ staged_paths = job.todo
          /\ \A p \in job.todo : index[p] = job.held[p]
       THEN At("create") /\ UNCHANGED <<index, rows, saved, shift, result>>
       ELSE /\ index' \in {index, Unstaged}
            /\ CommitReturns("FAILED", rows)
    /\ UNCHANGED <<log, work, candidate, baseline, touched, budget>>

\* git commit takes the whole index, and refuses an empty change.
CreateCommit ==
    /\ job.at = "create"
    /\ \/ /\ staged_paths # {}
          /\ log' = Append(log, [tree |-> index, by |-> job.workflow])
          /\ At("created")
          /\ UNCHANGED <<index, rows, saved, shift, result>>
       \/ /\ index' \in {index, Unstaged}
          /\ CommitReturns("FAILED", rows)
          /\ UNCHANGED log
    /\ UNCHANGED <<work, candidate, baseline, touched, budget>>

\* create_local_commit returns whatever HEAD is by then.
ReadResultingCommit ==
    /\ job.at = "created"
    /\ job' = [job EXCEPT !.at = "inspect", !.commit = current_head]
    /\ UNCHANGED <<repository, baseline, rows, saved, shift, result, touched, budget>>

MutInspectCommit ==
    LET w == job.workflow
        c == job.commit
        intended == /\ current_head = c /\ c - 1 = baseline[w]
                    /\ \A p \in job.todo : log[c].tree[p] = job.held[p]
    IN  /\ job.at = "inspect"
        /\ \/ /\ intended /\ FilesAccepted(w, work)
              /\ At("conclude") /\ UNCHANGED <<rows, saved, shift, result>>
           \/ /\ ~intended \/ MayReject(w, work)
              /\ CommitReturns("POST_COMMIT_VERIFICATION_FAILED", rows)
        /\ UNCHANGED <<repository, baseline, touched, budget>>
\* _verify_post_commit of the commit itself: HEAD, parent, paths, hashes,
\* and acceptance once more.
InspectCommit ==
    LET w == job.workflow
        c == job.commit
        intended == /\ current_head = c /\ c - 1 = baseline[w]
                    /\ CommitChanged(c) = job.todo
                    /\ job.todo \subseteq authorized[w]
                    /\ \A p \in job.todo : log[c].tree[p] = job.held[p]
    IN  /\ job.at = "inspect"
        /\ \/ /\ intended /\ FilesAccepted(w, work)
              /\ At("conclude") /\ UNCHANGED <<rows, saved, shift, result>>
           \/ /\ ~intended \/ MayReject(w, work)
              /\ CommitReturns("POST_COMMIT_VERIFICATION_FAILED", rows)
        /\ UNCHANGED <<repository, baseline, touched, budget>>

\* The tree is clean but for the protected files: the record is written.
ConcludeCommit ==
    LET w == job.workflow
        record == [workflow |-> w, commit |-> job.commit,
                   contents |-> job.held, edited |-> touched]
    IN  /\ job.at = "conclude"
        /\ IF /\ ProtectedIntact(job.protected)
              /\ changed_paths \subseteq DOMAIN job.protected
              /\ current_head = job.commit
           THEN CommitReturns("COMPLETED", [rows EXCEPT !.records = @ \cup {record}])
           ELSE CommitReturns("POST_COMMIT_VERIFICATION_FAILED", rows)
        /\ UNCHANGED <<repository, baseline, touched, budget>>

----------------------------------------------------------------------------
\* The shift's loop.
CycleAgain == job' = [Idle EXCEPT !.at = "cycle", !.by = "shift", !.found = job.found]

\* A limit is reached, or the wall clock's.
ShiftFinishes ==
    /\ job.at = "cycle"
    /\ ShiftEnds("CLEAN_TERMINATION", rows)
    /\ UNCHANGED <<repository, baseline, result, touched, budget>>

MutCaptureSnapshots ==
    /\ job.at = "cycle"
    /\ shift.commits < max_commits
    /\ job' = [job EXCEPT !.at = "running",
                 !.protected = capture_untracked_file_hashes,
                 !.snapshot = [head |-> current_head, clean |-> CanonicalIsClean,
                               sound |-> {w \in Workflows : baseline[w] # 0}]]
    /\ UNCHANGED <<repository, baseline, rows, saved, shift, result, touched, budget>>
\* _capture_containment_snapshots; those of the candidates are kept as the
\* set of candidates that were sound.
CaptureSnapshots ==
    /\ job.at = "cycle"
    /\ shift.tasks < max_tasks /\ shift.commits < max_commits
    /\ job' = [job EXCEPT !.at = "running",
                 !.protected = capture_untracked_file_hashes,
                 !.snapshot = [head |-> current_head, clean |-> CanonicalIsClean,
                               sound |-> {w \in Workflows : /\ baseline[w] # 0
                                                    /\ ~candidate[w].moved
                                                    /\ CandidateChanged(w) = {}}]]
    /\ UNCHANGED <<repository, baseline, rows, saved, shift, result, touched, budget>>

\* Every run over a closed workflow reopens it, see RuntimeLoop!BeginRun.
Reopened ==
    [rows EXCEPT !.state = [w \in Workflows |->
        IF @[w] = "CLOSED" THEN "COMPLETED_PENDING_INTEGRATION" ELSE @[w]]]

\* runtime.run finds nothing, or hands back an escalation or no record.
RuntimeEndsShift ==
    /\ job.at = "running"
    /\ \E status \in {"CLEAN_TERMINATION", "HARD_STOP"} : ShiftEnds(status, Reopened)
    /\ UNCHANGED <<repository, baseline, result, touched, budget>>

\* What a task may leave in its candidate: files it wrote, or commits.
CandidateAfter(w) ==
    {[candidate[w] EXCEPT !.files = Overlay(output, @)] : output \in taskOutputs[w]}
        \cup {[candidate[w] EXCEPT !.moved = TRUE]}

\* runtime.run executed a task of w, which ended with this workflow state.
TaskEnds(w, state, label) ==
    /\ job.at = "running"
    /\ baseline[w] # 0 /\ rows.state[w] \in {"IMPLEMENTING", "BLOCKED"}
    /\ \E left \in CandidateAfter(w) : candidate' = [candidate EXCEPT ![w] = left]
    /\ rows' = [Reopened EXCEPT !.state[w] = state]
    /\ shift' = [shift EXCEPT !.tasks = @ + 1]
    /\ job' = [job EXCEPT !.at = label, !.workflow = w]
    /\ UNCHANGED <<log, index, work, baseline, saved, result, touched, budget>>

\* The last item of the backlog, or one of several.
TaskCompletes(w) ==
    \/ TaskEnds(w, "COMPLETED_PENDING_INTEGRATION", "promote")
    \/ TaskEnds(w, "IMPLEMENTING", "promote")
TaskFails(w) == TaskEnds(w, rows.state[w], "contain")

\* _promotion_context: the state, and bounds on complexity and risk.
Promote ==
    LET pending == rows.state[job.workflow] = "COMPLETED_PENDING_INTEGRATION"
    IN  /\ job.at = "promote"
        /\ \/ /\ pending
              /\ job' = [job EXCEPT !.at = "integrate", !.protected = NoFiles,
                                    !.snapshot = NoSnapshot]
              /\ UNCHANGED <<rows, saved, shift>>
           \/ ShiftEnds("HARD_STOP", rows)
        /\ UNCHANGED <<repository, baseline, result, touched, budget>>

\* _prove_contained_failure: the canonical tree before and after, and the
\* candidate before.
Contained(w) ==
    /\ job.snapshot.head = baseline[w] /\ job.snapshot.clean
    /\ w \in job.snapshot.sound
    /\ current_head = baseline[w] /\ CanonicalIsClean
    /\ ProtectedIntact(job.protected)
    /\ changed_paths \subseteq DOMAIN job.protected

\* A candidate left with changes is quarantined: its workflow is BLOCKED.
ProveContained ==
    LET w == job.workflow
        spoiled == candidate[w].moved \/ CandidateChanged(w) # {}
    IN  /\ job.at = "contain"
        /\ IF Contained(w)
           THEN /\ CycleAgain
                /\ rows' = IF spoiled THEN [rows EXCEPT !.state[w] = "BLOCKED"]
                           ELSE rows
                /\ UNCHANGED <<saved, shift>>
           ELSE ShiftEnds("HARD_STOP", rows)
        /\ UNCHANGED <<repository, baseline, result, touched, budget>>

----------------------------------------------------------------------------
\* What others do.
Begins(newJob) ==
    /\ job.at = "idle" /\ budget.calls < MaxCalls
    /\ job' = newJob
    /\ result' = "NONE" /\ touched' = {}
    /\ budget' = [budget EXCEPT !.calls = @ + 1]
    /\ UNCHANGED <<repository, baseline, rows, saved>>

StartShift ==
    /\ Begins([Idle EXCEPT !.at = "cycle", !.by = "shift",
                           !.found = [head |-> current_head, changed |-> changed_paths]])
    /\ shift' = [tasks |-> 0, commits |-> 0, status |-> "NONE"]

CallIntegrate(w) ==
    /\ baseline[w] # 0
    /\ Begins([Idle EXCEPT !.at = "integrate", !.by = "caller", !.workflow = w])
    /\ UNCHANGED shift

CallCommit(w) ==
    /\ baseline[w] # 0
    /\ \E hashes \in {NoFiles, job.protected} :
          Begins([Idle EXCEPT !.at = "commit", !.by = "caller", !.workflow = w,
                              !.protected = hashes])
    /\ UNCHANGED shift

\* The plan is frozen at the canonical HEAD and its worktree made there.
FreezePlan(w) ==
    /\ job.at = "idle" /\ baseline[w] = 0
    /\ baseline' = [baseline EXCEPT ![w] = current_head]
    /\ candidate' = [candidate EXCEPT ![w].files = log[current_head].tree]
    /\ UNCHANGED <<log, index, work, rows, saved, job, shift, result, touched, budget>>

Edits(paths) ==
    /\ budget.edits < MaxEdits
    /\ budget' = [budget EXCEPT !.edits = @ + 1]
    /\ touched' = touched \cup paths
    /\ UNCHANGED <<candidate, baseline, rows, saved, job, shift, result>>

EditorWrites ==
    \E p \in Paths, c \in Content \cup {Absent} :
        /\ <<p, c>> \in editorWrites
        /\ c # work[p] /\ Edits({p})
        /\ work' = [work EXCEPT ![p] = c]
        /\ UNCHANGED <<log, index>>
EditorStages ==
    \E p \in Paths :
        /\ work[p] # index[p] /\ Edits({p})
        /\ index' = [index EXCEPT ![p] = work[p]]
        /\ UNCHANGED <<log, work>>
EditorCommits ==
    /\ staged_paths # {} /\ Edits(staged_paths)
    /\ log' = Append(log, [tree |-> index, by |-> NoWorkflow])
    /\ UNCHANGED <<index, work>>

\* The process dies, or an exception escapes the services (a failed write):
\* the session rolls back, the repository stays as it is.
Crash ==
    /\ job.at # "idle"
    /\ job' = Idle /\ rows' = saved
    /\ shift' = [shift EXCEPT !.status = "NONE"] /\ result' = "NONE"
    /\ UNCHANGED <<repository, baseline, saved, touched, budget>>

IntegrationStep ==
    \/ IntegrationPreflight \/ CandidatePreflight \/ CaptureCandidate
    \/ WriteFile \/ ObserveApplied \/ AcceptAndClose
    \/ RestorePath \/ RestoreFails \/ RollbackConcludes
CommitStep ==
    \/ CommitPreflight \/ CommitAcceptance \/ BuildManifest
    \/ RecheckState \/ RecheckHashes \/ StagePaths \/ StagingFails
    \/ VerifyStaged \/ CreateCommit \/ ReadResultingCommit
    \/ InspectCommit \/ ConcludeCommit
ShiftStep ==
    \/ ShiftFinishes \/ CaptureSnapshots \/ RuntimeEndsShift
    \/ \E w \in Workflows : TaskCompletes(w) \/ TaskFails(w)
    \/ Promote \/ ProveContained
ServiceStep == IntegrationStep \/ CommitStep \/ ShiftStep

PromotionNext ==
    \/ ServiceStep
    \/ StartShift
    \/ \E w \in Workflows : CallIntegrate(w) \/ CallCommit(w) \/ FreezePlan(w)
    \/ EditorWrites \/ EditorStages \/ EditorCommits
    \/ Crash

PromotionSpec == PromotionInit /\ [][PromotionNext]_promotionVars

----------------------------------------------------------------------------
\* A recorded controlled commit is the one its workflow was entitled to: on
\* the frozen baseline, with exactly the recorded files and contents, all of
\* them covered by a check, whatever an editor did between the checks and
\* whatever a crash took away; and every checked path has accepted content but
\* for those the editor touched meanwhile, which the acceptance checks and the
\* hashes may have met with different contents.
RecordedCommitIsVerified ==
    \A r \in rows.records \cup saved.records :
        LET w   == r.workflow
            old == log[r.commit - 1].tree
            new == log[r.commit].tree
        IN  /\ r.commit - 1 = baseline[w]
            /\ log[r.commit].by = w
            /\ Differ(old, new) = DOMAIN r.contents /\ DOMAIN r.contents # {}
            /\ \A p \in DOMAIN r.contents : new[p] = r.contents[p]
            /\ DOMAIN r.contents \subseteq DOMAIN accepts[w]
            /\ \A p \in DOMAIN accepts[w] \ r.edited : new[p] \in accepts[w][p]

\* No retry, crash or lost record makes lucius commit the work of a frozen
\* plan twice.
OneCommitPerFreeze ==
    \A j, k \in DOMAIN log : log[j].by \in Workflows /\ log[j].by = log[k].by => j = k

\* An integration that reports FAILED has put every file and index entry back,
\* except what the editor changed meanwhile.
RestoresWhatItWrote ==
    job.at \in {"write", "accept", "rollback"} /\ job'.at = "idle" /\ result' = "FAILED"
    => \A p \in Paths \ touched :
          work[p] = job.before.work[p] /\ index[p] = job.before.index[p]
FailedIntegrationRestores == [][RestoresWhatItWrote]_promotionVars

\* A shift that ends cleanly hides nothing: its commits are all recorded, and
\* a changed path is one it found changed or the editor changed.
EndsWithNothingHidden ==
    job.by = "shift" /\ job'.at = "idle" /\ shift'.status = "CLEAN_TERMINATION"
    => /\ \A k \in DOMAIN log : log[k].by \in Workflows /\ k > job.found.head
              => \E r \in saved'.records : r.commit = k
       /\ changed_paths \subseteq job.found.changed \cup touched
CleanShiftHidesNothing == [][EndsWithNothingHidden]_promotionVars
=============================================================================
