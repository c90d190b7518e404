----------------------- MODULE MCBacklogProvisioning -----------------------
(***************************************************************************)
(* Two tasks, the second depending on the first: both DRAFT, or the first  *)
(* one waiting for its documentation; or one task that is READY.  Two      *)
(* provisioning processes, and three specifications over one repository: a *)
(* read-only one and two for controlled mutation, one of which fails in    *)
(* its second key.  One client besides the project.                        *)
(***************************************************************************)
EXTENDS BacklogProvisioning, TLC

Plain(dependencies) ==
    [stated |-> TRUE, criteria |-> Criteria, repositories |-> {},
     dependencies |-> dependencies, documented |-> FALSE, targets |-> {},
     authority |-> 0, needs |-> 0, writes |-> FALSE]

Guide ==
    [Plain({}) EXCEPT !.documented = TRUE, !.targets = {"guide"}]

MCFirstLedgers ==
    {[tasks |-> <<NewTask(0, "DRAFT", Plain({})), NewTask(0, "DRAFT", Plain({1}))>>,
      runs |-> <<>>],
     [tasks |-> <<NewTask(0, "DOCUMENTATION_PENDING", Guide),
                  NewTask(0, "DRAFT", Plain({1}))>>,
      runs |-> <<[task |-> 1, status |-> "SUCCEEDED"]>>],
     [tasks |-> <<NewTask(0, "READY", Plain({}))>>, runs |-> <<>>]}

MCContracts ==
    {Plain({}), [Guide EXCEPT !.dependencies = {2}, !.repositories = Repositories]}

MCCompletions == {[targets |-> {"guide"}, evidence |-> TRUE]}

KeyOf(name, checked) ==
    [key |-> name, policy |-> TRUE, stated |-> TRUE, criteria |-> Criteria,
     paths |-> Paths, checked |-> checked, dependencies |-> {1}]
SpecOf(kind, id, keys) ==
    [kind |-> kind, id |-> id, keys |-> keys, repository |-> "repo",
     frozen_head |-> "h1"]

MCSpecs ==
    {SpecOf("READ_ONLY", "B1", <<KeyOf("a", {})>>),
     SpecOf("MUTATION", "B1", <<KeyOf("a", Paths), KeyOf("b", Paths)>>),
     SpecOf("MUTATION", "B2", <<KeyOf("a", Paths), KeyOf("b", {})>>)}

Modest ==
    [cites |-> {}, recalls |-> {}, covers |-> Criteria, verified |-> FALSE, claims |-> {},
     files |-> Paths, existing |-> {}, checked |-> Paths, orchestrated |-> FALSE,
     complete |-> FALSE]

(* One for every rule that planning or freezing has.                       *)
MCProposals ==
    {Modest,
     [Modest EXCEPT !.cites = Evidence, !.claims = Evidence, !.existing = Paths],
     [Modest EXCEPT !.recalls = {1}],
     [Modest EXCEPT !.covers = {}],
     [Modest EXCEPT !.files = {}]}

(* A lesson of a client, proposed as one for all and called sanitized, and  *)
(* one that names a memory as its source.                                  *)
MCLearned ==
    {[project |-> "client", scope |-> "GLOBAL", sanitized |-> "SANITIZED",
      evidence |-> Evidence, memories |-> {}, documents |-> FALSE,
      correction |-> FALSE],
     [project |-> "own", scope |-> "PROJECT", sanitized |-> "default",
      evidence |-> {}, memories |-> {1}, documents |-> FALSE,
      correction |-> FALSE]}

MCObserved ==
    {[project |-> "client", scope |-> "DFG", status |-> "OBSERVED",
      evidence |-> Evidence, reference |-> FALSE, work |-> FALSE],
     [project |-> "own", scope |-> "CLIENT", status |-> "VALIDATED",
      evidence |-> {}, reference |-> TRUE, work |-> FALSE]}

ProcsAlike == Permutations(Procs)
=============================================================================
