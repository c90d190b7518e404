--------------------------- MODULE MCRuntimeLoop ---------------------------
(***************************************************************************)
(* Two projects with one workflow each.  The small backlog has two items   *)
(* in A, one waiting for the other, and one in B, with operators acting    *)
(* between runs; the fair backlog has four items in A and two in B, and    *)
(* only runs, which may die.                                               *)
(***************************************************************************)
EXTENDS RuntimeLoop

MCWorkflows == {"A", "B"}
MCProjOf == [A |-> "PA", B |-> "PB"]
MCProjectRank == [PA |-> 1, PB |-> 2]
MCScopes == {MCWorkflows, {"A"}}
AllScope == {MCWorkflows}

MCItems == {"a1", "a2", "b1"}
MCWfOf == [a1 |-> "A", a2 |-> "A", b1 |-> "B"]
MCPriority == [a1 |-> "NORMAL", a2 |-> "CRITICAL", b1 |-> "NORMAL"]
MCCreatedOrder == [a1 |-> 1, a2 |-> 2, b1 |-> 1]
MCIdentity == [a1 |-> 1, a2 |-> 2, b1 |-> 3]
MCDeps == [a1 |-> {}, a2 |-> {"a1"}, b1 |-> {}]

FairItems == {"a1", "a2", "a3", "a4", "b1", "b2"}
FairWfOf == [a1 |-> "A", a2 |-> "A", a3 |-> "A", a4 |-> "A", b1 |-> "B", b2 |-> "B"]
FairPriority == [a1 |-> "HIGH", a2 |-> "NORMAL", a3 |-> "NORMAL", a4 |-> "CRITICAL",
                 b1 |-> "NORMAL", b2 |-> "LOW"]
FairCreatedOrder == [a1 |-> 1, a2 |-> 2, a3 |-> 3, a4 |-> 4, b1 |-> 1, b2 |-> 2]
FairIdentity == [a1 |-> 1, a2 |-> 2, a3 |-> 3, a4 |-> 4, b1 |-> 5, b2 |-> 6]
FairDeps == [a1 |-> {}, a2 |-> {}, a3 |-> {}, a4 |-> {"a3"}, b1 |-> {}, b2 |-> {}]
=============================================================================
