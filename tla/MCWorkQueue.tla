---------------------------- MODULE MCWorkQueue ----------------------------
(***************************************************************************)
(* Two workflows of two projects.  In A, a2 depends on a1 and outranks it  *)
(* by priority, and a3 is free of both; B holds one item.  In the mixed    *)
(* backlog m2 depends on m1, whose unknown priority keeps it out of every  *)
(* selection, m3 is stored without a queue state, m4 depends on an item of *)
(* another workflow, and m5 and m6 tie on everything but their identity.   *)
(***************************************************************************)
EXTENDS WorkQueue

MCWorkflows == {"A", "B"}
MCItems == {"a1", "a2", "a3", "b1"}
MCWfOf == [a1 |-> "A", a2 |-> "A", a3 |-> "A", b1 |-> "B"]
MCPriority == [a1 |-> "NORMAL", a2 |-> "CRITICAL", a3 |-> "LOW",
               b1 |-> "HIGH"]
MCCreatedOrder == [a1 |-> 1, a2 |-> 2, a3 |-> 3, b1 |-> 1]
MCIdentity == [a1 |-> 1, a2 |-> 2, a3 |-> 3, b1 |-> 4]
MCDeps == [a1 |-> {}, a2 |-> {"a1"}, a3 |-> {}, b1 |-> {}]
MCScopes == {MCWorkflows, {"A"}}

MixedItems == {"m1", "m2", "m3", "m4", "m5", "m6"}
MixedWfOf == [m1 |-> "A", m2 |-> "A", m3 |-> "A", m4 |-> "B", m5 |-> "A", m6 |-> "A"]
MixedPriority == [m1 |-> "UNKNOWN", m2 |-> "HIGH", m3 |-> "NORMAL",
                  m4 |-> "LOW", m5 |-> "NORMAL", m6 |-> "NORMAL"]
MixedCreatedOrder == [m1 |-> 1, m2 |-> 1, m3 |-> 1, m4 |-> 1, m5 |-> 1, m6 |-> 1]
MixedIdentity == [m1 |-> 1, m2 |-> 2, m3 |-> 3, m4 |-> 6, m5 |-> 4, m6 |-> 5]
MixedDeps == [m1 |-> {}, m2 |-> {"m1"}, m3 |-> {}, m4 |-> {"m1"}, m5 |-> {}, m6 |-> {}]
MixedLegacy == {"m3"}
=============================================================================
