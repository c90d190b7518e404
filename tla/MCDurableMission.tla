-------------------------- MODULE MCDurableMission --------------------------
(***************************************************************************)
(* One workflow of two items, the second depending on the first, under a   *)
(* mission whose waits are for a resource or for an authority decision.    *)
(***************************************************************************)
EXTENDS DurableMission

MCWorkflows == {"A"}
MCItems == {"a1", "a2"}
MCWfOf == [a1 |-> "A", a2 |-> "A"]
MCPriority == [a1 |-> "NORMAL", a2 |-> "CRITICAL"]
MCCreatedOrder == [a1 |-> 1, a2 |-> 2]
MCIdentity == [a1 |-> 1, a2 |-> 2]
MCDeps == [a1 |-> {}, a2 |-> {"a1"}]
=============================================================================
