-------------------------- MODULE MCShiftHandoff --------------------------
(***************************************************************************)
(* Two shift processes and two watchdogs; one entry of the backlog that    *)
(* both channels know, or only the portfolio while it needs evidence.      *)
(***************************************************************************)
EXTENDS ShiftHandoff

MCAuthority == [e \in Sources |-> IF e \in Entries THEN "CLASS_B" ELSE "CLASS_A"]
MCRank == [e \in Sources |-> IF e \in Entries THEN 1 ELSE 2]
ProcessesAlike == Permutations(Procs) \cup Permutations(Watchdogs)
=============================================================================
