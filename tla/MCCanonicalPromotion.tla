------------------------ MODULE MCCanonicalPromotion ------------------------
(***************************************************************************)
(* One canonical repository with a tracked file (1) and three more names.  *)
(* W1 may change 1 and add 2; W2, which may not be committed, adds 3; a    *)
(* person keeps notes in 4.                                                *)
(***************************************************************************)
EXTENDS CanonicalPromotion

MCPaths == 1 .. 4
MCContent == {"old", "good", "bad"}
MCFirstTree == [p \in MCPaths |-> IF p = 1 THEN "old" ELSE "absent"]
MCAuthorized == [W1 |-> {1, 2}, W2 |-> {3}]
MCHumanFiles == [p \in {4} |-> "old"]
\* Nothing, what W1 was asked for, wrong content, a path too many.
MCTaskOutputs ==
    [W1 |-> {<<>>, [p \in {1, 2} |-> "good"],
             [p \in {1, 2} |-> "bad"], [p \in {1, 2, 3} |-> "good"]},
     W2 |-> {<<>>, [p \in {3} |-> "good"]}]
MCEditorWrites == {<<1, "good">>, <<1, "bad">>, <<2, "bad">>, <<3, "bad">>, <<4, "absent">>}
\* An exact content for 1 and 3; 2 has to exist.
MCAccepts == [W1 |-> [p \in {1, 2} |-> IF p = 1 THEN {"good"} ELSE MCContent],
              W2 |-> [p \in {3} |-> {"good"}]]
=============================================================================
