----------------------------- MODULE MCStatistics -----------------------------
(***************************************************************************)
(* Trees of units, Stores and translation projects, and the checks that    *)
(* targets fail, for the instances of Statistics.                          *)
(***************************************************************************)
EXTENDS Statistics, TLC

OneTP == [s \in Stores |-> CHOOSE t \in TPs : TRUE]
Tree == "u" :> "s" @@ "v" :> "r"
OneStore == [u \in Units |-> "s"]
\* Every target fails with the checkers that an upgrade installs.
FailsLater == [st \in Styles |-> [x \in Texts \ {""} |-> IF st = "new" THEN Checks ELSE {}]]
Symmetry == Permutations(Workers) \cup Permutations(Viewers)
=============================================================================
