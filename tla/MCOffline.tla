------------------------------ MODULE MCOffline ------------------------------
(***************************************************************************)
(* Instances of OfflineTranslation for TLC.                                *)
(***************************************************************************)
EXTENDS OfflineTranslation, TLC

Symmetry == Permutations(Workers) \cup Permutations(Copies)

\* Bound: of all files together, translators change two units.
FewChanges ==
  Cardinality({p \in Copies \X Units :
                 /\ copies[p[1]] # NULL
                 /\ copies[p[1]].file[p[2]] # copies[p[1]].orig[p[2]]}) <= 2
=============================================================================
