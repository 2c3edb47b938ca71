----------------------------- MODULE MCRetrieval -----------------------------
(* Instances of Retrieval for TLC. *)
EXTENDS Retrieval, TLC

Symmetry == Permutations(Docs) \union Permutations(Categories)

(* Below, at and above the least confidence and the bounds of 0 and 1 *)
ModelConfidences == {-1, 5, 6, 12}
AllConfidences == ModelConfidences \union {None}
=============================================================================
