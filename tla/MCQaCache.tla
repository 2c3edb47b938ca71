------------------------------ MODULE MCQaCache ------------------------------
(* Instances of QaCache for TLC. *)
EXTENDS QaCache, Functions, TLC

(* Each question is within the distance threshold of every other one. *)
AllSimilar == [q \in Questions |-> Questions]

(* No more than two changes: the first of a category, the second of the     *)
(* same category or of the global scope.                                    *)
TwoChanges == {f \in [Scopes -> 0..2] :
    /\ FoldFunction(+, 0, f) <= 2
    /\ \E c \in Categories : f[NoCategory] <= f[c]}
OneChange == {f \in [Scopes -> 0..1] : FoldFunction(+, 0, f) <= 1}

Symmetry == Permutations(Asks) \union Permutations(Changes) \union Permutations(Questions)
=============================================================================
