--------------------------- MODULE MCKnowledgeBase ---------------------------
(* Instances of KnowledgeBase for TLC. *)
EXTENDS KnowledgeBase, TLC

Symmetry == Permutations(Uploads) \union Permutations(Docs) \union
            Permutations(Contents) \union Permutations(Names)
=============================================================================
