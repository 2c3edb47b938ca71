---------------------------- MODULE MCFolderTree ----------------------------
(* Instances of FolderTree for TLC. *)
EXTENDS FolderTree, TLC

Symmetry == Permutations(Owners) \union Permutations(Folders) \union Permutations(Chats)
=============================================================================
