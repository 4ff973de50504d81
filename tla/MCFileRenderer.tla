--------------------------- MODULE MCFileRenderer ---------------------------
(***************************************************************************)
(* FileRenderer with contents that are told apart by name only.            *)
(***************************************************************************)
EXTENDS FileRenderer, TLC

Symmetry == Permutations(Contents)
=============================================================================
