------------------------------- MODULE MCView -------------------------------
(* Instances of View for TLC; the values of the constants are in the .cfg. *)
EXTENDS View, TLC

\* Goroutines are interchangeable.
Symmetry == Permutations(Pollers)
=============================================================================
