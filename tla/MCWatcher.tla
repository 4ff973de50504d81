------------------------------ MODULE MCWatcher ------------------------------
(* Instances of Watcher for TLC; the constants are given in the .cfg.      *)
EXTENDS Watcher, TLC

\* Templates are interchangeable.
Symmetry == Permutations(Notifiers)
=============================================================================
