--------------------------- MODULE MCBufferTimers ---------------------------
(* Instances of BufferTimers for TLC; the constants are in the .cfg.       *)
EXTENDS BufferTimers, TLC

\* Templates are interchangeable.
Symmetry == Permutations(Ids)
=============================================================================
