------------------------------ MODULE MCQueue ------------------------------
(* The queue on its own: three consumers race for a queue of two entries.  *)
EXTENDS Queue, TLC

\* Consumers and entries are interchangeable (safety runs only).
Symmetry == Permutations(Consumers) \cup Permutations(Entries)
=============================================================================
