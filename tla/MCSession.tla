----------------------------- MODULE MCSession -----------------------------
(* Two sealers race with two renewals and one or two Closes.               *)
EXTENDS Session, TLC

\* Interchangeable goroutines (safety runs only).
Symmetry ==
  Permutations(Workers) \cup Permutations(Direct)
    \cup Permutations(Renewers) \cup Permutations(Closers)
=============================================================================
