------------------------------ MODULE Batches -------------------------------
(* What a before_send hook may leave of a batch.                           *)
EXTENDS Naturals, Sequences

\* What can be left of a sequence when some of its elements are removed.
Subsequences(s) ==
  UNION {{[i \in 1..n |-> s[at[i]]] :
            at \in {f \in [1..n -> 1..Len(s)] :
                       \A i, j \in 1..n : i < j => f[i] < f[j]}} : n \in 0..Len(s)}
=============================================================================
