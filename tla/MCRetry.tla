------------------------------ MODULE MCRetry ------------------------------
(* Two goroutines, as the worker pool and a direct batch send, share one    *)
(* Retryer and its context.                                                 *)
EXTENDS Retry, TLC

\* The value of MaxRetries that means no limit.
Unlimited == -1

\* Callers are interchangeable (safety runs only).
Symmetry == Permutations(Callers)
=============================================================================
