------------------------------- MODULE MCSdk -------------------------------
(* Two goroutines use the package while it is initialised twice.           *)
EXTENDS Sdk, TLC

\* Interchangeable goroutines and spans (safety runs only).
Symmetry == Permutations(Goroutines)
=============================================================================
