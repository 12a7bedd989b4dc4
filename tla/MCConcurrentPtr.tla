--------------------------- MODULE MCConcurrentPtr ---------------------------
(* Model checking of ConcurrentPtr: the symmetry that its runs use.        *)
EXTENDS ConcurrentPtr, TLC

(* Threads and targets are interchangeable: no action names one.           *)
Symmetry == Permutations(Threads) \cup Permutations(Targets)
=============================================================================
