--------------------------- MODULE MCFutexOrdering ---------------------------
(* Model checking of FutexOrdering: the symmetry that its run uses.        *)
EXTENDS FutexOrdering, TLC

(* Threads are interchangeable: no action names one.                       *)
Symmetry == Permutations(Threads)
=============================================================================
