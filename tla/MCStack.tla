------------------------------ MODULE MCStack ------------------------------
(* Model checking of Stack: the symmetry that its safety runs use.         *)
EXTENDS Stack, TLC

(* Threads and blocks are interchangeable: no action names one.            *)
Symmetry == Permutations(Threads) \cup Permutations(Blocks)
=============================================================================
