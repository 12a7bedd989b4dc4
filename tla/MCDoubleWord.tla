---------------------------- MODULE MCDoubleWord ----------------------------
(* Model checking of DoubleWord: the symmetry that its safety runs use.    *)
EXTENDS DoubleWord, TLC

(* Threads are interchangeable: no action names one.                       *)
Symmetry == Permutations(Threads)
=============================================================================
