--------------------------- MODULE MCFutexSystem ---------------------------
(* Model checking of FutexSystem: one other word, arguments of 3 bits.     *)
EXTENDS FutexSystem, TLC

Symmetry == Permutations(Threads)

(* No step depends on what the latest call was: two states that differ     *)
(* only there have the same future.                                        *)
View == << vars, others, queue >>

(* The target becomes 1, and threads wake there too if it was not.         *)
MCOperations ==
  { [op |-> "SET", shift |-> FALSE, oparg |-> 1, cmp |-> "NE", cmparg |-> 1] }
=============================================================================
