----------------------------- MODULE MCFutexBase -----------------------------
(* Model checking of FutexBase: arguments of 3 bits, words of 14.          *)
EXTENDS FutexBase, TLC

Symmetry == Permutations(Threads) \cup Permutations(Words)

(* No step depends on what the latest call was: two states that differ     *)
(* only there have the same future, and each step is judged by itself.     *)
View == << memory, queue >>

Operation(op, shift, oparg, cmp, cmparg) ==
  [op |-> op, shift |-> shift, oparg |-> oparg, cmp |-> cmp, cmparg |-> cmparg]

(* -8192 is the number with the highest bit set and no other.              *)
MCValues == {-8192, -4, 0}

(* The last of the bitsets is negative as an int, and so is the last of    *)
(* the limits.                                                             *)
MCMasks  == {0, 1, 8192}
MCLimits == {0, 1, 8192}

(* A negative number of wake-ups, none, one and more than one.             *)
MCCounts == {-1, 0, 1, 2}

(* Every operation and every comparison, and all kinds of arguments: of    *)
(* three bits 4 is negative, so 124 and 125 (what becomes of -4 and -3 in  *)
(* a uint16_t), 4, 5 and 12 stand for -4, -3, -4, -3 and -4, and 8 for 0.  *)
(* As the number of a bit 7 stands for -1, which names the highest bit.    *)
MCOperations ==
  { Operation("SET", FALSE, 124, "EQ", 0), Operation("ADD", TRUE, 2, "LT", 125),
    Operation("ADD", FALSE, 4, "GT", 12), Operation("OR", FALSE, 12, "NE", 8),
    Operation("ANDN", FALSE, 124, "LE", 3), Operation("XOR", FALSE, 124, "GE", 5),
    Operation("SET", TRUE, 7, "LT", 3) }
=============================================================================
