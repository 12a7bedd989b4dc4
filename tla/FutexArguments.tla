--------------------------- MODULE FutexArguments ---------------------------
(***************************************************************************)
(* The calls of FutexBase (src/concurrentfw/futex.hpp) and their           *)
(* parameters: the numbers in them, int and uint32_t, and the operations   *)
(* and comparisons that futex_wake_op has done to a word.                  *)
(***************************************************************************)
EXTENDS Integers, FiniteSets

CONSTANTS
  Words,       (* the addresses of the futex words                         *)
  ArgMod,      (* an argument of FUTEX_WAKE_OP counts modulo this: 2^12    *)
  WordBits,    (* the bits of an int: 32                                   *)
  Values,      (* the values the callers keep in their words               *)
  Masks,       (* the bitsets they wait and wake with                      *)
  Counts,      (* how many threads they ask to be woken                    *)
  Limits,      (* how many threads they ask to be moved, or to be woken on *)
               (* the second word of futex_wake_op                         *)
  Operations   (* the operations they ask for                              *)

ASSUME ArgAssumption == ArgMod \in Nat /\ ArgMod > 1 /\ ArgMod % 2 = 0

(* 32 bits: two arguments and the 8 bits of shift, op and cmp.             *)
WordMod == 256 * (ArgMod * ArgMod)

ToSigned(x, mod) == IF 2 * x < mod THEN x ELSE x - mod

Int32(x) == ToSigned(x, WordMod)
UInt32(x) == IF x < 0 THEN x + WordMod ELSE x

ASSUME BitsAssumption == WordBits \in Nat /\ 2 ^ WordBits = WordMod

Ints    == -(WordMod \div 2) .. WordMod \div 2 - 1
UInts   == 0 .. WordMod - 1
AllBits == WordMod - 1

(* The arguments of an operation as the caller gives them: uint16_t, of    *)
(* which 12 bits are used.                                                 *)
UInt16s == 0 .. 16 * ArgMod - 1

OpNames  == << "SET", "ADD", "OR", "ANDN", "XOR" >>
CmpNames == << "EQ", "NE", "LT", "LE", "GT", "GE" >>

(* What FUTEX_WAKE_OP does to a word: apply op with oparg, or with the bit *)
(* of that number, and compare the old value with cmparg.                  *)
OperationType ==
  [op : {OpNames[i] : i \in 1 .. 5}, shift : BOOLEAN, oparg : UInt16s,
   cmp : {CmpNames[i] : i \in 1 .. 6}, cmparg : UInt16s]

(* The lower 12 bits of an argument, as a signed number.                   *)
Signed(arg) == ToSigned(arg % ArgMod, ArgMod)

(* An operation with the numbers that its arguments stand for.             *)
Meaning(o) ==
  [op |-> o.op, shift |-> o.shift, oparg |-> Signed(o.oparg),
   cmp |-> o.cmp, cmparg |-> Signed(o.cmparg)]

And[a \in Nat, b \in Nat] ==
  IF a = 0 \/ b = 0 THEN 0
  ELSE (a % 2) * (b % 2) + 2 * And[a \div 2, b \div 2]

(* Two bitsets with a bit in common.                                       *)
Overlap(a, b) == And[a, b] # 0

(* Of a bit's number only the last 5 bits count (& 31).                    *)
Apply(o, old) ==
  LET a == UInt32(old)
      b == UInt32(IF o.shift THEN Int32(2 ^ (o.oparg % WordBits)) ELSE o.oparg)
      new == CASE o.op = "SET"  -> b
               [] o.op = "ADD"  -> a + b
               [] o.op = "OR"   -> a + b - And[a, b]
               [] o.op = "ANDN" -> a - And[a, b]
               [] o.op = "XOR"  -> a + b - 2 * And[a, b]
  IN Int32(new % WordMod)

Compare(o, old) ==
  CASE o.cmp = "EQ" -> old = o.cmparg
    [] o.cmp = "NE" -> old # o.cmparg
    [] o.cmp = "LT" -> old < o.cmparg
    [] o.cmp = "LE" -> old <= o.cmparg
    [] o.cmp = "GT" -> old > o.cmparg
    [] o.cmp = "GE" -> old >= o.cmparg

-----------------------------------------------------------------------------
ASSUME CallsAssumption ==
  /\ Values \subseteq Ints
  /\ Masks \subseteq UInts
  /\ Counts \subseteq Ints
  /\ Limits \subseteq UInts
  /\ Operations \subseteq OperationType

Calls ==
  [fn : {"futex_wait"}, word : Words, expected : Values, timed : BOOLEAN] \cup
  [fn : {"futex_wait_bitset"}, word : Words, expected : Values, timed : BOOLEAN,
   mask : Masks] \cup
  [fn : {"futex_wake"}, word : Words, wakeups : Counts] \cup
  [fn : {"futex_wake_bitset"}, word : Words, wakeups : Counts, mask : Masks] \cup
  [fn : {"futex_cmp_requeue"}, word : Words, wakeups : Counts, limit : Limits,
   target : Words, expected : Values] \cup
  [fn : {"futex_wake_op"}, word : Words, wakeups : Counts, wakeups2 : Limits,
   target : Words, operation : Operations]

NoCall == [fn |-> "none"]

(* The ways to pick n threads of S, or all of them if there are fewer.     *)
SomeOf(S, n) ==
  {W \in SUBSET S :
     Cardinality(W) = IF n < Cardinality(S) THEN n ELSE Cardinality(S)}
=============================================================================
