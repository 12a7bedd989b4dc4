---------------------------- MODULE SysconfProofs ----------------------------
(***************************************************************************)
(* Proofs about Sysconf for any number of threads, any size_t, any limit   *)
(* and any errors.                                                         *)
(*                                                                         *)
(* Answered follows errno through a call: it is zero when ::sysconf() is   *)
(* asked, so that what is read after it tells an error from a limit that   *)
(* the system does not have.                                               *)
(***************************************************************************)
EXTENDS Sysconf, TLAPS

Answered ==
  \A t \in Threads :
    /\ pc[t] = "ask" => errno[t] = 0
    /\ pc[t] \in {"guard", "reset", "ask"} => t \notin failed
    /\ pc[t] = "check" =>
         \/ t \in failed /\ result[t] = Indeterminate /\ errno[t] # 0
         \/ /\ t \notin failed /\ result[t] = limit
            /\ limit = Indeterminate => errno[t] = 0

(* Pending calls have no answer yet, which Call and Return keep.           *)
NoneYet == \A t \in Threads : pc[t] # "idle" => ret[t] = Pending

StaticIsLimit == guard = "set" => value = Cast(limit)

Answers ==
  \A t \in Threads : ret[t].how = "value" => ret[t].size = Cast(limit)

Inv ==
  TypeOK /\ Answered /\ NoneYet /\ StaticIsLimit /\ Answers /\ ThrowsOnlyItsError

-----------------------------------------------------------------------------
LEMMA CastIsASize ==
  ASSUME NEW l \in Limits \cup {Indeterminate}
  PROVE  Cast(l) \in Sizes
BY SysconfAssumption DEF Cast, Sizes, Indeterminate

(* The cast of an indeterminate limit is the largest size_t, that of any   *)
(* other is the limit itself.                                              *)
LEMMA CastOfLimit ==
  ASSUME NEW l \in Limits \cup {Indeterminate}
  PROVE  Cast(l) = IF l = Indeterminate THEN SizeMod - 1 ELSE l
PROOF
  <1>1. CASE l = Indeterminate
    <2>1. SizeMod - 1 \in 0 .. SizeMod - 1 /\ -1 = SizeMod * (-1) + (SizeMod - 1)
      BY SysconfAssumption
    <2> QED BY <1>1, <2>1, SysconfAssumption DEF Cast, Indeterminate
  <1>2. CASE l # Indeterminate
    BY <1>2, SysconfAssumption DEF Cast, Indeterminate
  <1> QED BY <1>1, <1>2

LEMMA InitEstablishesInv == Init => Inv
BY SysconfAssumption DEF Init, Inv, TypeOK, Answered, NoneYet, StaticIsLimit,
   Answers, ThrowsOnlyItsError, Pending, Sizes

LEMMA CallPreserves ==
  ASSUME Inv, NEW t \in Threads, Call(t)
  PROVE  Inv'
PROOF
  <1>1. TypeOK'
    BY SysconfAssumption DEF Call, Inv, TypeOK, Pending, Sizes
  <1>2. Answered' /\ NoneYet' /\ StaticIsLimit' /\ Answers' /\ ThrowsOnlyItsError'
    BY DEF Call, Inv, TypeOK, Answered, NoneYet, StaticIsLimit, Answers,
           ThrowsOnlyItsError, Pending
  <1> QED BY <1>1, <1>2 DEF Inv

LEMMA EnterPreserves ==
  ASSUME Inv, NEW t \in Threads, Enter(t)
  PROVE  Inv'
PROOF
  <1>1. TypeOK'
    <2>1. CASE guard = "unset"
      BY <2>1 DEF Enter, Inv, TypeOK
    <2>2. CASE guard = "set"
      <3>1. [how |-> "value", size |-> value]
              \in [how : {"none", "value", "throw"}, size : Sizes]
        BY DEF Inv, TypeOK
      <3> QED BY <2>2, <3>1 DEF Enter, Return, Inv, TypeOK
    <2> QED BY <2>1, <2>2 DEF Enter
  <1>2. Answered' /\ NoneYet' /\ StaticIsLimit' /\ Answers' /\ ThrowsOnlyItsError'
    BY DEF Enter, Return, Inv, TypeOK, Answered, NoneYet, StaticIsLimit, Answers,
           ThrowsOnlyItsError, Pending
  <1> QED BY <1>1, <1>2 DEF Inv

LEMMA ResetPreserves ==
  ASSUME Inv, NEW t \in Threads, ResetErrno(t)
  PROVE  Inv'
BY DEF ResetErrno, Inv, TypeOK, Answered, NoneYet, StaticIsLimit, Answers,
       ThrowsOnlyItsError

LEMMA AskPreserves ==
  ASSUME Inv, NEW t \in Threads, Ask(t)
  PROVE  Inv'
PROOF
  <1>1. TypeOK'
    BY DEF Ask, Inv, TypeOK
  <1>2. Answered'
    BY SysconfAssumption DEF Ask, Inv, TypeOK, Answered
  <1>3. NoneYet' /\ StaticIsLimit' /\ Answers' /\ ThrowsOnlyItsError'
    BY DEF Ask, Inv, TypeOK, NoneYet, StaticIsLimit, Answers, ThrowsOnlyItsError
  <1> QED BY <1>1, <1>2, <1>3 DEF Inv

LEMMA ThrowPreserves ==
  ASSUME Inv, NEW t \in Threads, Throw(t)
  PROVE  Inv'
PROOF
  <1>1. TypeOK'
    BY SysconfAssumption DEF Throw, Return, Inv, TypeOK, Thrown, Sizes
  <1>2. t \in failed
    BY DEF Throw, Inv, Answered, Indeterminate
  <1>3. Answered' /\ NoneYet' /\ StaticIsLimit' /\ Answers' /\ ThrowsOnlyItsError'
    BY <1>2 DEF Throw, Return, Inv, TypeOK, Answered, NoneYet, StaticIsLimit,
                Answers, ThrowsOnlyItsError, Thrown
  <1> QED BY <1>1, <1>3 DEF Inv

LEMMA ReturnSizePreserves ==
  ASSUME Inv, NEW t \in Threads, ReturnSize(t)
  PROVE  Inv'
PROOF
  <1>1. result[t] = limit /\ Cast(result[t]) \in Sizes
    BY CastIsASize DEF ReturnSize, Inv, TypeOK, Answered, Indeterminate
  <1>2. TypeOK'
    BY <1>1 DEF ReturnSize, Return, Inv, TypeOK
  <1>3. Answered' /\ NoneYet' /\ StaticIsLimit' /\ Answers' /\ ThrowsOnlyItsError'
    BY <1>1 DEF ReturnSize, Return, Inv, TypeOK, Answered, NoneYet, StaticIsLimit,
                Answers, ThrowsOnlyItsError
  <1> QED BY <1>2, <1>3 DEF Inv

LEMMA NextPreservesInv == Inv /\ [Next]_vars => Inv'
PROOF
  <1>1. Inv /\ UNCHANGED vars => Inv'
    BY DEF Inv, vars, TypeOK, Answered, NoneYet, StaticIsLimit, Answers,
           ThrowsOnlyItsError
  <1> QED BY <1>1, CallPreserves, EnterPreserves, ResetPreserves, AskPreserves,
             ThrowPreserves, ReturnSizePreserves DEF Next, Step

-----------------------------------------------------------------------------
LEMMA SpecInv == Spec => []Inv
BY InitEstablishesInv, NextPreservesInv, PTL DEF Spec

(* All callers get the same answer, through the static or without it.      *)
THEOREM AllAnswersAreTheLimit == Spec => []OneAnswer
PROOF
  <1>1. Inv => OneAnswer
    BY CastOfLimit DEF Inv, Answers, TypeOK, OneAnswer
  <1> QED BY <1>1, SpecInv, PTL

(* Nobody throws for an error that is not of its own call.                 *)
THEOREM OnlyOwnErrorsThrow == Spec => []ThrowsOnlyItsError
BY SpecInv, PTL DEF Inv
=============================================================================
