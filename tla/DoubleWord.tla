----------------------------- MODULE DoubleWord -----------------------------
(***************************************************************************)
(* The double-word primitives of src/concurrentfw/atomic_asm_x86.hpp: load,*)
(* store and compare-and-swap of two adjacent halves, 2 x 64 bit or 2 x 32 *)
(* bit.  Each instruction that touches memory is a step.                   *)
(*                                                                         *)
(* The preprocessor chooses how a translation unit loads and stores:       *)
(*                                                                         *)
(*   movq     2 x 32 bit: one move between memory and a 64 bit register,   *)
(*            in which the halves are shifted apart or together            *)
(*   sse      2 x 64 bit: one aligned 128 bit move (movdqa), which is one  *)
(*            access only on processors with AVX: the others, for which    *)
(*            the library is also built, may take a half at a time         *)
(*   cmpxchg  the fallback                                                 *)
(*                                                                         *)
(* Units built with different forms may share a word, so each call may     *)
(* take any of the forms that are in use.                                  *)
(***************************************************************************)
EXTENDS Integers

CONSTANTS
  Threads,     (* the threads that share the word                          *)
  Half,        (* the number of values of one half; 2^64 or 2^32           *)
  Forms        (* the forms of load and store that are in use              *)

ASSUME FormsAssumption == Forms \subseteq {"movq", "sse", "cmpxchg"}

ASSUME WidthAssumption == Half \in Nat /\ Half > 1

VARIABLES
  memory,      (* the double word, as the number its bytes spell           *)
  pc,          (* per thread: the next instruction of the call it is in    *)
  expected,    (* per thread: rax and rdx, the pair it expects             *)
  desired,     (* per thread: rbx and rcx, the pair it wants to store      *)
  todo,        (* per thread: the halves its SSE move has still to take    *)
  result,      (* per thread: how its last call ended, and what it found   *)
  overtaken,   (* history: the threads in the fallback store that others   *)
               (* have changed the word for since they looked at it        *)
  given        (* history: the first pair and those given to be stored     *)

vars == << memory, pc, expected, desired, todo, result, overtaken, given >>

Halves == 0 .. Half - 1
Words  == 0 .. Half * Half - 1
Pairs  == Halves \X Halves

Zero     == << 0, 0 >>
NoResult == [exchanged |-> FALSE, found |-> Zero]

(* The halves lie in memory one after the other, the low one first.        *)
Low(word)    == word % Half
High(word)   == word \div Half
PairOf(word) == << Low(word), High(word) >>
WordOf(pair) == pair[1] + Half * pair[2]

Init ==
  /\ memory \in Words
  /\ pc = [t \in Threads |-> "idle"]
  /\ expected = [t \in Threads |-> Zero]
  /\ desired = [t \in Threads |-> Zero]
  /\ todo = [t \in Threads |-> {}]
  /\ result = [t \in Threads |-> NoResult]
  /\ overtaken = {}
  /\ given = {PairOf(memory)}

-----------------------------------------------------------------------------
(* The registers of a double-word move: shlq, and shldq, which fills its   *)
(* target from the upper half of the other register.  Whatever was in the  *)
(* upper halves of the registers before, it must not reach memory.         *)
Shl(register) == (register * Half) % (Half * Half)

Shld(into, from) == (into * Half + High(from)) % (Half * Half)

Unpack(rax, rdx) == << Low(rax), Low(Shld(rdx, rax)) >>

(* Mutant of Pack: no shlq, so that shldq takes what is above the half.    *)
PackUnshifted(rbx, rcx) == Shld(rcx, rbx)

Pack(rbx, rcx) == Shld(rcx, Shl(rbx))

(* A register whose lower half holds one half of a pair.                   *)
RegistersWith(half) == {half + Half * upper : upper \in Halves}

-----------------------------------------------------------------------------
(* The caller starts one of the three calls.                               *)
Call(t, step, e, d, halves) ==
  /\ pc[t] = "idle"
  /\ pc' = [pc EXCEPT ![t] = step]
  /\ expected' = [expected EXCEPT ![t] = e]
  /\ desired' = [desired EXCEPT ![t] = d]
  /\ todo' = [todo EXCEPT ![t] = halves]
  /\ result' = [result EXCEPT ![t] = NoResult]
  /\ UNCHANGED << memory, overtaken >>

CallLoad(t) ==
  /\ UNCHANGED given
  /\ \/ "movq" \in Forms /\ Call(t, "load_movq", Zero, Zero, {})
     \/ "sse" \in Forms /\ Call(t, "load_sse", Zero, Zero, {1, 2})
     \/ "cmpxchg" \in Forms /\ Call(t, "load_cmpxchg", Zero, Zero, {})

CallStore(t, d) ==
  /\ given' = given \cup {d}
  /\ \/ "movq" \in Forms /\ Call(t, "store_movq", Zero, d, {})
     \/ "sse" \in Forms /\ Call(t, "store_sse", Zero, d, {1, 2})
     \/ "cmpxchg" \in Forms /\ Call(t, "store_low", Zero, d, {})

CallCas(t, e, d) ==
  /\ given' = given \cup {d}
  /\ Call(t, "cas", e, d, {})

(* The threads for which a write of t to the word comes between their look *)
(* at it and their attempt to exchange it.                                 *)
Overtakes(t) ==
  IF memory' = memory THEN {}
  ELSE {u \in Threads \ {t} : pc[u] \in {"store_high", "store"}}

Return(t, r) ==
  /\ pc' = [pc EXCEPT ![t] = "idle"]
  /\ expected' = [expected EXCEPT ![t] = Zero]
  /\ desired' = [desired EXCEPT ![t] = Zero]
  /\ todo' = [todo EXCEPT ![t] = {}]
  /\ result' = [result EXCEPT ![t] = r]
  /\ overtaken' = (overtaken \ {t}) \cup Overtakes(t)

Found(p) == [exchanged |-> FALSE, found |-> p]

(* One lock cmpxchg16b or cmpxchg8b; old is what it leaves in rax and rdx. *)
CmpXchg(old, e, d) ==
  /\ old = PairOf(memory)
  /\ memory' = IF old = e THEN WordOf(d) ELSE memory

LoadByMove(t) ==
  /\ pc[t] = "load_movq"
  /\ UNCHANGED << memory, given >>
  /\ \E rdx \in Words : Return(t, Found(Unpack(memory, rdx)))

(* The load compares with whatever is in rbx and rcx, and if that happens  *)
(* to be the value in memory stores it again.                              *)
LoadByCmpXchg(t) ==
  /\ pc[t] = "load_cmpxchg"
  /\ \E old, any \in Pairs :
       CmpXchg(old, any, any) /\ Return(t, Found(old))
  /\ UNCHANGED given

StoreByMove(t) ==
  /\ pc[t] = "store_movq"
  /\ \E rbx \in RegistersWith(desired[t][1]),
        rcx \in RegistersWith(desired[t][2]) :
       memory' = Pack(rbx, rcx)
  /\ Return(t, NoResult)
  /\ UNCHANGED given

(* The 128 bit moves: movdqa to an SSE register, whose halves movq and     *)
(* punpckhqdq bring to rax and rdx, or from one that movq and pinsrq have  *)
(* filled.  A processor that takes both halves at once makes two of these  *)
(* steps with nobody in between.                                           *)
LoadSseHalf(t, i) ==
  /\ pc[t] = "load_sse" /\ i \in todo[t]
  /\ UNCHANGED << memory, given >>
  /\ LET found == [expected[t] EXCEPT ![i] = PairOf(memory)[i]] IN
     \/ todo[t] = {i} /\ Return(t, Found(found))
     \/ /\ todo[t] # {i}
        /\ expected' = [expected EXCEPT ![t] = found]
        /\ todo' = [todo EXCEPT ![t] = @ \ {i}]
        /\ UNCHANGED << pc, desired, result, overtaken >>

StoreSseHalf(t, i) ==
  /\ pc[t] = "store_sse" /\ i \in todo[t]
  /\ memory' = WordOf([PairOf(memory) EXCEPT ![i] = desired[t][i]])
  /\ \/ todo[t] = {i} /\ Return(t, NoResult)
     \/ /\ todo[t] # {i}
        /\ todo' = [todo EXCEPT ![t] = @ \ {i}]
        /\ overtaken' = overtaken \cup Overtakes(t)
        /\ UNCHANGED << pc, expected, desired, result >>
  /\ UNCHANGED given

(* The two plain reads of the fallback store, between which memory may     *)
(* change.                                                                 *)
StoreReadLow(t) ==
  /\ pc[t] = "store_low"
  /\ expected' = [expected EXCEPT ![t] = << Low(memory), @[2] >>]
  /\ pc' = [pc EXCEPT ![t] = "store_high"]
  /\ UNCHANGED << memory, desired, todo, result, overtaken, given >>

(* Mutant of StoreReadHigh: the offset of the low half.                    *)
StoreReadLowAgain(t) ==
  /\ pc[t] = "store_high"
  /\ expected' = [expected EXCEPT ![t] = << @[1], Low(memory) >>]
  /\ pc' = [pc EXCEPT ![t] = "store"]
  /\ UNCHANGED << memory, desired, todo, result, overtaken, given >>

StoreReadHigh(t) ==
  /\ pc[t] = "store_high"
  /\ expected' = [expected EXCEPT ![t] = << @[1], High(memory) >>]
  /\ pc' = [pc EXCEPT ![t] = "store"]
  /\ UNCHANGED << memory, desired, todo, result, overtaken, given >>

(* Mutant of StoreByCmpXchg: the loop goes on with what it first read.     *)
StoreStale(t) ==
  /\ pc[t] = "store"
  /\ \E old \in Pairs :
       /\ CmpXchg(old, expected[t], desired[t])
       /\ \/ old = expected[t] /\ Return(t, NoResult)
          \/ /\ old # expected[t]
             /\ UNCHANGED << pc, expected, desired, todo, result, overtaken >>
  /\ UNCHANGED given

(* The loop of the store: it ends when the word was as expected, and goes  *)
(* on with what it found otherwise.                                        *)
StoreByCmpXchg(t) ==
  /\ pc[t] = "store"
  /\ \E old \in Pairs :
       /\ CmpXchg(old, expected[t], desired[t])
       /\ \/ old = expected[t] /\ Return(t, NoResult)
          \/ /\ old # expected[t]
             /\ expected' = [expected EXCEPT ![t] = old]
             /\ overtaken' = overtaken \ {t}
             /\ UNCHANGED << pc, desired, todo, result >>
  /\ UNCHANGED given

(* atomic_dw_cas, which returns the flag z and what it found.              *)
Cas(t) ==
  /\ pc[t] = "cas"
  /\ \E old \in Pairs :
       /\ CmpXchg(old, expected[t], desired[t])
       /\ Return(t, [exchanged |-> old = expected[t], found |-> old])
  /\ UNCHANGED given

-----------------------------------------------------------------------------
Step(t) ==
  \/ LoadByMove(t) \/ StoreByMove(t)
  \/ \E i \in {1, 2} : LoadSseHalf(t, i) \/ StoreSseHalf(t, i)
  \/ LoadByCmpXchg(t)
  \/ StoreReadLow(t) \/ StoreReadHigh(t) \/ StoreByCmpXchg(t)
  \/ Cas(t)

Next ==
  \E t \in Threads :
    \/ CallLoad(t)
    \/ \E d \in Pairs : CallStore(t, d) \/ \E e \in Pairs : CallCas(t, e, d)
    \/ Step(t)

Spec == Init /\ [][Next]_vars

(* Every thread that is in a call is scheduled.                            *)
FairSpec == Spec /\ \A t \in Threads : WF_vars(Step(t))

-----------------------------------------------------------------------------
(* The types of the variables; what a move stores fits the word, whatever  *)
(* the registers held besides.                                             *)
TypeOK ==
  /\ memory \in Words
  /\ pc \in [Threads -> {"idle", "load_movq", "load_sse", "load_cmpxchg",
                         "store_movq", "store_sse", "store_low", "store_high",
                         "store", "cas"}]
  /\ expected \in [Threads -> Pairs]
  /\ desired \in [Threads -> Pairs]
  /\ todo \in [Threads -> SUBSET {1, 2}]
  /\ result \in [Threads -> [exchanged : BOOLEAN, found : Pairs]]
  /\ overtaken \subseteq Threads
  /\ given \subseteq Pairs

(* The fallback store is refused only if another thread has changed the    *)
(* word since it last looked, which for its first attempt is since it read *)
(* the first half: its two plain reads are no reason of their own to fail, *)
(* and with nobody else at the word the first attempt stores.              *)
RefusedOnlyIfOvertaken ==
  [][\A t \in Threads :
       pc[t] = "store" /\ pc'[t] = "store" /\ expected'[t] # expected[t]
         => t \in overtaken]_vars

(* What a load or an exchange finds is the pair that was there in the      *)
(* beginning or one that some call was given, not halves of two, as the    *)
(* comments on the two movdqa say of their forms ("128 bit aligned SSE     *)
(* read, atomic", "128 bit aligned SSE write, atomic").  CMakeLists.txt,   *)
(* which turns these on for all processors from x86-64-v2, has its doubts: *)
(* "probably needs AVX to be atomic".                                      *)
NothingTorn ==
  [][\A t \in Threads :
       pc[t] \in {"load_movq", "load_sse", "load_cmpxchg", "cas"} /\ pc'[t] = "idle"
         => result'[t].found \in given]_vars

(* A store stays in its loop only as long as others keep changing the      *)
(* word: one torn or outdated read cannot keep it there.                   *)
StoreGetsThrough ==
  \A t \in Threads :
    <>[](pc[t] \in {"store_low", "store_high", "store"})
      => []<><<memory' # memory>>_vars

-----------------------------------------------------------------------------
(* The abstract call that a thread is in.                                  *)
OpOf(step) ==
  CASE step \in {"load_movq", "load_cmpxchg"} -> "load"
    [] step \in {"store_movq", "store_low", "store_high", "store"} -> "store"
    [] step = "load_sse"  -> "split_load"
    [] step = "store_sse" -> "split_store"
    [] OTHER -> step

CallOf(t) ==
  LET op == OpOf(pc[t]) IN
  [op |-> op,
   expected |-> IF op \in {"cas", "split_load"} THEN expected[t] ELSE Zero,
   desired |-> desired[t],
   todo |-> todo[t]]

P == INSTANCE AtomicPair WITH
       Splits <- "sse" \in Forms,
       pair <- PairOf(memory), call <- [t \in Threads |-> CallOf(t)]

(* Loads and stores by movq or by cmpxchg and all exchanges take effect at *)
(* one instant: no load sees halves of two stores, no store loses one of   *)
(* its halves, and the slow forms do what the fast ones do.  Those by SSE  *)
(* take each half at one instant, and write nothing but the halves.        *)
ImplementsAtomicPair == P!Spec
=============================================================================
