---------------------------- MODULE ExclusivePair ----------------------------
(***************************************************************************)
(* The exclusive loads and stores of a pair of words, and the abort, of    *)
(* src/concurrentfw/atomic_asm_arm.hpp.  Nothing else in the library calls *)
(* the pairs: a caller here loads, stores and aborts in any order, with    *)
(* any values.                                                             *)
(*                                                                         *)
(* There are two builds of a pair.  AArch64 has an instruction for two     *)
(* registers; of two 64 bit words it reads each by itself, and only the    *)
(* exclusive store tells whether they belong together.  32 bit Arm moves   *)
(* two words as one 64 bit number, whose halves are the words.  Each call  *)
(* may take either form, which allows more than any one platform does.     *)
(***************************************************************************)
EXTENDS Integers

CONSTANTS
  Threads,     (* the threads that share the pair                          *)
  Half         (* the number of values of one word; 2^32 or 2^64           *)

ASSUME HalfAssumption == Half \in Nat /\ Half > 1

Halves  == 0 .. Half - 1
Pairs   == Halves \X Halves
NoPair  == << >>

VARIABLES
  atomic,      (* the two words                                            *)
  monitor,     (* the threads whose exclusive monitor is set               *)
  unread,      (* per thread: the words its load has still to read         *)
  transfer,    (* per thread: the words its load has read so far           *)
  loaded,      (* per thread: what its last load delivered, if it has      *)
               (* neither stored nor aborted since                         *)
  stored       (* history: if the last step was a store that returned      *)
               (* true, whose, and of what                                 *)

vars == << atomic, monitor, unread, transfer, loaded, stored >>

Zero      == << 0, 0 >>
NotStored == [by |-> {}, what |-> Zero]

Init ==
  /\ atomic \in Pairs
  /\ monitor = {}
  /\ unread = [t \in Threads |-> {}]
  /\ transfer = [t \in Threads |-> Zero]
  /\ loaded = [t \in Threads |-> NoPair]
  /\ stored = NotStored

-----------------------------------------------------------------------------
(* The 64 bit number between two words and a register pair: the first word *)
(* is its low half, in memory as in the register %Q.                       *)
Register(pair) == pair[1] + (Half * pair[2])

Unpack(number) == << number % Half, (number \div Half) % Half >>

Pack(pair) == pair[1] + (Half * pair[2])

Memory(number) == << number % Half, number \div Half >>

Idle(t) == unread[t] = {}

(* The load is over, and the caller has the pair.                          *)
Deliver(t, pair) ==
  /\ loaded' = [loaded EXCEPT ![t] = pair]
  /\ transfer' = [transfer EXCEPT ![t] = Zero]
  /\ unread' = [unread EXCEPT ![t] = {}]

(* ldaexd, or ldrexd and dmb: both words at once, taken apart after it.    *)
LoadRegisterPair(t) ==
  /\ Idle(t)
  /\ Deliver(t, Unpack(Register(atomic)))
  /\ monitor' = monitor \cup {t}
  /\ stored' = NotStored
  /\ UNCHANGED atomic

(* ldaxp: either word first, and the monitor is set with it.               *)
LoadFirst(t) ==
  /\ Idle(t)
  /\ \E i \in {1, 2} :
       /\ transfer' = [transfer EXCEPT ![t][i] = atomic[i]]
       /\ unread' = [unread EXCEPT ![t] = {1, 2} \ {i}]
  /\ monitor' = monitor \cup {t}
  /\ loaded' = [loaded EXCEPT ![t] = NoPair]
  /\ stored' = NotStored
  /\ UNCHANGED atomic

(* Mutant of LoadSecond: an exclusive load of its own, which sets the      *)
(* monitor again.                                                          *)
LoadSecondExclusive(t) ==
  /\ \E i \in unread[t] : Deliver(t, [transfer[t] EXCEPT ![i] = atomic[i]])
  /\ monitor' = monitor \cup {t}
  /\ stored' = NotStored
  /\ UNCHANGED atomic

(* ldaxp, the other word.                                                  *)
LoadSecond(t) ==
  /\ \E i \in unread[t] : Deliver(t, [transfer[t] EXCEPT ![i] = atomic[i]])
  /\ stored' = NotStored
  /\ UNCHANGED << atomic, monitor >>

(* A store-exclusive that succeeds clears every monitor: its own, and      *)
(* those of the threads that loaded the pair before it changed.            *)
StoreSucceeds(t, pair) ==
  /\ Idle(t)
  /\ t \in monitor
  /\ \/ atomic' = pair                     (* stlxp          *)
     \/ atomic' = Memory(Pack(pair))       (* stlexd, strexd *)
  /\ monitor' = {}
  /\ loaded' = [loaded EXCEPT ![t] = NoPair]
  /\ stored' = [by |-> {t}, what |-> pair]
  /\ UNCHANGED << unread, transfer >>

(* It fails without a monitor, and with one it may fail for no reason.     *)
StoreFails(t) ==
  /\ Idle(t)
  /\ monitor' = monitor \ {t}
  /\ loaded' = [loaded EXCEPT ![t] = NoPair]
  /\ stored' = NotStored
  /\ UNCHANGED << atomic, unread, transfer >>

(* Mutant of Abort: the monitor stays set.                                 *)
AbortNothing(t) ==
  /\ Idle(t)
  /\ loaded' = [loaded EXCEPT ![t] = NoPair]
  /\ stored' = NotStored
  /\ UNCHANGED << atomic, monitor, unread, transfer >>

(* clrex; the address that the caller names makes no difference.           *)
Abort(t) ==
  /\ Idle(t)
  /\ monitor' = monitor \ {t}
  /\ loaded' = [loaded EXCEPT ![t] = NoPair]
  /\ stored' = NotStored
  /\ UNCHANGED << atomic, unread, transfer >>

-----------------------------------------------------------------------------
Next ==
  \E t \in Threads :
    \/ LoadRegisterPair(t) \/ LoadFirst(t) \/ LoadSecond(t)
    \/ \E pair \in Pairs : StoreSucceeds(t, pair)
    \/ StoreFails(t) \/ Abort(t)

Spec == Init /\ [][Next]_vars

-----------------------------------------------------------------------------
(* The types of the variables.                                             *)
TypeOK ==
  /\ atomic \in Pairs
  /\ monitor \in SUBSET Threads
  /\ unread \in [Threads -> SUBSET {1, 2}]
  /\ transfer \in [Threads -> Pairs]
  /\ loaded \in [Threads -> Pairs \cup {NoPair}]
  /\ stored \in [by : SUBSET Threads, what : Pairs]

(* A monitor that is still set vouches for what its thread has read: what  *)
(* ldaxp has delivered is the pair in memory, both words of it, and of a   *)
(* load that is half done the word it has is still there.                  *)
MonitorMeansCurrent ==
  \A t \in monitor :
    /\ Idle(t) => loaded[t] = atomic
    /\ ~Idle(t) => \A i \in {1, 2} \ unread[t] : transfer[t][i] = atomic[i]

(* A store that returns true exchanged the very pair that its thread had   *)
(* loaded, both words of it, for the very pair it was given, even if the   *)
(* words it had loaded were read at different times; without a load since  *)
(* its last store or abort it never does.  No other step changes the pair. *)
ExchangesWhatWasLoaded ==
  [][ IF stored'.by = {}
      THEN UNCHANGED atomic
      ELSE /\ \A t \in stored'.by : atomic = loaded[t]
           /\ atomic' = stored'.what ]_vars
=============================================================================
