---------------------------- MODULE FutexOrdering ----------------------------
(***************************************************************************)
(* The memory orders of the Futex class: which accesses of one owner to    *)
(* the data that the lock protects happen before those of the next.        *)
(*                                                                         *)
(* Module Futex takes the accesses to the word one after the other; that   *)
(* is right for one word, whose modification order is total.  Here each    *)
(* step also says what its memory order makes its thread know.  An owner   *)
(* is taken to write to the data before it unlocks.  A thread is current   *)
(* if all writes so far happen before its next step.                       *)
(*                                                                         *)
(* A release makes the word carry what its thread knows, and an acquire    *)
(* that reads the word gets what it carries.  Exchanges, increments and    *)
(* decrements by any thread keep what the word carries (they extend the    *)
(* release sequence); a plain store ends it, unless StoresExtend and the   *)
(* storing thread is the one that did the release: C++11 has that rule,    *)
(* which the __atomic built-ins of atomic.hpp follow, C++20 has dropped it.*)
(***************************************************************************)
EXTENDS Futex

CONSTANT
  StoresExtend (* whether a store extends its thread's release sequence    *)

ASSUME RuleAssumption == StoresExtend \in BOOLEAN

VARIABLES
  current,     (* the threads that know all writes to the data             *)
  carries,     (* whether an acquire that reads the word makes current     *)
  head         (* the thread whose release heads the release sequence      *)

orderVars == << current, carries, head >>
allVars == << vars, orderVars >>

(* Whoever constructs the futex hands it to the other threads properly, so *)
(* that all of them know what was written before.                          *)
OrderedInit ==
  /\ Init
  /\ current = Threads
  /\ carries = TRUE
  /\ head = NoThread

-----------------------------------------------------------------------------
(* Memory order ACQUIRE of an access that reads the word and writes it.    *)
Acquire(t) ==
  /\ current' = IF carries THEN current \cup {t} ELSE current
  /\ UNCHANGED << carries, head >>

Relaxed == UNCHANGED orderVars

(* Mutant of Release: the fetch_sub of unlock() is relaxed.                *)
ReleaseNothing(t) ==
  /\ current' = {t}
  /\ carries' = FALSE
  /\ UNCHANGED head

(* Memory order RELEASE of an access that reads the word and writes it,    *)
(* after the thread has written to the data.                               *)
Release(t) ==
  /\ current' = {t}
  /\ carries' = (t \in current)
  /\ head' = t

(* A relaxed store: it carries nothing of its own.                         *)
StoreRelaxed(t) ==
  /\ carries' = (carries /\ StoresExtend /\ head = t)
  /\ UNCHANGED << current, head >>

(* compare_exchange_strong<ACQUIRE, RELAXED>: acquires if it succeeds.     *)
OrderedCall(t) ==
  /\ Call(t)
  /\ \/ value = UNLOCKED /\ Acquire(t)
     \/ value # UNLOCKED /\ Relaxed

(* The system calls on the word order nothing.                             *)
OrderedAdvance(t) ==
  \/ Exchange(t) /\ Acquire(t)
  \/ (FutexWait(t) \/ TimedOut(t) \/ FutexWake(t)) /\ Relaxed
  \/ Unlock(t) /\ Release(t)
  \/ Store(t) /\ StoreRelaxed(t)

OrderedNext ==
  \E t \in Threads :
    \/ OrderedCall(t) \/ OrderedAdvance(t)
    \/ Disturb(t) /\ Relaxed

OrderedSpec == OrderedInit /\ [][OrderedNext]_allVars

-----------------------------------------------------------------------------
OrderTypeOK ==
  /\ current \in SUBSET Threads
  /\ carries \in BOOLEAN
  /\ head \in Threads \cup {NoThread}

(* Critical sections are ordered by happens-before: whoever got the lock,  *)
(* by whichever call and with or without having slept, knows all that      *)
(* earlier owners wrote; in a slow unlock() the relaxed store of wake()    *)
(* must still pass on what the fetch_sub before it released.               *)
OwnersAreCurrent == holding \subseteq current
=============================================================================
