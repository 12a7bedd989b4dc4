---------------------------- MODULE FutexLifetime ----------------------------
(***************************************************************************)
(* The end of a Futex (src/concurrentfw/futex.hpp): its destructor does    *)
(* nothing (a TODO there would have it look for blocked threads), and      *)
(* wake() goes on to FUTEX_WAKE after it has freed the word.               *)
(*                                                                         *)
(* The client is the one for which this is hardest: the lock lives in an   *)
(* object with a count of references that the lock protects.  A thread     *)
(* gives up its reference before it unlocks for the last time, and who     *)
(* finds that it was the last one destroys the object, lock and all, as    *)
(* soon as its own unlock() has returned.                                  *)
(***************************************************************************)
EXTENDS Futex

VARIABLES
  refs,        (* the threads with a reference to the object               *)
  destroyer,   (* the thread that gave up the last one                     *)
  alive        (* ~Futex() has not run                                     *)

lifeVars == << vars, refs, destroyer, alive >>

LifeInit ==
  /\ Init
  /\ refs = Threads
  /\ destroyer = NoThread
  /\ alive = TRUE

(* Who has a reference may call; the rest of a call follows.               *)
Use(t) ==
  /\ \/ t \in refs /\ Call(t)
     \/ Advance(t) \/ Disturb(t)
  /\ UNCHANGED << refs, destroyer, alive >>

(* The last critical section of a thread.                                  *)
GiveUpReference(t) ==
  /\ t \in refs
  /\ Unlock(t)
  /\ refs' = refs \ {t}
  /\ destroyer' = IF refs = {t} THEN t ELSE NoThread
  /\ UNCHANGED alive

Destroy(t) ==
  /\ destroyer = t
  /\ pc[t] = "idle"
  /\ alive
  /\ alive' = FALSE
  /\ UNCHANGED << vars, refs, destroyer >>

LifeNext == \E t \in Threads : Use(t) \/ GiveUpReference(t) \/ Destroy(t)

LifeSpec == LifeInit /\ [][LifeNext]_lifeVars

(* Every thread is scheduled, the kernel's timers expire, and critical     *)
(* sections end, some of them the last one of their thread.  Nothing is    *)
(* assumed about who starts calls, about which sleeper FUTEX_WAKE picks,   *)
(* or about signals and errors.                                            *)
LifeAdvance(t) ==
  \/ Advance(t) /\ UNCHANGED << refs, destroyer, alive >>
  \/ GiveUpReference(t)

LifeFairSpec == LifeSpec /\ \A t \in Threads : WF_lifeVars(LifeAdvance(t))

-----------------------------------------------------------------------------
(* Once the lock is destroyed no thread sleeps on it, and none will read   *)
(* or write its word again.  All that may still come is the FUTEX_WAKE of  *)
(* an unlock() that freed the word earlier: it gives the kernel an address *)
(* that is not the lock's any more, which may be an error to it, or wake a *)
(* stranger.                                                               *)
UntouchedOnceDestroyed ==
  ~alive => \A t \in Threads : pc[t] \in {"idle", "futex_wake"}
=============================================================================
