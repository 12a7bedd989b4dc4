------------------------------- MODULE Futex -------------------------------
(***************************************************************************)
(* The Futex class (src/concurrentfw/futex.hpp, src/futex.cpp): a mutex in *)
(* one 32 bit word, and the Linux futex system calls it sleeps and wakes   *)
(* with.  Every step below is one access to the word or one system call,   *)
(* so that the steps of different threads interleave as the machine        *)
(* interleaves them; local computation is folded into the step before it.  *)
(*                                                                         *)
(* The caller keeps the contract of the class: only the thread that got    *)
(* the lock unlocks it, and a thread that owns it calls trylock() or       *)
(* trylock_timeout() on it (as test_futex.cpp does) but never lock().      *)
(***************************************************************************)
EXTENDS Integers

CONSTANTS
  Threads,     (* the threads that share the futex                         *)
  NoThread     (* stands for "no owner" in the refinement of Mutex         *)

ASSUME NoThreadAssumption == NoThread \notin Threads

UNLOCKED         == 0
LOCKED_NOWAITERS == 1
LOCKED_WAITERS   == 2

VARIABLES
  value,       (* FutexBase::value, the futex word                         *)
  pc,          (* per thread: the next step of the call it is in           *)
  waiting,     (* per thread: which waiting call it is in, or "none"       *)
  ret,         (* per thread: how its last acquiring call ended            *)
  holding,     (* history: the threads that got the lock and have not      *)
               (* called unlock() since                                    *)
  wakeFailed   (* history: some wake() threw after freeing the word        *)

vars == << value, pc, waiting, ret, holding, wakeFailed >>

WaitSteps == {"exchange", "futex_wait", "asleep"}
WakeSteps == {"store", "futex_wake"}

(* The threads in the kernel's wait queue of the futex word.               *)
Sleepers == {t \in Threads : pc[t] = "asleep"}

(* The threads inside the lock: a slow unlock() is still inside until      *)
(* wake() has stored UNLOCKED.                                             *)
Owners == holding \cup {t \in Threads : pc[t] = "store"}

(* The constructors: unlocked, or locked by the constructing thread.       *)
Init ==
  /\ \/ value = UNLOCKED /\ holding = {}
     \/ value = LOCKED_NOWAITERS /\ \E t \in Threads : holding = {t}
  /\ pc = [t \in Threads |-> "idle"]
  /\ waiting = [t \in Threads |-> "none"]
  /\ ret = [t \in Threads |-> "none"]
  /\ wakeFailed = FALSE

-----------------------------------------------------------------------------
(* The call that thread t is in returns to the caller, without the lock.   *)
Return(t, result) ==
  /\ pc' = [pc EXCEPT ![t] = "idle"]
  /\ waiting' = [waiting EXCEPT ![t] = "none"]
  /\ ret' = [ret EXCEPT ![t] = result]
  /\ UNCHANGED holding

(* The call that thread t is in returns to the caller, with the lock.      *)
ReturnOwning(t) ==
  /\ pc' = [pc EXCEPT ![t] = "idle"]
  /\ waiting' = [waiting EXCEPT ![t] = "none"]
  /\ ret' = [ret EXCEPT ![t] = "true"]
  /\ holding' = holding \cup {t}

(* compare_exchange_strong(UNLOCKED, LOCKED_NOWAITERS) takes a free word.  *)
CompareExchange(t) ==
  /\ pc[t] = "idle"
  /\ value = UNLOCKED
  /\ value' = LOCKED_NOWAITERS
  /\ ReturnOwning(t)
  /\ UNCHANGED wakeFailed

(* The compare_exchange of lock() and trylock_timeout() finds the word     *)
(* locked, and the call enters wait() or wait_timeout(): these mark the    *)
(* word first unless the compare_exchange already found it marked.         *)
EnterWait(t, call) ==
  /\ pc[t] = "idle"
  /\ value # UNLOCKED
  /\ pc' = [pc EXCEPT ![t] = IF value # LOCKED_WAITERS THEN "exchange"
                                                       ELSE "futex_wait"]
  /\ waiting' = [waiting EXCEPT ![t] = call]
  /\ UNCHANGED << value, ret, holding, wakeFailed >>

Lock(t) ==
  /\ t \notin holding
  /\ CompareExchange(t) \/ EnterWait(t, "lock")

TrylockTimeout(t) == CompareExchange(t) \/ EnterWait(t, "timeout")

(* Mutant of Trylock: compare_exchange_weak, which may fail on a free word. *)
TrylockWeak(t) ==
  \/ CompareExchange(t)
  \/ /\ pc[t] = "idle"
     /\ Return(t, "false")
     /\ UNCHANGED << value, wakeFailed >>

(* trylock() reports a locked word at once and leaves it alone.            *)
Trylock(t) ==
  \/ CompareExchange(t)
  \/ /\ pc[t] = "idle"
     /\ value # UNLOCKED
     /\ Return(t, "false")
     /\ UNCHANGED << value, wakeFailed >>

(* Mutant of Exchange: the waiters are counted into the word.              *)
ExchangeByIncrement(t) ==
  /\ pc[t] = "exchange"
  /\ value' = value + 1
  /\ \/ /\ value = UNLOCKED
        /\ ReturnOwning(t)
     \/ /\ value # UNLOCKED
        /\ pc' = [pc EXCEPT ![t] = "futex_wait"]
        /\ UNCHANGED << waiting, ret, holding >>
  /\ UNCHANGED wakeFailed

(* Mutant of Exchange: a woken thread takes the word as lock() does, and   *)
(* forgets that others may still sleep.                                    *)
ExchangeUnmarked(t) ==
  /\ pc[t] = "exchange"
  /\ \/ /\ value = UNLOCKED
        /\ value' = LOCKED_NOWAITERS
        /\ ReturnOwning(t)
     \/ /\ value # UNLOCKED
        /\ value' = LOCKED_WAITERS
        /\ pc' = [pc EXCEPT ![t] = "futex_wait"]
        /\ UNCHANGED << waiting, ret, holding >>
  /\ UNCHANGED wakeFailed

(* value.exchange(LOCKED_WAITERS) of the waiting loops: it takes a free    *)
(* word, and marks a locked one before the thread goes to sleep.           *)
Exchange(t) ==
  /\ pc[t] = "exchange"
  /\ value' = LOCKED_WAITERS
  /\ \/ /\ value = UNLOCKED
        /\ ReturnOwning(t)
     \/ /\ value # UNLOCKED
        /\ pc' = [pc EXCEPT ![t] = "futex_wait"]
        /\ UNCHANGED << waiting, ret, holding >>
  /\ UNCHANGED wakeFailed

(* FUTEX_WAIT enqueues the caller while the word is still LOCKED_WAITERS;  *)
(* otherwise it answers EAGAIN, after which the loop tries the word again. *)
FutexWait(t) ==
  /\ pc[t] = "futex_wait"
  /\ pc' = [pc EXCEPT ![t] = IF value = LOCKED_WAITERS THEN "asleep"
                                                       ELSE "exchange"]
  /\ UNCHANGED << value, waiting, ret, holding, wakeFailed >>

(* Any other errno of FUTEX_WAIT: std::system_error.                       *)
FutexWaitFails(t) ==
  /\ pc[t] = "futex_wait"
  /\ Return(t, "throw")
  /\ UNCHANGED << value, wakeFailed >>

(* A signal (EINTR) or a spurious 0: the loop tries the word again.        *)
Interrupted(t) ==
  /\ pc[t] = "asleep"
  /\ pc' = [pc EXCEPT ![t] = "exchange"]
  /\ UNCHANGED << value, waiting, ret, holding, wakeFailed >>

(* ETIMEDOUT: wait_timeout() returns false and leaves the word as it is,   *)
(* marked LOCKED_WAITERS even when no other thread waits.                  *)
TimedOut(t) ==
  /\ pc[t] = "asleep"
  /\ waiting[t] = "timeout"
  /\ Return(t, "false")
  /\ UNCHANGED << value, wakeFailed >>

-----------------------------------------------------------------------------
(* Mutant of Unlock: the word is set free at once, and again by wake().    *)
UnlockTwice(t) ==
  /\ pc[t] = "idle"
  /\ t \in holding
  /\ value' = UNLOCKED
  /\ holding' = holding \ {t}
  /\ pc' = [pc EXCEPT ![t] = IF value = LOCKED_WAITERS THEN "store"
                                                       ELSE "idle"]
  /\ UNCHANGED << waiting, ret, wakeFailed >>

(* unlock(): fetch_sub(1); the word it found decides whether to wake().    *)
Unlock(t) ==
  /\ pc[t] = "idle"
  /\ t \in holding
  /\ value' = value - 1
  /\ holding' = holding \ {t}
  /\ pc' = [pc EXCEPT ![t] = IF value = LOCKED_WAITERS THEN "store"
                                                       ELSE "idle"]
  /\ UNCHANGED << waiting, ret, wakeFailed >>

(* Mutant of Store: wake() leaves the decremented word as it is.           *)
StoreForgotten(t) ==
  /\ pc[t] = "store"
  /\ pc' = [pc EXCEPT ![t] = "futex_wake"]
  /\ UNCHANGED << value, waiting, ret, holding, wakeFailed >>

(* Mutant of Store: wake() frees the word and wakes nobody.                *)
StoreWithoutWake(t) ==
  /\ pc[t] = "store"
  /\ value' = UNLOCKED
  /\ pc' = [pc EXCEPT ![t] = "idle"]
  /\ UNCHANGED << waiting, ret, holding, wakeFailed >>

(* wake(), first step: the word still holds the decremented mark.          *)
Store(t) ==
  /\ pc[t] = "store"
  /\ value' = UNLOCKED
  /\ pc' = [pc EXCEPT ![t] = "futex_wake"]
  /\ UNCHANGED << waiting, ret, holding, wakeFailed >>

(* wake(), second step: FUTEX_WAKE of one sleeper, the kernel's choice.    *)
FutexWake(t) ==
  /\ pc[t] = "futex_wake"
  /\ \/ /\ Sleepers = {}
        /\ pc' = [pc EXCEPT ![t] = "idle"]
     \/ \E u \in Sleepers :
          pc' = [pc EXCEPT ![t] = "idle", ![u] = "exchange"]
  /\ UNCHANGED << value, waiting, ret, holding, wakeFailed >>

(* FUTEX_WAKE reports an error: unlock() throws, the word stays free.      *)
FutexWakeFails(t) ==
  /\ pc[t] = "futex_wake"
  /\ pc' = [pc EXCEPT ![t] = "idle"]
  /\ wakeFailed' = TRUE
  /\ UNCHANGED << value, waiting, ret, holding >>

-----------------------------------------------------------------------------
(* The caller starts an acquiring call.                                    *)
Call(t) == Lock(t) \/ Trylock(t) \/ TrylockTimeout(t)

(* What a thread does on its own once it is scheduled: the rest of the     *)
(* call it is in, the expiry of its timeout, and the end of its critical   *)
(* section.                                                                *)
Advance(t) ==
  \/ Exchange(t) \/ FutexWait(t) \/ TimedOut(t)
  \/ Unlock(t) \/ Store(t) \/ FutexWake(t)

(* What the environment may inject and never owes: signals and errors.     *)
Disturb(t) == Interrupted(t) \/ FutexWaitFails(t) \/ FutexWakeFails(t)

Next == \E t \in Threads : Call(t) \/ Advance(t) \/ Disturb(t)

Spec == Init /\ [][Next]_vars

-----------------------------------------------------------------------------
(* The types of the variables; the word holds one of its three states, so  *)
(* the fetch_sub of unlock() never takes it below UNLOCKED.                *)
TypeOK ==
  /\ value \in {UNLOCKED, LOCKED_NOWAITERS, LOCKED_WAITERS}
  /\ pc \in [Threads -> {"idle"} \cup WaitSteps \cup WakeSteps]
  /\ waiting \in [Threads -> {"none", "lock", "timeout"}]
  /\ ret \in [Threads -> {"none", "true", "false", "throw"}]
  /\ holding \in SUBSET Threads
  /\ wakeFailed \in BOOLEAN

(* At most one thread is inside the lock, whichever of the three calls it  *)
(* came in by and counting the one that unlock() has not let out yet: the  *)
(* code of unlock() and wake() is "per definition the only running code    *)
(* inside the lock".                                                       *)
MutualExclusion == \A t, u \in Owners : t = u

(* The word is UNLOCKED exactly when nobody is inside: no path leaves a    *)
(* free lock that looks taken (every later lock() would hang) or a taken   *)
(* one that looks free, whatever timed out, was interrupted or threw.      *)
WordTracksOwner == value = UNLOCKED <=> Owners = {}

(* A sleeping thread is never forgotten: the word is marked, so that the   *)
(* owner's unlock() will wake somebody, or such a wake() is under way, or  *)
(* a thread that is awake is about to mark the word or take it.  A wake()  *)
(* that threw voids the promise.                                           *)
NoLostWakeup ==
  (Sleepers # {} /\ ~wakeFailed) =>
    \/ value = LOCKED_WAITERS
    \/ \E t \in Threads : pc[t] \in {"store", "futex_wake", "exchange"}

(* Once callers stop starting calls, every call comes to its end and the   *)
(* lock ends up free: nobody sleeps on a free lock for ever, and nobody    *)
(* waits on everybody else.  Two things void the promise: a wake() that    *)
(* threw, and signals that never stop, since every EINTR starts the wait   *)
(* of a trylock_timeout() again with its full timeout.                     *)
CallsDrain ==
  \/ <>wakeFailed
  \/ []<><<\E t \in Threads : Call(t) \/ Interrupted(t)>>_vars
  \/ <>[](Owners = {} /\ \A t \in Threads : pc[t] = "idle")

-----------------------------------------------------------------------------
(* The owner that the detailed state stands for.                           *)
Owner == IF Owners = {} THEN NoThread ELSE CHOOSE t \in Threads : t \in Owners

M == INSTANCE Mutex WITH owner <- Owner

(* Every step is a step of the abstract lock or invisible to callers: a    *)
(* slow unlock() frees it at the store, a trylock() is refused only while  *)
(* it is owned, and only a timed call that found it owned gives up.        *)
ImplementsMutex == M!Spec
=============================================================================
