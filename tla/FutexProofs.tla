---------------------------- MODULE FutexProofs ----------------------------
(***************************************************************************)
(* Proofs about Futex, for any set of threads.                             *)
(*                                                                         *)
(* The inductive invariant is Inv: the types, mutual exclusion, the link   *)
(* between the word and the threads inside, and one fact about call        *)
(* structure that those two need to survive unlock() and wake().  That no  *)
(* sleeper is forgotten is inductive on top of Inv, and Inv is all that    *)
(* the refinement of Mutex needs.                                          *)
(***************************************************************************)
EXTENDS Futex, TLAPS

(* A thread is in a waiting call while it is at a step of one, and a       *)
(* thread that is inside wake() owns the lock no more.                     *)
CallStructure ==
  \A t \in Threads :
    /\ waiting[t] # "none" <=> pc[t] \in WaitSteps
    /\ pc[t] \in WakeSteps => t \notin holding

Inv == TypeOK /\ CallStructure /\ MutualExclusion /\ WordTracksOwner

-----------------------------------------------------------------------------
(* Initially the constructing thread is inside, or nobody is.              *)
LEMMA InitEstablishesInv == Init => Inv
PROOF
  <1> SUFFICES ASSUME Init PROVE Inv
    OBVIOUS
  <1>1. TypeOK
    BY DEF Init, TypeOK, UNLOCKED, LOCKED_NOWAITERS, LOCKED_WAITERS
  <1>2. CallStructure
    BY DEF Init, CallStructure, WaitSteps, WakeSteps
  <1>3. Owners = holding
    BY DEF Init, Owners
  <1>4. MutualExclusion /\ WordTracksOwner
    BY <1>3 DEF Init, MutualExclusion, WordTracksOwner, UNLOCKED, LOCKED_NOWAITERS
  <1> QED
    BY <1>1, <1>2, <1>4 DEF Inv

(* Taking a free word puts exactly the caller inside.                      *)
LEMMA TakeKeepsInv ==
  ASSUME Inv, NEW t \in Threads,
         pc[t] \in {"idle", "exchange"}, value = UNLOCKED,
         value' \in {LOCKED_NOWAITERS, LOCKED_WAITERS},
         ReturnOwning(t), UNCHANGED wakeFailed
  PROVE  Inv' /\ Owners = {} /\ Owners' = {t}
PROOF
  <1>1. Owners = {}
    BY DEF Inv, WordTracksOwner
  <1>2. TypeOK'
    BY DEF Inv, TypeOK, ReturnOwning, LOCKED_NOWAITERS, LOCKED_WAITERS
  <1>3. CallStructure'
    BY DEF Inv, TypeOK, CallStructure, ReturnOwning, WaitSteps, WakeSteps
  <1>4. Owners' = {t}
    BY <1>1 DEF Inv, TypeOK, Owners, ReturnOwning
  <1>5. value' # UNLOCKED
    BY DEF UNLOCKED, LOCKED_NOWAITERS, LOCKED_WAITERS
  <1> QED
    BY <1>1, <1>2, <1>3, <1>4, <1>5 DEF Inv, MutualExclusion, WordTracksOwner

(* A step that leaves who is inside alone, and the word free or not as it  *)
(* was, preserves exclusion and the word's link to it.                     *)
LEMMA SameOwnersKeepsInv ==
  ASSUME Inv, TypeOK', CallStructure', Owners' = Owners,
         value = UNLOCKED <=> value' = UNLOCKED
  PROVE  Inv'
  BY DEF Inv, MutualExclusion, WordTracksOwner

(* Every step of every thread preserves the invariant.                     *)
LEMMA NextPreservesInv == Inv /\ [Next]_vars => Inv'
PROOF
  <1> SUFFICES ASSUME Inv, [Next]_vars PROVE Inv'
    OBVIOUS
  <1> USE DEF UNLOCKED, LOCKED_NOWAITERS, LOCKED_WAITERS
  <1>1. CASE UNCHANGED vars
    BY <1>1 DEF Inv, TypeOK, CallStructure, MutualExclusion, WordTracksOwner,
                Owners, vars
  <1>2. ASSUME NEW t \in Threads, Call(t) \/ Advance(t) \/ Disturb(t) PROVE Inv'
    <2>1. CASE CompareExchange(t)
      BY <2>1, TakeKeepsInv DEF CompareExchange
    <2>2. ASSUME NEW call \in {"lock", "timeout"}, EnterWait(t, call) PROVE Inv'
      <3>1. TypeOK' /\ Owners' = Owners
        BY <2>2 DEF Inv, TypeOK, EnterWait, Owners, WaitSteps
      <3>2. CallStructure'
        BY <2>2 DEF Inv, TypeOK, CallStructure, EnterWait, WaitSteps, WakeSteps
      <3> QED BY <3>1, <3>2, <2>2, SameOwnersKeepsInv DEF EnterWait
    <2>3. ASSUME pc[t] \in {"idle", "asleep", "futex_wait"},
                 NEW r \in {"false", "throw"}, Return(t, r),
                 UNCHANGED << value, wakeFailed >>
          PROVE  Inv'
      <3>1. TypeOK' /\ Owners' = Owners
        BY <2>3 DEF Inv, TypeOK, Return, Owners
      <3>2. CallStructure'
        BY <2>3 DEF Inv, TypeOK, CallStructure, Return, WaitSteps, WakeSteps
      <3> QED BY <3>1, <3>2, <2>3, SameOwnersKeepsInv
    <2>4. CASE Exchange(t)
      <3>1. CASE value = UNLOCKED
        BY <3>1, <2>4, TakeKeepsInv DEF Exchange
      <3>2. CASE value # UNLOCKED
        <4>1. TypeOK' /\ Owners' = Owners
          BY <2>4, <3>2 DEF Inv, TypeOK, Exchange, Owners, WaitSteps
        <4>2. CallStructure'
          BY <2>4, <3>2 DEF Inv, TypeOK, CallStructure, Exchange, WaitSteps, WakeSteps
        <4> QED BY <4>1, <4>2, <2>4, <3>2, SameOwnersKeepsInv DEF Exchange
      <3> QED BY <3>1, <3>2
    <2>5. CASE FutexWait(t)
      <3>1. TypeOK' /\ Owners' = Owners
        BY <2>5 DEF Inv, TypeOK, FutexWait, Owners, WaitSteps
      <3>2. CallStructure'
        BY <2>5 DEF Inv, TypeOK, CallStructure, FutexWait, WaitSteps, WakeSteps
      <3> QED BY <3>1, <3>2, <2>5, SameOwnersKeepsInv DEF FutexWait
    <2>6. CASE Interrupted(t)
      <3>1. TypeOK' /\ Owners' = Owners
        BY <2>6 DEF Inv, TypeOK, Interrupted, Owners, WaitSteps
      <3>2. CallStructure'
        BY <2>6 DEF Inv, TypeOK, CallStructure, Interrupted, WaitSteps, WakeSteps
      <3> QED BY <3>1, <3>2, <2>6, SameOwnersKeepsInv DEF Interrupted
    <2>7. CASE Unlock(t)
      <3>1. Owners = {t}
        BY <2>7 DEF Inv, MutualExclusion, Unlock, Owners
      <3>2. value # UNLOCKED
        BY <3>1 DEF Inv, WordTracksOwner
      <3>3. TypeOK'
        BY <2>7, <3>2 DEF Inv, TypeOK, Unlock, WakeSteps
      <3>4. CallStructure'
        BY <2>7 DEF Inv, TypeOK, CallStructure, Unlock, WaitSteps, WakeSteps
      <3>5. CASE value = LOCKED_WAITERS
        <4>1. Owners' = {t} /\ value' = LOCKED_NOWAITERS
          BY <2>7, <3>1, <3>5 DEF Inv, TypeOK, Unlock, Owners
        <4> QED
          BY <4>1, <3>3, <3>4 DEF Inv, MutualExclusion, WordTracksOwner
      <3>6. CASE value = LOCKED_NOWAITERS
        <4>1. Owners' = {} /\ value' = UNLOCKED
          BY <2>7, <3>1, <3>6 DEF Inv, TypeOK, Unlock, Owners
        <4> QED
          BY <4>1, <3>3, <3>4 DEF Inv, MutualExclusion, WordTracksOwner
      <3> QED BY <3>2, <3>5, <3>6 DEF Inv, TypeOK
    <2>8. CASE Store(t)
      <3>1. Owners = {t} /\ t \notin holding
        BY <2>8 DEF Inv, MutualExclusion, CallStructure, Store, Owners, WakeSteps
      <3>2. TypeOK'
        BY <2>8 DEF Inv, TypeOK, Store, WakeSteps
      <3>3. CallStructure'
        BY <2>8 DEF Inv, TypeOK, CallStructure, Store, WaitSteps, WakeSteps
      <3>4. Owners' = {} /\ value' = UNLOCKED
        BY <2>8, <3>1 DEF Inv, TypeOK, Store, Owners
      <3> QED
        BY <3>2, <3>3, <3>4 DEF Inv, MutualExclusion, WordTracksOwner
    <2>9. CASE FutexWake(t)
      <3>1. TypeOK' /\ Owners' = Owners
        BY <2>9 DEF Inv, TypeOK, FutexWake, Sleepers, Owners, WaitSteps
      <3>2. CallStructure'
        BY <2>9 DEF Inv, TypeOK, CallStructure, FutexWake, Sleepers, WaitSteps, WakeSteps
      <3> QED BY <3>1, <3>2, <2>9, SameOwnersKeepsInv DEF FutexWake
    <2>10. CASE FutexWakeFails(t)
      <3>1. TypeOK' /\ Owners' = Owners
        BY <2>10 DEF Inv, TypeOK, FutexWakeFails, Owners
      <3>2. CallStructure'
        BY <2>10 DEF Inv, TypeOK, CallStructure, FutexWakeFails, WaitSteps, WakeSteps
      <3> QED BY <3>1, <3>2, <2>10, SameOwnersKeepsInv DEF FutexWakeFails
    <2>11. CASE Call(t)
      BY <2>11, <2>1, <2>2, <2>3 DEF Call, Lock, Trylock, TrylockTimeout
    <2>12. CASE Advance(t)
      BY <2>12, <2>3, <2>4, <2>5, <2>7, <2>8, <2>9 DEF Advance, TimedOut
    <2>13. CASE Disturb(t)
      BY <2>13, <2>3, <2>6, <2>10 DEF Disturb, FutexWaitFails
    <2> QED BY <1>2, <2>11, <2>12, <2>13
  <1> QED BY <1>1, <1>2 DEF Next

LEMMA Invariance == Spec => []Inv
  BY InitEstablishesInv, NextPreservesInv, PTL DEF Spec

(* The word never leaves its three states: the fetch_sub of unlock() finds *)
(* 1 or 2, as the comment in futex.hpp says, in every execution.           *)
THEOREM TypeCorrect == Spec => []TypeOK
  BY Invariance, PTL DEF Inv

(* No two threads are ever inside the lock.                                *)
THEOREM Exclusion == Spec => []MutualExclusion
  BY Invariance, PTL DEF Inv

(* The word is free exactly when nobody is inside.                         *)
THEOREM WordFreeIffNobodyInside == Spec => []WordTracksOwner
  BY Invariance, PTL DEF Inv

-----------------------------------------------------------------------------
(* The steps that keep the promise to sleepers.                            *)
LEMMA NextPreservesNoLostWakeup ==
  Inv /\ NoLostWakeup /\ [Next]_vars => NoLostWakeup'
PROOF
  <1> SUFFICES ASSUME Inv, NoLostWakeup, [Next]_vars,
                      Sleepers' # {}, ~wakeFailed'
               PROVE  \/ value' = LOCKED_WAITERS
                      \/ \E u \in Threads : pc'[u] \in {"store", "futex_wake", "exchange"}
    BY DEF NoLostWakeup
  <1> DEFINE Awake == {"store", "futex_wake", "exchange"}
  <1> USE DEF UNLOCKED, LOCKED_NOWAITERS, LOCKED_WAITERS
  <1>1. CASE UNCHANGED vars
    BY <1>1 DEF NoLostWakeup, Sleepers, vars
  <1>2. ASSUME NEW t \in Threads, Call(t) \/ Advance(t) \/ Disturb(t)
        PROVE  value' = LOCKED_WAITERS \/ \E u \in Threads : pc'[u] \in Awake
    <2>1. ASSUME pc[t] \notin Awake, pc'[t] # "asleep", UNCHANGED wakeFailed,
                 value' = value, \A u \in Threads \ {t} : pc'[u] = pc[u]
          PROVE  value' = LOCKED_WAITERS \/ \E u \in Threads : pc'[u] \in Awake
      BY <2>1 DEF NoLostWakeup, Sleepers
    <2>2. CASE CompareExchange(t)
      <3>1. value # LOCKED_WAITERS
        BY <2>2 DEF CompareExchange
      <3>2. Sleepers # {} /\ ~wakeFailed
        BY <2>2 DEF CompareExchange, ReturnOwning, Sleepers, Inv, TypeOK
      <3>3. PICK u \in Threads : pc[u] \in Awake
        BY <3>1, <3>2 DEF NoLostWakeup
      <3>4. pc'[u] = pc[u]
        BY <2>2, <3>3 DEF CompareExchange, ReturnOwning, Inv, TypeOK
      <3> QED BY <3>3, <3>4
    <2>3. ASSUME NEW call \in {"lock", "timeout"}, EnterWait(t, call)
          PROVE  value' = LOCKED_WAITERS \/ \E u \in Threads : pc'[u] \in Awake
      BY <2>3, <2>1 DEF EnterWait, Inv, TypeOK
    <2>4. ASSUME pc[t] \in {"idle", "asleep", "futex_wait"},
                 NEW r \in {"false", "throw"}, Return(t, r),
                 UNCHANGED << value, wakeFailed >>
          PROVE  value' = LOCKED_WAITERS \/ \E u \in Threads : pc'[u] \in Awake
      BY <2>4, <2>1 DEF Return, Inv, TypeOK
    <2>5. CASE Exchange(t)
      BY <2>5 DEF Exchange
    <2>6. CASE FutexWait(t)
      <3>1. pc'[t] = "exchange" \/ value' = LOCKED_WAITERS
        BY <2>6 DEF FutexWait, Inv, TypeOK
      <3> QED BY <3>1
    <2>7. CASE Interrupted(t)
      <3>1. pc'[t] = "exchange"
        BY <2>7 DEF Interrupted, Inv, TypeOK
      <3> QED BY <3>1
    <2>8. CASE Unlock(t)
      <3>1. CASE value = LOCKED_WAITERS
        <4>1. pc'[t] = "store"
          BY <2>8, <3>1 DEF Unlock, Inv, TypeOK
        <4> QED BY <4>1
      <3>2. CASE value # LOCKED_WAITERS
        <4>1. Sleepers # {} /\ ~wakeFailed
          BY <2>8 DEF Unlock, Sleepers, Inv, TypeOK
        <4>2. PICK u \in Threads : pc[u] \in Awake
          BY <3>2, <4>1 DEF NoLostWakeup
        <4>3. pc'[u] = pc[u]
          BY <2>8, <4>2 DEF Unlock, Inv, TypeOK
        <4> QED BY <4>2, <4>3
      <3> QED BY <3>1, <3>2
    <2>9. CASE Store(t)
      <3>1. pc'[t] = "futex_wake"
        BY <2>9 DEF Store, Inv, TypeOK
      <3> QED BY <3>1
    <2>10. CASE FutexWake(t)
      <3>1. Sleepers # {}
        BY <2>10 DEF FutexWake, Sleepers, Inv, TypeOK
      <3>2. PICK u \in Sleepers : pc' = [pc EXCEPT ![t] = "idle", ![u] = "exchange"]
        BY <2>10, <3>1 DEF FutexWake
      <3>3. pc'[u] = "exchange" /\ u \in Threads
        BY <2>10, <3>2 DEF Sleepers, Inv, TypeOK
      <3> QED BY <3>3
    <2>11. CASE FutexWakeFails(t)
      BY <2>11 DEF FutexWakeFails
    <2>12. CASE Call(t)
      BY <2>12, <2>2, <2>3, <2>4 DEF Call, Lock, Trylock, TrylockTimeout
    <2>13. CASE Advance(t)
      BY <2>13, <2>4, <2>5, <2>6, <2>8, <2>9, <2>10 DEF Advance, TimedOut
    <2>14. CASE Disturb(t)
      BY <2>14, <2>4, <2>7, <2>11 DEF Disturb, FutexWaitFails
    <2> QED BY <1>2, <2>12, <2>13, <2>14
  <1> QED BY <1>1, <1>2 DEF Next

(* Nobody sleeps unless the word is marked or someone awake will act, in   *)
(* every interleaving of unlock(), wake(), timeouts, signals and barging   *)
(* threads, for any number of threads.                                     *)
THEOREM SleepersRemembered == Spec => []NoLostWakeup
PROOF
  <1>1. Init => NoLostWakeup
    BY DEF Init, NoLostWakeup, Sleepers
  <1> QED
    BY <1>1, Invariance, NextPreservesNoLostWakeup, PTL DEF Spec

(* Nobody sleeps on a free lock unless a FUTEX_WAKE is due or a waiter is  *)
(* awake that will take the lock: there is no state in which the lock is   *)
(* free, somebody wants it, and nobody is going to do anything about it.   *)
THEOREM NobodySleepsOnFreeLock ==
  Spec => [](Owners = {} /\ Sleepers # {} /\ ~wakeFailed =>
               \E t \in Threads : pc[t] \in {"futex_wake", "exchange"})
PROOF
  <1>1. WordTracksOwner /\ NoLostWakeup =>
          (Owners = {} /\ Sleepers # {} /\ ~wakeFailed =>
             \E t \in Threads : pc[t] \in {"futex_wake", "exchange"})
    BY DEF WordTracksOwner, NoLostWakeup, Owners, UNLOCKED, LOCKED_WAITERS
  <1> QED
    BY <1>1, WordFreeIffNobodyInside, SleepersRemembered, PTL

-----------------------------------------------------------------------------
(* What Owner stands for while somebody, or nobody, is inside.             *)
LEMMA OwnerOfFree == Owners = {} => Owner = NoThread
  BY DEF Owner

LEMMA OwnerOfTaken ==
  ASSUME NEW t \in Threads, Owners = {t}
  PROVE  Owner = t
  BY DEF Owner

LEMMA OwnerIsInside ==
  ASSUME Inv, Owners # {}
  PROVE  Owner \in Owners /\ Owner \in Threads /\ Owner # NoThread
  BY NoThreadAssumption DEF Owner, Owners, Inv, TypeOK

(* A lock nobody waits for and a lock its constructor took are abstract    *)
(* initial states.                                                         *)
LEMMA InitRefines == Init => M!Init
PROOF
  <1> SUFFICES ASSUME Init PROVE M!Init
    OBVIOUS
  <1>1. Owners = holding
    BY DEF Init, Owners
  <1>2. Owner \in Threads \cup {NoThread}
    BY <1>1, OwnerOfFree, OwnerOfTaken DEF Init
  <1> QED
    BY <1>2 DEF Init, M!Init

(* Every step of the futex is a step of the lock, or a stutter.            *)
LEMMA NextRefines == Inv /\ Inv' /\ [Next]_vars => [M!Next]_M!vars
PROOF
  <1> SUFFICES ASSUME Inv, Inv', [Next]_vars PROVE M!Next \/ UNCHANGED M!vars
    BY DEF M!vars
  <1> USE DEF UNLOCKED, LOCKED_NOWAITERS, LOCKED_WAITERS
  <1>1. ASSUME Owners' = Owners, UNCHANGED << waiting, ret >>
        PROVE  UNCHANGED M!vars
    BY <1>1 DEF M!vars, Owner
  <1>2. CASE UNCHANGED vars
    BY <1>2, <1>1 DEF vars, Owners
  <1>3. ASSUME NEW t \in Threads, Call(t) \/ Advance(t) \/ Disturb(t)
        PROVE  M!Next \/ UNCHANGED M!vars
    <2>1. ASSUME pc[t] \in {"idle", "exchange"}, value = UNLOCKED,
                 value' \in {LOCKED_NOWAITERS, LOCKED_WAITERS},
                 ReturnOwning(t), UNCHANGED wakeFailed
          PROVE  M!Next
      <3>1. Owners = {} /\ Owners' = {t}
        BY <2>1, TakeKeepsInv
      <3>2. Owner = NoThread /\ Owner' = t
        BY <3>1, OwnerOfFree DEF Owner
      <3>3. M!Acquire(t)
        BY <2>1, <3>2 DEF M!Acquire, ReturnOwning
      <3> QED BY <3>3 DEF M!Next
    <2>2. ASSUME NEW call \in {"lock", "timeout"}, EnterWait(t, call),
                 call = "lock" => t \notin holding
          PROVE  M!Next
      <3>1. Owners' = Owners /\ (call = "lock" => t \notin Owners)
        BY <2>2 DEF EnterWait, Owners, Inv, TypeOK, WaitSteps
      <3>2. Owner' = Owner /\ Owner # NoThread /\ (call = "lock" => Owner # t)
        BY <2>2, <3>1, OwnerIsInside DEF Owner, EnterWait, Inv, WordTracksOwner
      <3>3. waiting[t] = "none"
        BY <2>2 DEF EnterWait, Inv, CallStructure, WaitSteps
      <3>4. M!Block(t, call)
        BY <2>2, <3>2, <3>3 DEF M!Block, EnterWait
      <3> QED BY <3>4 DEF M!Next
    <2>3. ASSUME pc[t] = "idle", value # UNLOCKED, Return(t, "false"),
                 UNCHANGED << value, wakeFailed >>
          PROVE  M!Next
      <3>1. Owners' = Owners
        BY <2>3 DEF Return, Owners, Inv, TypeOK
      <3>2. Owner' = Owner /\ Owner # NoThread
        BY <2>3, <3>1, OwnerIsInside DEF Owner, Inv, WordTracksOwner
      <3>3. waiting[t] = "none" /\ waiting' = waiting
        BY <2>3 DEF Return, Inv, TypeOK, CallStructure, WaitSteps
      <3>4. M!Refuse(t)
        BY <2>3, <3>2, <3>3 DEF M!Refuse, Return
      <3> QED BY <3>4 DEF M!Next
    <2>4. CASE TimedOut(t)
      <3>1. Owners' = Owners
        BY <2>4 DEF TimedOut, Return, Owners, Inv, TypeOK
      <3>2. M!GiveUp(t)
        BY <2>4, <3>1 DEF M!GiveUp, TimedOut, Return, Owner
      <3> QED BY <3>2 DEF M!Next
    <2>5. CASE FutexWaitFails(t)
      <3>1. Owners' = Owners
        BY <2>5 DEF FutexWaitFails, Return, Owners, Inv, TypeOK
      <3>2. waiting[t] # "none"
        BY <2>5 DEF FutexWaitFails, Inv, CallStructure, WaitSteps
      <3>3. M!Throw(t)
        BY <2>5, <3>1, <3>2 DEF M!Throw, FutexWaitFails, Return, Owner
      <3> QED BY <3>3 DEF M!Next
    <2>6. CASE Exchange(t)
      <3>1. CASE value = UNLOCKED
        BY <3>1, <2>6, <2>1 DEF Exchange
      <3>2. CASE value # UNLOCKED
        BY <3>2, <2>6, <1>1 DEF Exchange, Owners, Inv, TypeOK
      <3> QED BY <3>1, <3>2
    <2>7. CASE FutexWait(t) \/ Interrupted(t)
      BY <2>7, <1>1 DEF FutexWait, Interrupted, Owners, Inv, TypeOK
    <2>8. CASE FutexWake(t) \/ FutexWakeFails(t)
      BY <2>8, <1>1 DEF FutexWake, FutexWakeFails, Sleepers, Owners, Inv, TypeOK
    <2>9. CASE Unlock(t)
      <3>1. Owners = {t} /\ waiting[t] = "none"
        BY <2>9 DEF Unlock, Inv, MutualExclusion, CallStructure, Owners, WaitSteps
      <3>2. CASE value = LOCKED_WAITERS
        <4>1. Owners' = Owners
          BY <2>9, <3>1, <3>2 DEF Unlock, Owners, Inv, TypeOK
        <4> QED BY <4>1, <2>9, <1>1 DEF Unlock
      <3>3. CASE value # LOCKED_WAITERS
        <4>1. Owners' = {}
          BY <2>9, <3>1, <3>3 DEF Unlock, Owners, Inv, TypeOK
        <4>2. Owner = t /\ Owner' = NoThread
          BY <3>1, <4>1, OwnerOfTaken DEF Owner
        <4>3. M!Release(t)
          BY <4>2, <3>1, <2>9 DEF M!Release, Unlock
        <4> QED BY <4>3 DEF M!Next
      <3> QED BY <3>2, <3>3
    <2>10. CASE Store(t)
      <3>1. Owners = {t} /\ t \notin holding /\ waiting[t] = "none"
        BY <2>10 DEF Store, Inv, MutualExclusion, CallStructure, Owners,
                     WaitSteps, WakeSteps
      <3>2. Owners' = {}
        BY <2>10, <3>1 DEF Store, Owners, Inv, TypeOK
      <3>3. Owner = t /\ Owner' = NoThread
        BY <3>1, <3>2, OwnerOfTaken DEF Owner
      <3>4. M!Release(t)
        BY <3>1, <3>3, <2>10 DEF M!Release, Store
      <3> QED BY <3>4 DEF M!Next
    <2>11. CASE CompareExchange(t)
      BY <2>11, <2>1 DEF CompareExchange
    <2>12. CASE Call(t)
      BY <2>12, <2>2, <2>3, <2>11 DEF Call, Lock, Trylock, TrylockTimeout
    <2>13. CASE Advance(t)
      BY <2>13, <2>4, <2>6, <2>7, <2>8, <2>9, <2>10 DEF Advance
    <2>14. CASE Disturb(t)
      BY <2>14, <2>5, <2>7, <2>8 DEF Disturb
    <2> QED BY <1>3, <2>12, <2>13, <2>14
  <1> QED BY <1>2, <1>3 DEF Next

(* The Futex class is a lock: to its callers its executions are those of   *)
(* Mutex, for any number of threads.                                       *)
THEOREM FutexImplementsMutex == Spec => ImplementsMutex
PROOF
  <1>1. Inv /\ Inv' /\ [Next]_vars => [M!Next]_M!vars
    BY NextRefines
  <1> QED
    BY <1>1, InitRefines, Invariance, PTL DEF Spec, ImplementsMutex, M!Spec

=============================================================================
