--------------------------- MODULE FutexUseProofs ---------------------------
(***************************************************************************)
(* Proofs about FutexOrdering, FutexLifetime and FutexSystem, which say    *)
(* how a Futex is used and what it uses, for any set of threads.  The      *)
(* steps of the first two are steps of Futex by their definition, and the  *)
(* last one is shown to implement it, so the invariant of FutexProofs      *)
(* holds in all three.                                                     *)
(***************************************************************************)
EXTENDS FutexOrdering, FutexLifetime, FutexSystem, FutexProofs,
        FiniteSetTheorems

-----------------------------------------------------------------------------
(* FutexOrdering.                                                          *)
(*                                                                         *)
(* What makes an owner current is that a free word always carries all      *)
(* writes.  The fetch_sub of unlock() makes the word carry them; in a slow *)
(* unlock() the word is set free one step later, so between the two steps  *)
(* the invariant keeps that the word still carries and that the thread     *)
(* about to store is the one that did the release.                         *)

(* A free word carries, and so does one whose owner is about to free it.   *)
WordCarries ==
  /\ value = UNLOCKED => carries
  /\ \A t \in Threads : pc[t] = "store" => carries /\ head = t

OrderInv == Inv /\ OwnersAreCurrent /\ WordCarries

-----------------------------------------------------------------------------
(* A step of the ordered futex is one of the futex.                        *)
LEMMA OrderedStepIsStep == [OrderedNext]_allVars => [Next]_vars
PROOF
  <1> SUFFICES ASSUME OrderedNext PROVE Next
    BY DEF allVars
  <1> PICK t \in Threads : OrderedCall(t) \/ OrderedAdvance(t) \/ Disturb(t)
    BY DEF OrderedNext
  <1> QED
    BY DEF Next, OrderedCall, OrderedAdvance, Advance

(* The thread inside the lock, owning it or on its way out, is the only    *)
(* one: so no owner is left, and nobody else is about to store.            *)
LEMMA OnlyOneInside ==
  ASSUME Inv, NEW t \in Threads, t \in holding \/ pc[t] = "store"
  PROVE  holding \subseteq {t} /\ \A u \in Threads : pc[u] = "store" => u = t
  BY DEF Inv, TypeOK, MutualExclusion, Owners

(* A step that frees nothing, lets nobody in and starts no store, and that *)
(* takes no knowledge away, keeps owners current.                          *)
LEMMA QuietStepKeepsOrder ==
  ASSUME OwnersAreCurrent, WordCarries,
         holding' \subseteq holding, value' = UNLOCKED => value = UNLOCKED,
         \A u \in Threads : pc'[u] = "store" => pc[u] = "store",
         current \subseteq current', carries' = carries, head' = head
  PROVE  OwnersAreCurrent' /\ WordCarries'
  BY DEF OwnersAreCurrent, WordCarries

(* Taking a free word with an acquire makes the new owner current.         *)
LEMMA TakingIsCurrent ==
  ASSUME Inv, OwnersAreCurrent, WordCarries, NEW t \in Threads,
         value = UNLOCKED, value' # UNLOCKED, ReturnOwning(t), Acquire(t)
  PROVE  OwnersAreCurrent' /\ WordCarries'
PROOF
  <1>1. carries
    BY DEF WordCarries
  <1>2. OwnersAreCurrent'
    BY <1>1 DEF OwnersAreCurrent, ReturnOwning, Acquire
  <1>3. \A u \in Threads : pc'[u] = "store" => pc[u] = "store"
    BY DEF Inv, TypeOK, ReturnOwning
  <1> QED
    BY <1>2, <1>3 DEF WordCarries, Acquire

(* Every step keeps owners current, if a store extends a release sequence. *)
LEMMA NextPreservesOrder ==
  ASSUME StoresExtend, OrderInv, [OrderedNext]_allVars
  PROVE  OwnersAreCurrent' /\ WordCarries'
PROOF
  <1> Inv /\ OwnersAreCurrent /\ WordCarries
    BY DEF OrderInv
  <1> USE DEF UNLOCKED, LOCKED_NOWAITERS, LOCKED_WAITERS
  <1>1. CASE UNCHANGED allVars
    BY <1>1, QuietStepKeepsOrder DEF allVars, vars, orderVars
  <1>2. ASSUME NEW t \in Threads, OrderedCall(t) \/ OrderedAdvance(t)
                                    \/ (Disturb(t) /\ Relaxed)
        PROVE  OwnersAreCurrent' /\ WordCarries'
    <2>1. ASSUME NEW r \in {"false", "throw"}, Return(t, r), UNCHANGED value, Relaxed
          PROVE  OwnersAreCurrent' /\ WordCarries'
      BY <2>1, QuietStepKeepsOrder DEF Inv, TypeOK, Return, Relaxed, orderVars
    <2>2. CASE CompareExchange(t) /\ Acquire(t)
      BY <2>2, TakingIsCurrent DEF CompareExchange
    <2>3. ASSUME NEW call, EnterWait(t, call), Relaxed
          PROVE  OwnersAreCurrent' /\ WordCarries'
      BY <2>3, QuietStepKeepsOrder DEF Inv, TypeOK, EnterWait, Relaxed, orderVars
    <2>4. CASE Exchange(t) /\ Acquire(t)
      <3>1. CASE value = UNLOCKED
        BY <2>4, <3>1, TakingIsCurrent DEF Exchange
      <3>2. CASE value # UNLOCKED
        BY <2>4, <3>2, QuietStepKeepsOrder DEF Inv, TypeOK, Exchange, Acquire
      <3> QED BY <3>1, <3>2
    <2>5. CASE FutexWait(t) /\ Relaxed
      BY <2>5, QuietStepKeepsOrder DEF Inv, TypeOK, FutexWait, Relaxed, orderVars
    <2>6. CASE FutexWake(t) /\ Relaxed
      <3>1. \A u \in Threads : pc'[u] = "store" => pc[u] = "store"
        BY <2>6 DEF Inv, TypeOK, FutexWake, Sleepers
      <3> QED
        BY <2>6, <3>1, QuietStepKeepsOrder DEF FutexWake, Relaxed, orderVars
    <2>7. CASE (Interrupted(t) \/ FutexWakeFails(t)) /\ Relaxed
      BY <2>7, QuietStepKeepsOrder
         DEF Inv, TypeOK, Interrupted, FutexWakeFails, Relaxed, orderVars
    <2>8. CASE Unlock(t) /\ Release(t)
      <3>1. t \in holding /\ t \in current
        BY <2>8 DEF Unlock, OwnersAreCurrent
      <3>2. carries' /\ head' = t
        BY <2>8, <3>1 DEF Release
      <3>3. holding' = {}
        BY <2>8, <3>1, OnlyOneInside DEF Unlock
      <3>4. \A u \in Threads : pc'[u] = "store" => u = t
        BY <2>8, <3>1, OnlyOneInside DEF Inv, TypeOK, Unlock
      <3> QED BY <3>2, <3>3, <3>4 DEF OwnersAreCurrent, WordCarries
    <2>9. CASE Store(t) /\ StoreRelaxed(t)
      <3>1. pc[t] = "store" /\ carries /\ head = t
        BY <2>9 DEF Store, WordCarries
      <3>2. carries'
        BY <2>9, <3>1, StoresExtend DEF StoreRelaxed
      <3>3. \A u \in Threads : pc'[u] # "store"
        BY <2>9, <3>1, OnlyOneInside DEF Inv, TypeOK, Store
      <3>4. OwnersAreCurrent'
        BY <2>9 DEF OwnersAreCurrent, Store, StoreRelaxed
      <3> QED BY <3>2, <3>3, <3>4 DEF WordCarries
    <2>10. CASE OrderedCall(t)
      <3>1. CASE value = UNLOCKED
        BY <2>10, <3>1, <2>2
           DEF OrderedCall, Call, Lock, Trylock, TrylockTimeout, EnterWait
      <3>2. CASE value # UNLOCKED
        BY <2>10, <3>2, <2>1, <2>3
           DEF OrderedCall, Call, Lock, Trylock, TrylockTimeout, CompareExchange
      <3> QED BY <3>1, <3>2
    <2>11. CASE OrderedAdvance(t)
      BY <2>11, <2>1, <2>4, <2>5, <2>6, <2>8, <2>9 DEF OrderedAdvance, TimedOut
    <2>12. CASE Disturb(t) /\ Relaxed
      BY <2>12, <2>1, <2>7 DEF Disturb, FutexWaitFails
    <2> QED BY <1>2, <2>10, <2>11, <2>12
  <1> QED BY <1>1, <1>2 DEF OrderedNext

(* Whoever owns the lock knows all that earlier owners wrote, for any      *)
(* number of threads: this is what the comments on memory order in         *)
(* futex.hpp and futex.cpp argue.  It rests on the rule that the relaxed   *)
(* store of wake() extends the release sequence of its own fetch_sub.      *)
THEOREM CriticalSectionsOrdered ==
  ASSUME StoresExtend
  PROVE  OrderedSpec => []OwnersAreCurrent
PROOF
  <1>1. OrderedInit => OrderInv
    <2> SUFFICES ASSUME OrderedInit PROVE OrderInv
      OBVIOUS
    <2>1. Inv
      BY InitEstablishesInv DEF OrderedInit
    <2>2. OwnersAreCurrent
      BY <2>1 DEF OrderedInit, OwnersAreCurrent, Inv, TypeOK
    <2>3. WordCarries
      BY DEF OrderedInit, Init, WordCarries
    <2> QED BY <2>1, <2>2, <2>3 DEF OrderInv
  <1>2. OrderInv /\ [OrderedNext]_allVars => OrderInv'
    <2> SUFFICES ASSUME OrderInv, [OrderedNext]_allVars PROVE OrderInv'
      OBVIOUS
    <2>1. Inv'
      BY OrderedStepIsStep, NextPreservesInv DEF OrderInv
    <2>2. OwnersAreCurrent' /\ WordCarries'
      BY StoresExtend, NextPreservesOrder
    <2> QED BY <2>1, <2>2 DEF OrderInv
  <1>3. OrderInv => OwnersAreCurrent
    BY DEF OrderInv
  <1> QED BY <1>1, <1>2, <1>3, PTL DEF OrderedSpec

-----------------------------------------------------------------------------
(* FutexLifetime.                                                          *)
(*                                                                         *)
(* Released says where the threads without a reference can be; when nobody *)
(* has one, mutual exclusion at the last unlock() leaves only its caller   *)
(* on the way to the store of wake(), which LastOneOut says.               *)

Released ==
  \A t \in Threads \ refs : t \notin holding /\ pc[t] \in {"idle"} \cup WakeSteps

LastOneOut ==
  /\ destroyer # NoThread =>
       /\ destroyer \in Threads /\ refs = {}
       /\ \A t \in Threads : pc[t] = "store" => t = destroyer
  /\ ~alive => destroyer # NoThread /\ pc[destroyer] # "store"

LifeInv == Inv /\ refs \subseteq Threads /\ Released /\ LastOneOut

(* Giving up a reference is an unlock(), and destroying the lock touches   *)
(* nothing of it.                                                          *)
LEMMA LifeStepIsStep == [LifeNext]_lifeVars => [Next]_vars
PROOF
  <1> SUFFICES ASSUME LifeNext PROVE [Next]_vars
    BY DEF lifeVars
  <1> PICK t \in Threads : Use(t) \/ GiveUpReference(t) \/ Destroy(t)
    BY DEF LifeNext
  <1> QED BY DEF Next, Use, GiveUpReference, Advance, Destroy

LEMMA LifeInitEstablishes == LifeInit => LifeInv
BY InitEstablishesInv DEF LifeInit, LifeInv, Released, LastOneOut

(* A step of one thread moves no other, except out of its sleep.           *)
Stays(u) ==
  /\ (u \in holding') <=> (u \in holding)
  /\ pc'[u] = pc[u] \/ (pc[u] = "asleep" /\ pc'[u] = "exchange")

LEMMA OthersStay ==
  ASSUME Inv, NEW t \in Threads, Call(t) \/ Advance(t) \/ Disturb(t),
         NEW u \in Threads, u # t
  PROVE  Stays(u)
PROOF
  <1>0. pc \in [Threads -> {"idle"} \cup WaitSteps \cup WakeSteps]
    BY DEF Inv, TypeOK
  <1>1. CASE CompareExchange(t)
    BY <1>0, <1>1 DEF CompareExchange, ReturnOwning, Stays
  <1>2. ASSUME NEW call, EnterWait(t, call) PROVE Stays(u)
    BY <1>0, <1>2 DEF EnterWait, Stays
  <1>3. ASSUME NEW result, Return(t, result) PROVE Stays(u)
    BY <1>0, <1>3 DEF Return, Stays
  <1>4. CASE Exchange(t)
    BY <1>0, <1>4 DEF Exchange, ReturnOwning, Stays
  <1>5. CASE FutexWait(t) \/ Interrupted(t) \/ FutexWakeFails(t)
    BY <1>0, <1>5 DEF FutexWait, Interrupted, FutexWakeFails, Stays
  <1>6. CASE Unlock(t) \/ Store(t)
    BY <1>0, <1>6 DEF Unlock, Store, Stays
  <1>7. CASE FutexWake(t)
    BY <1>0, <1>7 DEF FutexWake, Sleepers, Stays
  <1> QED
    BY <1>1, <1>2, <1>3, <1>4, <1>5, <1>6, <1>7
    DEF Call, Advance, Disturb, Lock, Trylock, TrylockTimeout, TimedOut,
        FutexWaitFails

(* A thread without a reference can only finish its unlock().              *)
LEMMA ReleasedFinishes ==
  ASSUME LifeInv, NEW t \in Threads \ refs, Advance(t) \/ Disturb(t)
  PROVE  t \notin holding' /\ pc'[t] \in {"idle", "futex_wake"}
PROOF
  <1>1. t \notin holding /\ pc[t] \in {"idle", "store", "futex_wake"}
    BY DEF LifeInv, Released, WakeSteps
  <1>2. Store(t) \/ FutexWake(t) \/ FutexWakeFails(t)
    BY <1>1 DEF Advance, Disturb, Exchange, FutexWait, TimedOut, Unlock,
                Interrupted, FutexWaitFails
  <1> QED BY <1>1, <1>2
      DEF Store, FutexWake, FutexWakeFails, Sleepers, LifeInv, Inv, TypeOK

LEMMA UsePreserves ==
  ASSUME LifeInv, NEW t \in Threads, Use(t)
  PROVE  LifeInv'
PROOF
  <1>1. Inv'
    BY NextPreservesInv DEF LifeInv, Use, Next
  <1>2. refs' = refs /\ destroyer' = destroyer /\ alive' = alive
    BY DEF Use
  <1>3. ASSUME NEW u \in Threads \ refs
        PROVE  u \notin holding' /\ pc'[u] \in {"idle"} \cup WakeSteps
               /\ (pc'[u] = "store" => pc[u] = "store")
    <2>1. CASE u = t
      BY <2>1, ReleasedFinishes DEF Use, WakeSteps
    <2>2. CASE u # t
      BY <2>2, OthersStay DEF Stays, Use, LifeInv, Released, WakeSteps
    <2> QED BY <2>1, <2>2
  <1>4. Released'
    BY <1>2, <1>3 DEF Released
  <1>5. LastOneOut'
    BY <1>2, <1>3 DEF LifeInv, LastOneOut
  <1> QED BY <1>1, <1>2, <1>4, <1>5 DEF LifeInv

LEMMA GiveUpPreserves ==
  ASSUME LifeInv, NEW t \in Threads, GiveUpReference(t)
  PROVE  LifeInv'
PROOF
  <1>1. Unlock(t) /\ t \in refs /\ refs' = refs \ {t} /\ alive' = alive
        /\ destroyer' = IF refs = {t} THEN t ELSE NoThread
    BY DEF GiveUpReference
  <1>2. Inv'
    BY <1>1, NextPreservesInv DEF LifeInv, Next, Advance
  <1>3. alive
    BY <1>1 DEF LifeInv, LastOneOut
  <1>4. t \notin holding' /\ pc'[t] \in {"idle", "store"}
    BY <1>1 DEF Unlock, LifeInv, Inv, TypeOK
  <1>5. \A u \in Threads : u # t => pc'[u] = pc[u] /\ (u \in holding' <=> u \in holding)
    BY <1>1 DEF Unlock, LifeInv, Inv, TypeOK
  <1>6. Released'
    BY <1>1, <1>4, <1>5 DEF LifeInv, Released, WakeSteps
  <1>7. \A u \in Threads : pc[u] = "store" => u = t
    BY <1>1 DEF LifeInv, Inv, MutualExclusion, Owners, Unlock
  <1>8. LastOneOut'
    BY <1>1, <1>3, <1>5, <1>7 DEF LastOneOut
  <1> QED BY <1>1, <1>2, <1>6, <1>8 DEF LifeInv

LEMMA LifeNextPreserves == LifeInv /\ [LifeNext]_lifeVars => LifeInv'
PROOF
  <1> SUFFICES ASSUME LifeInv, [LifeNext]_lifeVars PROVE LifeInv'
    OBVIOUS
  <1>1. ASSUME UNCHANGED vars PROVE Inv'
    BY <1>1, NextPreservesInv DEF LifeInv
  <1>2. ASSUME NEW t \in Threads, Destroy(t) PROVE LifeInv'
    BY <1>1, <1>2, NoThreadAssumption
    DEF Destroy, LifeInv, Released, LastOneOut, vars
  <1>3. CASE UNCHANGED lifeVars
    BY <1>1, <1>3 DEF lifeVars, LifeInv, Released, LastOneOut, vars
  <1> QED BY <1>2, <1>3, UsePreserves, GiveUpPreserves DEF LifeNext

(* Whoever destroys the lock after its last unlock() returned, no thread   *)
(* reads or writes the word after that.                                    *)
THEOREM NeverUsedAfterDestroy == LifeSpec => []UntouchedOnceDestroyed
PROOF
  <1>1. LifeInv => UntouchedOnceDestroyed
    BY DEF LifeInv, Released, LastOneOut, UntouchedOnceDestroyed, WakeSteps
  <1> QED BY <1>1, LifeInitEstablishes, LifeNextPreserves, PTL DEF LifeSpec

-----------------------------------------------------------------------------
(* FutexSystem.                                                            *)
(*                                                                         *)
(* A thread that the Futex believes asleep is in the kernel's queue as its *)
(* futex_wait() put it there; everybody else in the queue sleeps on        *)
(* another word.                                                           *)

SleepOf(t) ==
  [word |-> Word, mask |-> AllBits, timed |-> waiting[t] = "timeout"]

QueueInv ==
  /\ DOMAIN queue \subseteq Threads
  /\ \A t \in Sleepers : t \in DOMAIN queue /\ queue[t] = SleepOf(t)
  /\ \A t \in DOMAIN queue \ Sleepers : queue[t].word # Word
  /\ others \in [OtherWords -> Values]

LEMMA AllBitsNotEmpty == AllBits # 0
PROOF
  <1>1. ArgMod * ArgMod \in Nat /\ ArgMod * ArgMod > 0
    BY ArgAssumption, SMTT(30)
  <1> QED BY <1>1 DEF AllBits, WordMod

(* What the invariant says of the queue, seen from the queue.              *)
LEMMA InQueue ==
  ASSUME QueueInv
  PROVE  /\ \A t \in DOMAIN queue : queue[t].word = Word <=> t \in Sleepers
         /\ \A t \in Sleepers : /\ t \in DOMAIN queue
                               /\ queue[t].mask = AllBits
                               /\ queue[t].timed = (waiting[t] = "timeout")
PROOF
  <1>1. \A t : /\ SleepOf(t).word = Word /\ SleepOf(t).mask = AllBits
              /\ SleepOf(t).timed = (waiting[t] = "timeout")
    BY DEF SleepOf
  <1> QED BY <1>1 DEF QueueInv

LEMMA QueueTells == QueueInv => QueueTellsSleepers
  BY InQueue DEF QueueTellsSleepers, K!On

LEMMA SystemInitEstablishes == SystemInit => Inv /\ QueueInv
PROOF
  <1> SUFFICES ASSUME SystemInit PROVE QueueInv
    BY InitEstablishesInv DEF SystemInit
  <1>1. DOMAIN queue = {} /\ Sleepers = {}
    BY DEF SystemInit, Init, K!Init, Sleepers
  <1> QED BY <1>1 DEF SystemInit, QueueInv

(* Nothing in the queue changes, nor who sleeps.                           *)
LEMMA SameQueueKeepsQueueInv ==
  ASSUME QueueInv, UNCHANGED queue, others' \in [OtherWords -> Values],
         NEW t \in Threads, t \notin Sleepers, pc'[t] # "asleep",
         \A u \in Threads \ {t} : pc'[u] = pc[u] /\ waiting'[u] = waiting[u]
  PROVE  QueueInv'
PROOF
  <1>1. Sleepers' = Sleepers
    BY DEF Sleepers
  <1>2. \A u \in Sleepers : u # t /\ u \in Threads
    BY DEF Sleepers
  <1>3. \A u \in Sleepers : waiting'[u] = waiting[u]
    BY <1>2
  <1> QED BY <1>1, <1>3 DEF QueueInv, SleepOf

-----------------------------------------------------------------------------
LEMMA AccessFacts ==
  ASSUME Inv, QueueInv, NEW t \in Threads, Access(t)
  PROVE  Next /\ QueueInv' /\ UNCHANGED << others, queue, last >>
PROOF
  <1>1. Next
    BY DEF Access, Next, Advance, Disturb
  <1>2. t \notin Sleepers
    BY DEF Access, QueueInv
  <1>3. /\ pc'[t] # "asleep"
        /\ \A u \in Threads \ {t} : pc'[u] = pc[u] /\ waiting'[u] = waiting[u]
    <2>1. CASE Call(t)
      BY <2>1 DEF Call, Lock, Trylock, TrylockTimeout, CompareExchange, EnterWait,
         Return, ReturnOwning, Inv, TypeOK
    <2>2. CASE Exchange(t)
      BY <2>2 DEF Exchange, ReturnOwning, Inv, TypeOK
    <2>3. CASE Unlock(t) \/ Store(t)
      BY <2>3 DEF Unlock, Store, Inv, TypeOK
    <2>4. CASE FutexWaitFails(t) \/ FutexWakeFails(t)
      BY <2>4 DEF FutexWaitFails, FutexWakeFails, Return, Inv, TypeOK
    <2> QED BY <2>1, <2>2, <2>3, <2>4 DEF Access
  <1> QED BY <1>1, <1>2, <1>3, SameQueueKeepsQueueInv DEF Access, QueueInv

(* futex_wait() puts the thread into the queue if the word is marked, and  *)
(* otherwise it answers EAGAIN.                                            *)
LEMMA WaitAnswers ==
  ASSUME NEW t \in Threads, K!Call(t, WaitCall(t))
  PROVE  /\ last'.call = WaitCall(t) /\ t \notin DOMAIN queue
         /\ \/ /\ value # LOCKED_WAITERS /\ last'.errno = "EAGAIN"
               /\ UNCHANGED queue
            \/ /\ value = LOCKED_WAITERS /\ last'.errno = "none"
               /\ queue' = [u \in DOMAIN queue \cup {t} |->
                              IF u = t THEN SleepOf(t) ELSE queue[u]]
PROOF
  <1> DEFINE c == WaitCall(t)
  <1>1. /\ c.fn = "futex_wait" /\ c.word = Word /\ c.expected = LOCKED_WAITERS
        /\ c.timed = (waiting[t] = "timeout")
    BY DEF WaitCall
  <1>2. K!Wait(t, c, AllBits) /\ t \notin DOMAIN queue
    <2> HIDE DEF c
    <2> QED BY <1>1 DEF K!Call, c
  <1>3. [w \in Words |-> IF w = Word THEN value ELSE others[w]][Word] = value
    BY WordAssumption
  <1> HIDE DEF c
  <1>4. \/ value # LOCKED_WAITERS /\ K!Fails(c, "EAGAIN")
        \/ /\ value = LOCKED_WAITERS /\ K!Answer(c, 0)
           /\ queue' = [u \in DOMAIN queue \cup {t} |->
                          IF u = t THEN SleepOf(t) ELSE queue[u]]
    BY <1>1, <1>2, <1>3, AllBitsNotEmpty DEF K!Wait, SleepOf
  <1> QED BY <1>2, <1>4 DEF K!Fails, K!Answer, c

LEMMA SysWaitFacts ==
  ASSUME Inv, QueueInv, NEW t \in Threads, SysWait(t)
  PROVE  FutexWait(t) /\ QueueInv'
PROOF
  <1>1. CASE value # LOCKED_WAITERS
    <2>1. last'.errno = "EAGAIN" /\ UNCHANGED queue
      BY <1>1, WaitAnswers DEF SysWait
    <2>2. /\ pc' = [pc EXCEPT ![t] = "exchange"]
          /\ UNCHANGED << waiting, ret, holding >>
      BY <2>1 DEF SysWait, AfterWait
    <2>3. FutexWait(t)
      BY <1>1, <2>2 DEF SysWait, FutexWait
    <2>4. QueueInv'
      BY <2>1, <2>2, SameQueueKeepsQueueInv DEF SysWait, QueueInv, Inv, TypeOK, Sleepers
    <2> QED BY <2>3, <2>4
  <1>2. CASE value = LOCKED_WAITERS
    <2>1. /\ last'.errno = "none" /\ t \notin DOMAIN queue
          /\ queue' = [u \in DOMAIN queue \cup {t} |->
                         IF u = t THEN SleepOf(t) ELSE queue[u]]
      BY <1>2, WaitAnswers DEF SysWait
    <2>2. /\ pc' = [pc EXCEPT ![t] = "asleep"]
          /\ UNCHANGED << waiting, ret, holding, others >>
      BY <2>1 DEF SysWait
    <2>3. FutexWait(t)
      BY <1>2, <2>2 DEF SysWait, FutexWait
    <2>4. Sleepers' = Sleepers \cup {t}
      BY <2>2 DEF Sleepers, Inv, TypeOK
    <2>5. \A u : SleepOf(u)' = SleepOf(u)
      BY <2>2 DEF SleepOf
    <2>6. QueueInv'
      BY <2>1, <2>2, <2>4, <2>5 DEF QueueInv
    <2> QED BY <2>3, <2>6
  <1> QED BY <1>1, <1>2

(* Sleepers that leave the queue.                                          *)
LEMMA LeavingKeepsQueueInv ==
  ASSUME QueueInv, NEW W, queue' = K!Without(W), UNCHANGED others,
         Sleepers' = Sleepers \ W,
         \A u \in Sleepers \ W : waiting'[u] = waiting[u]
  PROVE  QueueInv'
  BY DEF QueueInv, K!Without, SleepOf

LEMMA SysWaitEndsFacts ==
  ASSUME Inv, QueueInv, NEW t \in Threads, NEW e \in {"EINTR", "ETIMEDOUT"},
         SysWaitEnds(t, e)
  PROVE  (Interrupted(t) \/ TimedOut(t)) /\ QueueInv'
PROOF
  <1>1. /\ t \in Sleepers
        /\ e = "ETIMEDOUT" => waiting[t] = "timeout"
    BY InQueue DEF SysWaitEnds, K!GivesUp
  <1>2. CASE e = "EINTR"
    <2>1. Interrupted(t)
      BY <1>1, <1>2 DEF SysWaitEnds, AfterWait, Interrupted, Sleepers
    <2>2. Sleepers' = Sleepers \ {t} /\ UNCHANGED waiting
      BY <2>1 DEF Interrupted, Sleepers, Inv, TypeOK
    <2> QED BY <2>1, <2>2, LeavingKeepsQueueInv DEF SysWaitEnds, K!GivesUp
  <1>3. CASE e = "ETIMEDOUT"
    <2>1. TimedOut(t)
      BY <1>1, <1>3 DEF SysWaitEnds, AfterWait, TimedOut, Sleepers
    <2>2. /\ Sleepers' = Sleepers \ {t}
          /\ \A u \in Threads \ {t} : waiting'[u] = waiting[u]
      BY <2>1 DEF TimedOut, Return, Sleepers, Inv, TypeOK
    <2>3. \A u \in Sleepers \ {t} : waiting'[u] = waiting[u]
      BY <2>2 DEF Sleepers
    <2> QED BY <2>1, <2>2, <2>3, LeavingKeepsQueueInv DEF SysWaitEnds, K!GivesUp
  <1> QED BY <1>2, <1>3

(* One of a set, or none if there is none.                                 *)
LEMMA OneOf ==
  ASSUME NEW S, IsFiniteSet(S), NEW W \in SomeOf(S, 1)
  PROVE  /\ Cardinality(W) \in Nat
         /\ \/ S = {} /\ W = {}
            \/ \E u \in S : W = {u}
PROOF
  <1>1. W \subseteq S /\ IsFiniteSet(W)
    BY FS_Subset DEF SomeOf
  <1>2. Cardinality(S) \in Nat /\ Cardinality(W) \in Nat
    BY <1>1, FS_CardinalityType
  <1>3. CASE S = {}
    BY <1>1, <1>2, <1>3
  <1>4. CASE S # {}
    <2>1. Cardinality(S) # 0
      BY <1>4, FS_EmptySet
    <2>2. Cardinality(W) = 1
      BY <1>2, <2>1 DEF SomeOf
    <2>3. PICK u : W = {u}
      BY <1>1, <2>2, FS_Singleton
    <2> QED BY <1>1, <1>2, <2>3
  <1> QED BY <1>3, <1>4

(* The wake() of a Futex asks for one.                                     *)
LEMMA OneAsked == K!Asked(1) = 1
BY WordAssumption, CallsAssumption DEF K!Asked

(* futex_wake() finds the sleepers of the Futex and no others.             *)
LEMMA WakeAnswers ==
  ASSUME QueueInv, NEW t \in Threads, K!Call(t, WakeCall)
  PROVE  /\ last'.call = WakeCall /\ last'.result \in Nat /\ t \notin DOMAIN queue
         /\ \E W : /\ queue' = K!Without(W)
                   /\ \/ Sleepers = {} /\ W = {}
                      \/ \E u \in Sleepers : W = {u}
PROOF
  <1>1. /\ WakeCall.fn = "futex_wake" /\ WakeCall.word = Word
        /\ WakeCall.wakeups = 1 /\ K!Asked(1) = 1
    BY OneAsked DEF WakeCall
  <1>2. K!Wake(WakeCall, AllBits) /\ t \notin DOMAIN queue
    BY <1>1 DEF K!Call
  <1>3. K!OnWithMask(Word, AllBits) = Sleepers
    BY WordAssumption, InQueue DEF K!OnWithMask, K!On
  <1>4. PICK W \in SomeOf(Sleepers, 1) :
          queue' = K!Without(W) /\ K!Answer(WakeCall, Cardinality(W))
    BY <1>1, <1>2, <1>3, AllBitsNotEmpty DEF K!Wake
  <1>5. IsFiniteSet(Sleepers)
    BY WordAssumption, FS_Subset DEF Sleepers
  <1>6. /\ Cardinality(W) \in Nat
        /\ \/ Sleepers = {} /\ W = {}
           \/ \E u \in Sleepers : W = {u}
    BY <1>5, OneOf
  <1> QED BY <1>2, <1>4, <1>6 DEF K!Answer

LEMMA SysWakeFacts ==
  ASSUME Inv, QueueInv, NEW t \in Threads, SysWake(t)
  PROVE  FutexWake(t) /\ QueueInv'
PROOF
  <1>1. PICK W : /\ queue' = K!Without(W)
                 /\ \/ Sleepers = {} /\ W = {}
                    \/ \E u \in Sleepers : W = {u}
    BY WakeAnswers DEF SysWake
  <1>2. last'.result \in Nat
    BY WakeAnswers DEF SysWake
  <1>3. UNCHANGED wakeFailed
    BY <1>2 DEF SysWake, Inv, TypeOK
  <1>4. W \subseteq Sleepers /\ DOMAIN queue \ DOMAIN queue' = W
    BY <1>1 DEF K!Without, QueueInv
  <1>5. pc' = [u \in Threads |-> IF u = t THEN "idle"
                                 ELSE IF u \in W THEN "exchange" ELSE pc[u]]
    BY <1>4 DEF SysWake
  <1>6. FutexWake(t)
    <2>1. CASE Sleepers = {} /\ W = {}
      <3>1. pc' = [pc EXCEPT ![t] = "idle"]
        BY <1>5, <2>1 DEF Inv, TypeOK
      <3> QED BY <1>3, <2>1, <3>1 DEF SysWake, FutexWake
    <2>2. ASSUME NEW u \in Sleepers, W = {u} PROVE FutexWake(t)
      <3>1. u # t
        BY DEF SysWake, Sleepers
      <3>2. pc' = [pc EXCEPT ![t] = "idle", ![u] = "exchange"]
        BY <1>5, <2>2, <3>1 DEF Inv, TypeOK, Sleepers
      <3> QED BY <1>3, <2>2, <3>2 DEF SysWake, FutexWake
    <2> QED BY <1>1, <2>1, <2>2
  <1>7. Sleepers' = Sleepers \ W
    BY <1>4, <1>5 DEF SysWake, Sleepers
  <1> QED BY <1>1, <1>6, <1>7, LeavingKeepsQueueInv DEF SysWake

-----------------------------------------------------------------------------
(* Calls on other words leave the sleepers of the Futex where they are.    *)
LEMMA CallElsewhereKeepsQueueInv ==
  ASSUME Inv, QueueInv, NEW t \in Threads, NEW c \in Calls, CallElsewhere(t, c)
  PROVE  QueueInv' /\ last'.call = c
PROOF
  <1>1. /\ UNCHANGED vars /\ others' \in [OtherWords -> Values]
        /\ c.word # Word /\ t \notin DOMAIN queue
    BY DEF CallElsewhere, K!Call
  <1>2. Sleepers' = Sleepers /\ \A u : SleepOf(u)' = SleepOf(u)
    BY <1>1 DEF Sleepers, SleepOf, vars
  <1>3. t \notin Sleepers
    BY <1>1 DEF QueueInv
  <1>4. ASSUME NEW e, K!Fails(c, e) PROVE QueueInv' /\ last'.call = c
    BY <1>1, <1>2, <1>4 DEF K!Fails, QueueInv
  <1>5. ASSUME NEW W, W \cap Sleepers = {}, queue' = K!Without(W) PROVE QueueInv'
    BY <1>1, <1>2, <1>5 DEF QueueInv, K!Without
  <1>6. \A n : K!Answer(c, n) => last'.call = c
    BY DEF K!Answer
  <1>7. \A w : w # Word => K!On(w) \cap Sleepers = {}
    BY InQueue DEF K!On
  <1>8. ASSUME NEW m, K!Wait(t, c, m) PROVE QueueInv' /\ last'.call = c
    <2>1. CASE \E e : K!Fails(c, e)
      BY <2>1, <1>4
    <2>2. CASE ~ \E e : K!Fails(c, e)
      <3> DEFINE s == [word |-> c.word, mask |-> m, timed |-> c.timed]
      <3>1. /\ queue' = [u \in DOMAIN queue \cup {t} |->
                           IF u = t THEN s ELSE queue[u]]
            /\ K!Answer(c, 0)
        BY <1>8, <2>2 DEF K!Wait
      <3>2. s.word # Word
        BY <1>1
      <3> HIDE DEF s
      <3> QED BY <1>1, <1>2, <1>3, <1>6, <3>1, <3>2 DEF QueueInv
    <2> QED BY <2>1, <2>2
  <1>9. ASSUME NEW m, K!Wake(c, m) PROVE QueueInv' /\ last'.call = c
    <2>1. CASE \E e : K!Fails(c, e)
      BY <2>1, <1>4
    <2>2. CASE ~ \E e : K!Fails(c, e)
      <3>1. PICK W \in SomeOf(K!OnWithMask(c.word, m), K!Asked(c.wakeups)) :
              queue' = K!Without(W) /\ K!Answer(c, Cardinality(W))
        BY <1>9, <2>2 DEF K!Wake
      <3>2. W \cap Sleepers = {}
        BY <1>1, <1>7 DEF SomeOf, K!OnWithMask
      <3> QED BY <1>5, <1>6, <3>1, <3>2
    <2> QED BY <2>1, <2>2
  <1>10. ASSUME c.target # Word, K!CmpRequeue(c) PROVE QueueInv' /\ last'.call = c
    <2>1. CASE \E e : K!Fails(c, e)
      BY <2>1, <1>4
    <2>2. CASE ~ \E e : K!Fails(c, e)
      <3>1. PICK W \in SomeOf(K!On(c.word), c.wakeups) :
              \E R \in SomeOf(K!On(c.word) \ W, c.limit) :
                /\ queue' = [u \in DOMAIN queue \ W |->
                               IF u \in R THEN K!Moved(queue[u], c.target)
                                          ELSE queue[u]]
                /\ K!Answer(c, Cardinality(W) + Cardinality(R))
        BY <1>10, <2>2 DEF K!CmpRequeue
      <3>2. PICK R \in SomeOf(K!On(c.word) \ W, c.limit) :
                /\ queue' = [u \in DOMAIN queue \ W |->
                               IF u \in R THEN K!Moved(queue[u], c.target)
                                          ELSE queue[u]]
                /\ K!Answer(c, Cardinality(W) + Cardinality(R))
        BY <3>1
      <3>3. W \cap Sleepers = {} /\ R \cap Sleepers = {}
        BY <1>1, <1>7 DEF SomeOf
      <3>4. \A u : K!Moved(queue[u], c.target).word # Word
        BY <1>10 DEF K!Moved
      <3> QED BY <1>1, <1>2, <1>6, <3>2, <3>3, <3>4 DEF QueueInv
    <2> QED BY <2>1, <2>2
  <1>11. ASSUME c.target # Word, K!WakeOp(c) PROVE QueueInv' /\ last'.call = c
    <2>1. PICK W \in SomeOf(K!On(c.word), K!Asked(c.wakeups)) :
            \E V : /\ V \in SomeOf(K!On(c.target) \ W, K!Asked(c.wakeups2)) \/ V = {}
                   /\ queue' = K!Without(W \cup V)
                   /\ K!Answer(c, Cardinality(W) + Cardinality(V))
      BY <1>11 DEF K!WakeOp
    <2>2. PICK V : /\ V \in SomeOf(K!On(c.target) \ W, K!Asked(c.wakeups2)) \/ V = {}
                   /\ queue' = K!Without(W \cup V)
                   /\ K!Answer(c, Cardinality(W) + Cardinality(V))
      BY <2>1
    <2>3. (W \cup V) \cap Sleepers = {}
      BY <1>1, <1>7, <1>11, <2>2 DEF SomeOf
    <2> QED BY <1>5, <1>6, <2>2, <2>3
  <1> QED BY <1>8, <1>9, <1>10, <1>11 DEF CallElsewhere, K!Call

(* Every step of the system is a step of Futex, or invisible to it.        *)
LEMMA SystemNextFacts ==
  Inv /\ QueueInv /\ [SystemNext]_systemVars => [Next]_vars /\ Inv' /\ QueueInv'
PROOF
  <1> SUFFICES ASSUME Inv, QueueInv, [SystemNext]_systemVars
               PROVE  [Next]_vars /\ QueueInv'
    BY NextPreservesInv
  <1>1. ASSUME NEW t \in Threads, Access(t) PROVE [Next]_vars /\ QueueInv'
    BY <1>1, AccessFacts
  <1>2. ASSUME NEW t \in Threads, SysWait(t) \/ SysWake(t)
        PROVE  [Next]_vars /\ QueueInv'
    BY <1>2, SysWaitFacts, SysWakeFacts DEF Next, Advance
  <1>3. ASSUME NEW t \in Threads, NEW e \in {"EINTR", "ETIMEDOUT"}, SysWaitEnds(t, e)
        PROVE  [Next]_vars /\ QueueInv'
    BY <1>3, SysWaitEndsFacts DEF Next, Advance, Disturb
  <1>4. ASSUME NEW t \in Threads, NEW e \in {"EINTR", "ETIMEDOUT"},
               WaitElsewhereEnds(t, e)
        PROVE  [Next]_vars /\ QueueInv'
    <2>1. UNCHANGED vars /\ t \notin Sleepers
      BY <1>4, InQueue DEF WaitElsewhereEnds
    <2>2. Sleepers' = Sleepers \ {t} /\ UNCHANGED waiting
      BY <2>1 DEF Sleepers, vars
    <2> QED
      BY <1>4, <2>1, <2>2, LeavingKeepsQueueInv DEF WaitElsewhereEnds, K!GivesUp
  <1>5. ASSUME NEW t \in Threads, NEW c \in Calls, CallElsewhere(t, c)
        PROVE  [Next]_vars /\ QueueInv'
    BY <1>5, CallElsewhereKeepsQueueInv DEF CallElsewhere
  <1>6. ASSUME NEW w \in OtherWords, NEW v \in Values, StoreElsewhere(w, v)
        PROVE  [Next]_vars /\ QueueInv'
    <2>1. others' \in [OtherWords -> Values] /\ UNCHANGED << vars, queue >>
      BY <1>6 DEF StoreElsewhere, QueueInv
    <2> QED BY <2>1 DEF QueueInv, Sleepers, SleepOf, vars
  <1>7. CASE UNCHANGED systemVars
    BY <1>7 DEF systemVars, vars, QueueInv, Sleepers, SleepOf
  <1> QED BY <1>1, <1>2, <1>3, <1>4, <1>5, <1>6, <1>7 DEF SystemNext

LEMMA SystemInvariance == SystemSpec => [](Inv /\ QueueInv)
PROOF
  <1>1. (Inv /\ QueueInv) /\ [SystemNext]_systemVars => (Inv /\ QueueInv)'
    BY SystemNextFacts
  <1> QED BY <1>1, SystemInitEstablishes, PTL DEF SystemSpec

(* For any threads, words and calls on other words: the kernel's queue of  *)
(* the word of a Futex holds the threads that its lock() or                *)
(* trylock_timeout() put to sleep, each with its timeout if it has one.    *)
THEOREM QueueAlwaysTells == SystemSpec => []QueueTellsSleepers
  BY SystemInvariance, QueueTells, PTL

(* A Futex that sleeps and wakes by what FutexBase promises is the Futex   *)
(* of FutexProofs, with all of its theorems: exclusion, no forgotten       *)
(* sleeper, and the abstract lock.                                         *)
THEOREM SystemImplementsFutex == SystemSpec => ImplementsFutex
PROOF
  <1>1. SystemInit => Init
    BY DEF SystemInit
  <1>2. Inv /\ QueueInv /\ [SystemNext]_systemVars => [Next]_vars
    BY SystemNextFacts
  <1> QED BY <1>1, <1>2, SystemInvariance, PTL DEF SystemSpec, ImplementsFutex, Spec

(* The parameters that the Futex passes are some that FutexBase is for.    *)
LEMMA FutexCallsInCalls == \A t : WaitCall(t) \in Calls /\ WakeCall \in Calls
PROOF
  <1>1. \A t : WaitCall(t) \in [fn : {"futex_wait"}, word : Words,
                                expected : Values, timed : BOOLEAN]
    BY WordAssumption DEF WaitCall
  <1>2. WakeCall \in [fn : {"futex_wake"}, word : Words, wakeups : Counts]
    BY WordAssumption DEF WakeCall
  <1> QED BY <1>1, <1>2 DEF Calls

(* An access of the Futex to its word is a store of some value, as far as  *)
(* FutexBase can tell.                                                     *)
LEMMA AccessIsStore ==
  ASSUME NEW v, value' = v, UNCHANGED << others, queue, last >>
  PROVE  K!Store(Word, v)
  BY DEF K!Store

LEMMA CallIsNext ==
  ASSUME NEW t \in Threads, NEW c \in Calls, K!Call(t, c), last'.call = c
  PROVE  K!Next
  BY DEF K!Next

(* Together with everybody else's calls, the Futex makes the calls of      *)
(* FutexBase, with parameters that these are specified for, and no other   *)
(* use of the kernel.                                                      *)
THEOREM SystemUsesFutexCalls == SystemSpec => K!Spec
PROOF
  <1>1. SystemInit => K!Init
    BY DEF SystemInit
  <1>2. ASSUME Inv, QueueInv, [SystemNext]_systemVars PROVE [K!Next]_(K!vars)
    <2>1. ASSUME NEW t \in Threads, Access(t) PROVE K!Next
      <3>1. PICK v \in Values : value' = v
        BY <1>2, SystemNextFacts, WordAssumption DEF Inv, TypeOK
      <3>2. K!Store(Word, v)
        BY <2>1, <3>1, AccessIsStore DEF Access
      <3> QED BY <3>2, WordAssumption DEF K!Next
    <2>2. ASSUME NEW t \in Threads, SysWait(t) PROVE K!Next
      <3>1. PICK c \in Calls : c = WaitCall(t)
        BY FutexCallsInCalls
      <3>2. c.fn = "futex_wait"
        BY <3>1 DEF WaitCall
      <3>3. K!Call(t, c) /\ last'.call = c
        BY <2>2, <3>1, <3>2, WaitAnswers
        DEF SysWait, K!Call, K!Wait, K!Fails, K!Answer
      <3> QED BY <3>3, CallIsNext
    <2>3. ASSUME NEW t \in Threads, SysWake(t) PROVE K!Next
      <3>1. K!Call(t, WakeCall) /\ last'.call = WakeCall
        BY <1>2, <2>3, WakeAnswers DEF SysWake
      <3>2. WakeCall \in Calls
        BY FutexCallsInCalls
      <3> QED BY <3>1, <3>2, CallIsNext
    <2>4. ASSUME NEW t \in Threads, NEW e \in {"EINTR", "ETIMEDOUT"},
                 SysWaitEnds(t, e) \/ WaitElsewhereEnds(t, e)
          PROVE  K!Next
      BY <2>4 DEF SysWaitEnds, WaitElsewhereEnds, K!Next
    <2>5. ASSUME NEW t \in Threads, NEW c \in Calls, CallElsewhere(t, c)
          PROVE  K!Next
      <3>1. K!Call(t, c) /\ last'.call = c
        BY <1>2, <2>5, CallElsewhereKeepsQueueInv DEF CallElsewhere
      <3> QED BY <3>1, CallIsNext
    <2>6. ASSUME NEW w \in OtherWords, NEW v \in Values, StoreElsewhere(w, v)
          PROVE  K!Next
      <3>1. w \in Words /\ w # Word /\ UNCHANGED << value, queue, last >>
        BY <2>6 DEF OtherWords, StoreElsewhere, vars
      <3>2. others' = [others EXCEPT ![w] = v] /\ others \in [OtherWords -> Values]
        BY <1>2, <2>6 DEF StoreElsewhere, QueueInv
      <3>3. K!Store(w, v)
        BY <3>1, <3>2 DEF K!Store, OtherWords
      <3> QED BY <3>1, <3>3 DEF K!Next
    <2>7. CASE UNCHANGED systemVars
      BY <2>7 DEF systemVars, vars, K!vars
    <2> QED BY <1>2, <2>1, <2>2, <2>3, <2>4, <2>5, <2>6, <2>7 DEF SystemNext
  <1> QED BY <1>1, <1>2, SystemInvariance, PTL DEF SystemSpec, K!Spec
=============================================================================
