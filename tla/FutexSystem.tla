---------------------------- MODULE FutexSystem ----------------------------
(***************************************************************************)
(* A Futex among other users of FutexBase.  Futex derives from FutexBase   *)
(* and hands its waiting and waking to futex_wait() and futex_wake(); the  *)
(* module Futex says at once what comes of that.  Here the two functions   *)
(* are calls of FutexBase as the module FutexCalls promises them: who      *)
(* sleeps is in the kernel's queue, which the process shares with futexes  *)
(* that have other words, and what a thread does next depends on the       *)
(* result and errno that it gets.  Nobody else can name the word of a      *)
(* Futex, which is private to FutexBase.                                   *)
(***************************************************************************)
EXTENDS Futex, FutexArguments

CONSTANT Word          (* the word of the Futex                            *)

(* The last part is a fact about the function And, for any ArgMod.         *)
ASSUME WordAssumption ==
  /\ Word \in Words
  /\ {UNLOCKED, LOCKED_NOWAITERS, LOCKED_WAITERS} \subseteq Values
  /\ 1 \in Counts
  /\ IsFiniteSet(Threads)
  /\ Overlap(AllBits, AllBits)

VARIABLES
  others,      (* the values of the other words                            *)
  queue,       (* per sleeping thread: its word, its mask, and whether it  *)
               (* has a timeout                                            *)
  last         (* history: the latest call and its answer                  *)

systemVars == << vars, others, queue, last >>

K == INSTANCE FutexCalls WITH
       memory <- [w \in Words |-> IF w = Word THEN value ELSE others[w]],
       sleepers <- queue,
       Size <- Cardinality

OtherWords == Words \ {Word}

SystemInit ==
  /\ Init
  /\ others \in [OtherWords -> Values]
  /\ K!Init

-----------------------------------------------------------------------------
(* The steps of Futex that no other thread's sleep depends on: an access   *)
(* to the word, or a system call that fails for a reason of its own.       *)
Access(t) ==
  /\ t \notin DOMAIN queue
  /\ \/ Call(t) \/ Exchange(t) \/ Unlock(t) \/ Store(t)
     \/ FutexWaitFails(t) \/ FutexWakeFails(t)
  /\ UNCHANGED << others, queue, last >>

(* What wait() and wait_timeout() make of an errno of futex_wait().        *)
AfterWait(t, errno) ==
  \/ /\ errno \in {"EAGAIN", "EINTR"}
     /\ pc' = [pc EXCEPT ![t] = "exchange"]
     /\ UNCHANGED << waiting, ret, holding >>
  \/ /\ errno \notin {"EAGAIN", "EINTR"}
     /\ Return(t, IF errno = "ETIMEDOUT" /\ waiting[t] = "timeout"
                  THEN "false" ELSE "throw")

(* Mutant of WaitCall: the word is expected as the first waiter found it.  *)
WaitCallUnmarked(t) ==
  [fn |-> "futex_wait", word |-> Word, expected |-> LOCKED_NOWAITERS,
   timed |-> waiting[t] = "timeout"]

(* Mutant of WaitCall: wait_timeout() leaves out its timeout, for which    *)
(* futex_wait() has a default.                                             *)
WaitCallUntimed(t) ==
  [fn |-> "futex_wait", word |-> Word, expected |-> LOCKED_WAITERS,
   timed |-> FALSE]

WaitCall(t) ==
  [fn |-> "futex_wait", word |-> Word, expected |-> LOCKED_WAITERS,
   timed |-> waiting[t] = "timeout"]

SysWait(t) ==
  /\ pc[t] = "futex_wait"
  /\ UNCHANGED << value, others, wakeFailed >>
  /\ K!Call(t, WaitCall(t))
  /\ \/ /\ last'.errno = "none"
        /\ pc' = [pc EXCEPT ![t] = "asleep"]
        /\ UNCHANGED << waiting, ret, holding >>
     \/ last'.errno # "none" /\ AfterWait(t, last'.errno)

(* futex_wait() returns although nobody has woken the thread.              *)
SysWaitEnds(t, errno) ==
  /\ t \in DOMAIN queue /\ queue[t].word = Word
  /\ UNCHANGED << value, others, wakeFailed >>
  /\ K!GivesUp(t, errno)
  /\ AfterWait(t, errno)

WakeCall == [fn |-> "futex_wake", word |-> Word, wakeups |-> 1]

(* futex_wake(): who is out of the queue goes on in its waiting loop, and  *)
(* a negative result is thrown.                                            *)
SysWake(t) ==
  /\ pc[t] = "futex_wake"
  /\ UNCHANGED << value, others, waiting, ret, holding >>
  /\ K!Call(t, WakeCall)
  /\ pc' = [u \in Threads |->
              IF u = t THEN "idle"
              ELSE IF u \in DOMAIN queue \ DOMAIN queue' THEN "exchange" ELSE pc[u]]
  /\ wakeFailed' = (wakeFailed \/ last'.result < 0)

-----------------------------------------------------------------------------
(* The other users of FutexBase, between their calls of the Futex.         *)
CallElsewhere(t, c) ==
  /\ pc[t] = "idle"
  /\ c.word # Word
  /\ c.fn \in {"futex_cmp_requeue", "futex_wake_op"} => c.target # Word
  /\ others' \in [OtherWords -> Values]
  /\ UNCHANGED vars
  /\ K!Call(t, c)

WaitElsewhereEnds(t, errno) ==
  /\ t \in DOMAIN queue /\ queue[t].word # Word
  /\ UNCHANGED << vars, others >>
  /\ K!GivesUp(t, errno)

StoreElsewhere(w, v) ==
  /\ others' = [others EXCEPT ![w] = v]
  /\ UNCHANGED << vars, queue, last >>

SystemNext ==
  \/ \E t \in Threads :
       \/ Access(t) \/ SysWait(t) \/ SysWake(t)
       \/ \E errno \in {"EINTR", "ETIMEDOUT"} :
            SysWaitEnds(t, errno) \/ WaitElsewhereEnds(t, errno)
       \/ \E c \in Calls : CallElsewhere(t, c)
  \/ \E w \in OtherWords, v \in Values : StoreElsewhere(w, v)

SystemSpec == SystemInit /\ [][SystemNext]_systemVars

-----------------------------------------------------------------------------
(* The kernel's queue of the word holds the threads that are in a waiting  *)
(* loop of the Futex, and no others: nobody who sleeps on another word or  *)
(* was moved there; and who called trylock_timeout() is there with its     *)
(* timeout, who called lock() without.                                     *)
QueueTellsSleepers ==
  /\ K!On(Word) = Sleepers
  /\ \A t \in Sleepers : queue[t].timed <=> waiting[t] = "timeout"

(* What is said of Futex holds of one that sleeps by means of FutexBase:   *)
(* a wake-up takes one sleeper of this word, a signal, a timeout and a     *)
(* changed word are told apart, and lock() never gives up.                 *)
ImplementsFutex == Spec
=============================================================================
