------------------------------ MODULE FutexCalls ------------------------------
(***************************************************************************)
(* What the calls of FutexBase (src/concurrentfw/futex.hpp) promise in     *)
(* terms of their own parameters: which threads sleep on which word, whom  *)
(* a call wakes or moves, what it does to a word, and what it answers.     *)
(* Nothing is said of registers or of how a kernel finds its sleepers.     *)
(***************************************************************************)
EXTENDS Integers

CONSTANTS
  Threads, Words, Values, Ints, Calls, NoCall,
  AllBits,             (* the bitset that shares a bit with every other    *)
  Overlap(_, _),       (* two bitsets have a bit in common                 *)
  Meaning(_),          (* an operation with its arguments as numbers       *)
  Apply(_, _),         (* what an operation makes of a value               *)
  Compare(_, _),       (* whether it lets the second wake-up happen        *)
  SomeOf(_, _),        (* the ways to pick so many threads of a set        *)
  Size(_)              (* how many threads there are in a set              *)

VARIABLES
  memory,      (* the value of each word                                   *)
  sleepers,    (* per sleeping thread: its word, its mask, and whether it  *)
               (* has a timeout                                            *)
  last         (* history: the latest call and its answer                  *)

vars == << memory, sleepers, last >>

Answer(c, n)   == last' = [call |-> c, errno |-> "none", result |-> n]
Fails(c, errno) == /\ last' = [call |-> c, errno |-> errno, result |-> -1]
                   /\ UNCHANGED << memory, sleepers >>

Init ==
  /\ memory \in [Words -> Values]
  /\ sleepers = [t \in {} |-> 0]
  /\ last = [call |-> NoCall, errno |-> "none", result |-> 0]

On(w) == {t \in DOMAIN sleepers : sleepers[t].word = w}

OnWithMask(w, mask) == {t \in On(w) : Overlap(sleepers[t].mask, mask)}

Moved(s, target) == [word |-> target, mask |-> s.mask, timed |-> s.timed]

Without(W) == [t \in DOMAIN sleepers \ W |-> sleepers[t]]

-----------------------------------------------------------------------------
(* The caller goes to sleep if the word is as expected; the answer 0 comes *)
(* when it is woken.                                                       *)
Wait(t, c, mask) ==
  \/ mask = 0 /\ Fails(c, "EINVAL")
  \/ mask # 0 /\ memory[c.word] # c.expected /\ Fails(c, "EAGAIN")
  \/ /\ mask # 0 /\ memory[c.word] = c.expected
     /\ sleepers' =
          [u \in DOMAIN sleepers \cup {t} |->
             IF u = t THEN [word |-> c.word, mask |-> mask, timed |-> c.timed]
                      ELSE sleepers[u]]
     /\ Answer(c, 0)
     /\ UNCHANGED memory

(* Who asks for none, or for a number that is no positive int, gets one.   *)
Asked(n) == IF n \in Ints /\ n > 0 THEN n ELSE 1

(* As many as asked for wake, of those whose masks share a bit with mask.  *)
Wake(c, mask) ==
  \/ mask = 0 /\ Fails(c, "EINVAL")
  \/ /\ mask # 0
     /\ \E W \in SomeOf(OnWithMask(c.word, mask), Asked(c.wakeups)) :
          sleepers' = Without(W) /\ Answer(c, Size(W))
     /\ UNCHANGED memory

(* Some wake and some of the others move to the target, but nobody does if *)
(* the word is not as expected.  A limit that is no int is refused, and so *)
(* is a negative number of wake-ups; none at all is fine here.             *)
CountsAllowed(c) == c.limit \in Ints /\ c.wakeups >= 0

CmpRequeue(c) ==
  \/ ~CountsAllowed(c) /\ Fails(c, "EINVAL")
  \/ CountsAllowed(c) /\ memory[c.word] # c.expected /\ Fails(c, "EAGAIN")
  \/ /\ CountsAllowed(c) /\ memory[c.word] = c.expected
     /\ \E W \in SomeOf(On(c.word), c.wakeups) :
          \E M \in SomeOf(On(c.word) \ W, c.limit) :
            /\ sleepers' = [t \in DOMAIN sleepers \ W |->
                              IF t \in M THEN Moved(sleepers[t], c.target)
                                         ELSE sleepers[t]]
            /\ Answer(c, Size(W) + Size(M))
     /\ UNCHANGED memory

(* The target changes, some wake on the word, and if the target was as the *)
(* comparison says, some wake on the target.                               *)
WakeOp(c) ==
  LET o   == Meaning(c.operation)
      new == Apply(o, memory[c.target])
  IN
  /\ new \in Values
  /\ memory' = [memory EXCEPT ![c.target] = new]
  /\ \E W \in SomeOf(On(c.word), Asked(c.wakeups)) :
       \E V \in IF Compare(o, memory[c.target])
                THEN SomeOf(On(c.target) \ W, Asked(c.wakeups2)) ELSE {{}} :
         sleepers' = Without(W \cup V) /\ Answer(c, Size(W) + Size(V))

Call(t, c) ==
  /\ t \notin DOMAIN sleepers
  /\ \/ c.fn = "futex_wait" /\ Wait(t, c, AllBits)
     \/ c.fn = "futex_wait_bitset" /\ Wait(t, c, c.mask)
     \/ c.fn = "futex_wake" /\ Wake(c, AllBits)
     \/ c.fn = "futex_wake_bitset" /\ Wake(c, c.mask)
     \/ c.fn = "futex_cmp_requeue" /\ CmpRequeue(c)
     \/ c.fn = "futex_wake_op" /\ WakeOp(c)

(* A sleeper leaves by itself: a signal, or its timeout.                   *)
GivesUp(t, errno) ==
  /\ t \in DOMAIN sleepers
  /\ errno = "ETIMEDOUT" => sleepers[t].timed
  /\ sleepers' = Without({t})
  /\ last' = [call |-> NoCall, errno |-> errno, result |-> -1]
  /\ UNCHANGED memory

(* The program writes to a word.                                           *)
Store(w, v) ==
  /\ memory' = [memory EXCEPT ![w] = v]
  /\ UNCHANGED << sleepers, last >>

Next ==
  \/ \E c \in Calls : last'.call = c /\ \E t \in Threads : Call(t, c)
  \/ \E t \in Threads, errno \in {"EINTR", "ETIMEDOUT"} : GivesUp(t, errno)
  \/ \E w \in Words, v \in Values : Store(w, v)

Spec == Init /\ [][Next]_vars
=============================================================================
