------------------------------ MODULE FutexBase ------------------------------
(***************************************************************************)
(* FutexBase (src/concurrentfw/futex.hpp): every call packs its parameters *)
(* into the six arguments of the system call futex(2), some of which have  *)
(* to share: the fourth is a timeout or a count, the sixth an expected     *)
(* value, a bitset or an operation in 32 bits.  The kernel unpacks them,   *)
(* and keeps one queue, in which a sleeper is found by its address and by  *)
(* whether it said that the futex is private to its process.               *)
(*                                                                         *)
(* A system call is one step: the kernel holds the locks of its queue.     *)
(***************************************************************************)
EXTENDS FutexArguments

CONSTANT Threads

VARIABLES
  memory,      (* FutexBase::value of each object                          *)
  queue,       (* per sleeping thread: what it sleeps on                   *)
  last         (* history: the latest call and its answer                  *)

vars == << memory, queue, last >>

Nowhere == << >>   (* nullptr *)

(* What the calls promise.                                                 *)
F == INSTANCE FutexCalls WITH
       Size <- Cardinality,
       sleepers <- [t \in DOMAIN queue |-> [word  |-> queue[t].key.addr,
                                            mask  |-> queue[t].mask,
                                            timed |-> queue[t].timed]]

Init ==
  /\ memory \in [Words -> Values]
  /\ queue = [t \in {} |-> 0]
  /\ last = [call |-> NoCall, errno |-> "none", result |-> 0]

Answer(c, errno, n) == last' = [call |-> c, errno |-> errno, result |-> n]
Refuse(c, errno) == Answer(c, errno, -1) /\ UNCHANGED << memory, queue >>

-----------------------------------------------------------------------------
(* The kernel: its queue, and the six commands.                            *)
Key(op, addr) == [addr |-> addr, private |-> op.private]

At(key) == {t \in DOMAIN queue : queue[t].key = key}

Moved(q, target) == [key |-> target, mask |-> q.mask, timed |-> q.timed]

Without(W) == [t \in DOMAIN queue \ W |-> queue[t]]

KernelWait(t, c, key, val, timed, mask) ==
  \/ mask = 0 /\ Refuse(c, "EINVAL")
  \/ mask # 0 /\ memory[key.addr] # val /\ Refuse(c, "EAGAIN")
  \/ /\ mask # 0 /\ memory[key.addr] = val
     /\ queue' = [u \in DOMAIN queue \cup {t} |->
                    IF u = t THEN [key |-> key, mask |-> mask, timed |-> timed]
                             ELSE queue[u]]
     /\ Answer(c, "none", 0)
     /\ UNCHANGED memory

(* Wake-ups are counted after the fact, which makes one of any n below.    *)
AtLeastOne(n) == IF n < 1 THEN 1 ELSE n

KernelWake(c, key, n, mask) ==
  \/ mask = 0 /\ Refuse(c, "EINVAL")
  \/ /\ mask # 0
     /\ \E W \in SomeOf({t \in At(key) : Overlap(queue[t].mask, mask)},
                     AtLeastOne(n)) :
          queue' = Without(W) /\ Answer(c, "none", Cardinality(W))
     /\ UNCHANGED memory

KernelCmpRequeue(c, key, n, limit, target, val) ==
  \/ (n < 0 \/ limit < 0) /\ Refuse(c, "EINVAL")
  \/ n >= 0 /\ limit >= 0 /\ memory[key.addr] # val /\ Refuse(c, "EAGAIN")
  \/ /\ n >= 0 /\ limit >= 0 /\ memory[key.addr] = val
     /\ \E W \in SomeOf(At(key), n) :
          \E M \in SomeOf(At(key) \ W, limit) :
            /\ queue' = [t \in DOMAIN queue \ W |->
                           IF t \in M THEN Moved(queue[t], target)
                                      ELSE queue[t]]
            /\ Answer(c, "none", Cardinality(W) + Cardinality(M))
     /\ UNCHANGED memory

(* The fields of the 32 bits of FUTEX_WAKE_OP, its arguments signed.       *)
Decode(bits) ==
  LET top == bits \div (ArgMod * ArgMod) IN
  [op     |-> OpNames[1 + ((top \div 16) % 8)],
   shift  |-> top \div 128 = 1,
   oparg  |-> ToSigned((bits \div ArgMod) % ArgMod, ArgMod),
   cmp    |-> CmpNames[1 + (top % 16)],
   cmparg |-> ToSigned(bits % ArgMod, ArgMod)]

KernelWakeOp(c, key, n, n2, target, o) ==
  LET new == Apply(o, memory[target.addr]) IN
  /\ new \in Values                   (* the bound on the words' values    *)
  /\ memory' = [memory EXCEPT ![target.addr] = new]
  /\ \E W \in SomeOf(At(key), AtLeastOne(n)) :
       \E V \in IF Compare(o, memory[target.addr])
                THEN SomeOf(At(target) \ W, AtLeastOne(n2)) ELSE {{}} :
         /\ queue' = Without(W \cup V)
         /\ Answer(c, "none", Cardinality(W) + Cardinality(V))

(* syscall(SYS_futex, ...) on behalf of call c of thread t: reg4 is a      *)
(* timeout for the waits, and for the two calls with two words a count,    *)
(* which the kernel takes for an int.                                      *)
Syscall(t, c, addr1, op, val1, reg4, addr2, val3) ==
  LET key  == Key(op, addr1)
      key2 == Key(op, addr2)
  IN /\ t \notin DOMAIN queue
     /\ \/ op.cmd = "WAIT" /\ KernelWait(t, c, key, val1, reg4, AllBits)
        \/ op.cmd = "WAIT_BITSET" /\ KernelWait(t, c, key, val1, reg4, UInt32(val3))
        \/ op.cmd = "WAKE" /\ KernelWake(c, key, val1, AllBits)
        \/ op.cmd = "WAKE_BITSET" /\ KernelWake(c, key, val1, UInt32(val3))
        \/ /\ op.cmd = "CMP_REQUEUE"
           /\ KernelCmpRequeue(c, key, val1, Int32(reg4), key2, val3)
        \/ /\ op.cmd = "WAKE_OP"
           /\ KernelWakeOp(c, key, val1, Int32(reg4), key2, Decode(UInt32(val3)))

-----------------------------------------------------------------------------
(* The calls.                                                              *)
Private(cmd) == [cmd |-> cmd, private |-> TRUE]

futex_wait(t, c) ==
  Syscall(t, c, c.word, Private("WAIT"), c.expected, c.timed, Nowhere, 0)

futex_wake(t, c) ==
  Syscall(t, c, c.word, Private("WAKE"), c.wakeups, FALSE, Nowhere, 0)

(* Mutant of futex_cmp_requeue: the target is left out, as in futex_wake.  *)
futex_cmp_requeue_no_target(t, c) ==
  Syscall(t, c, c.word, Private("CMP_REQUEUE"), c.wakeups, c.limit, Nowhere,
          c.expected)

futex_cmp_requeue(t, c) ==
  Syscall(t, c, c.word, Private("CMP_REQUEUE"), c.wakeups, c.limit, c.target,
          c.expected)

(* The enumerators are the constants of linux/futex.h.                     *)
Op  == [SET |-> 0, ADD |-> 1, OR |-> 2, ANDN |-> 3, XOR |-> 4]
Cmp == [EQ |-> 0, NE |-> 1, LT |-> 2, LE |-> 3, GT |-> 4, GE |-> 5]
OpArgShift(shift) == IF shift THEN 1 ELSE 0

(* Mutant of Encode: & 0x7FF, which loses the sign of an argument.         *)
EncodeUnsigned(o) ==
  (o.cmparg % (ArgMod \div 2)) + ArgMod * (o.oparg % (ArgMod \div 2))
    + ArgMod * ArgMod * (Cmp[o.cmp] + 16 * Op[o.op] + 128 * OpArgShift(o.shift))

Encode(o) ==
  (o.cmparg % ArgMod) + ArgMod * (o.oparg % ArgMod)
    + ArgMod * ArgMod * (Cmp[o.cmp] + 16 * Op[o.op] + 128 * OpArgShift(o.shift))

futex_wake_op(t, c) ==
  Syscall(t, c, c.word, Private("WAKE_OP"), c.wakeups, c.wakeups2, c.target,
          Int32(Encode(c.operation)))

futex_wait_bitset(t, c) ==
  Syscall(t, c, c.word, Private("WAIT_BITSET"), c.expected, c.timed, Nowhere,
          Int32(c.mask))

futex_wake_bitset(t, c) ==
  Syscall(t, c, c.word, Private("WAKE_BITSET"), c.wakeups, FALSE, Nowhere,
          Int32(c.mask))

Call(t, c) ==
  \/ c.fn = "futex_wait" /\ futex_wait(t, c)
  \/ c.fn = "futex_wake" /\ futex_wake(t, c)
  \/ c.fn = "futex_cmp_requeue" /\ futex_cmp_requeue(t, c)
  \/ c.fn = "futex_wake_op" /\ futex_wake_op(t, c)
  \/ c.fn = "futex_wait_bitset" /\ futex_wait_bitset(t, c)
  \/ c.fn = "futex_wake_bitset" /\ futex_wake_bitset(t, c)

(* A signal or a timeout takes a sleeper out of the queue.                 *)
GiveUp(t, errno) ==
  /\ t \in DOMAIN queue
  /\ errno = "ETIMEDOUT" => queue[t].timed
  /\ queue' = Without({t})
  /\ last' = [call |-> NoCall, errno |-> errno, result |-> -1]
  /\ UNCHANGED memory

Store(w, v) ==
  /\ memory' = [memory EXCEPT ![w] = v]
  /\ UNCHANGED << queue, last >>

Next ==
  \/ \E t \in Threads, c \in Calls : Call(t, c)
  \/ \E t \in Threads, errno \in {"EINTR", "ETIMEDOUT"} : GiveUp(t, errno)
  \/ \E w \in Words, v \in Values : Store(w, v)

Spec == Init /\ [][Next]_vars

-----------------------------------------------------------------------------
(* The types of the variables: every sleeper is in the queue of one of the *)
(* words, with a bitset that some waker can match.                         *)
TypeOK ==
  /\ memory \in [Words -> Values]
  /\ DOMAIN queue \subseteq Threads
  /\ \A t \in DOMAIN queue :
       queue[t] \in [key : [addr : Words, private : BOOLEAN],
                     mask : UInts \ {0}, timed : BOOLEAN]

(* Each call does what its parameters say, whatever they become on their   *)
(* way through the system call: it wakes and moves the right threads of    *)
(* the right word, applies the right operation, and answers how many.      *)
ImplementsFutexCalls == F!Spec
=============================================================================
