--------------------------- MODULE FutexBaseProofs ---------------------------
(***************************************************************************)
(* Proofs about FutexBase, for any threads, words and arguments.           *)
(*                                                                         *)
(* First the arithmetic: a bitset survives the cast to int and back, of an *)
(* operation the 12 lower bits of each argument survive the 32 bits that   *)
(* FUTEX_WAKE_OP takes it in, and a count that is no int comes out         *)
(* negative.  Then the invariant, that every sleeper said its futex is     *)
(* private and so is found by every waker, and with it the refinement,     *)
(* call by call.                                                           *)
(***************************************************************************)
EXTENDS FutexBase, TLAPS

(* The width of a word is even, and the ranges of int and uint32_t halve   *)
(* it.                                                                     *)
LEMMA WordModEven == WordMod \in Nat /\ WordMod > 1 /\ WordMod % 2 = 0
PROOF
  <1>1. ArgMod * ArgMod \in Nat /\ ArgMod * ArgMod > 0
    BY ArgAssumption, SMTT(30)
  <1> QED BY <1>1 DEF WordMod

LEMMA CastAndBack == \A x \in UInts : UInt32(Int32(x)) = x
BY WordModEven DEF UInts, UInt32, Int32, ToSigned

LEMMA LimitAsInt ==
  \A x \in UInts : /\ x \in Ints => Int32(x) = x /\ Int32(x) >= 0
                   /\ x \notin Ints => Int32(x) < 0
BY WordModEven DEF UInts, Ints, Int32, ToSigned

(* Two digits in base ArgMod below a third number.                         *)
LEMMA Digits ==
  ASSUME NEW lo \in 0 .. ArgMod - 1, NEW mid \in 0 .. ArgMod - 1, NEW top \in 0 .. 255
  PROVE  LET n == lo + ArgMod * mid + (ArgMod * ArgMod) * top IN
         /\ n \in UInts
         /\ n % ArgMod = lo
         /\ (n \div ArgMod) % ArgMod = mid
         /\ n \div (ArgMod * ArgMod) = top
PROOF
  <1> DEFINE A == ArgMod
             S == A * A
             n == lo + A * mid + S * top
  <1>1. A \in Nat /\ A > 1 /\ lo \in 0 .. A - 1 /\ mid \in 0 .. A - 1 /\ top \in 0 .. 255
    BY ArgAssumption
  <1>2. S \in Nat /\ S > 0 /\ lo + A * mid \in 0 .. S - 1
    <2>1. A * mid \in Nat /\ A * mid <= A * (A - 1)
      BY <1>1, SMTT(30)
    <2>2. A * (A - 1) = A * A - A /\ A * A \in Nat /\ A * A > 0
      BY <1>1, SMTT(30)
    <2> QED BY <1>1, <2>1, <2>2
  <1>3. n = lo + A * (mid + A * top)
    <2> HIDE DEF A
    <2> QED BY <1>1, SMTT(30)
  <1>4. mid + A * top \in Nat
    BY <1>1, SMTT(30)
  <1>5. n % A = lo /\ n \div A = mid + A * top
    <2> DEFINE m == mid + A * top
    <2> HIDE DEF A, m, n
    <2>1. (lo + A * m) % A = lo /\ (lo + A * m) \div A = m
      BY <1>1, <1>4, SMTT(30) DEF m
    <2> QED BY <1>3, <2>1 DEF m
  <1>6. (mid + A * top) % A = mid
    <2> HIDE DEF A
    <2> QED BY <1>1, SMTT(30)
  <1>7. n \div S = top /\ n \in 0 .. 256 * S - 1
    <2> DEFINE l == lo + A * mid
    <2>1. n = l + S * top /\ l \in 0 .. S - 1 /\ S \in Nat /\ S > 0
      BY <1>2
    <2> HIDE DEF l, S, n
    <2>2. (l + S * top) \div S = top
      BY <1>1, <2>1, SMTT(30)
    <2>3. l + S * top \in 0 .. 256 * S - 1
      BY <1>1, <2>1, SMTT(30)
    <2> QED BY <2>1, <2>2, <2>3
  <1> QED BY <1>5, <1>6, <1>7 DEF UInts, WordMod

(* A count of wake-ups given as an int, or as the uint32_t that the kernel *)
(* takes for an int.                                                       *)
LEMMA CountsAsAsked ==
  /\ \A n \in Ints : AtLeastOne(n) = F!Asked(n)
  /\ \A x \in UInts : AtLeastOne(Int32(x)) = F!Asked(x)
PROOF
  <1>1. \A n \in Ints : n \in Int
    BY WordModEven DEF Ints
  <1>2. \A n \in Ints : AtLeastOne(n) = F!Asked(n)
    BY <1>1 DEF AtLeastOne, F!Asked
  <1>3. ASSUME NEW x \in UInts PROVE AtLeastOne(Int32(x)) = F!Asked(x)
    <2>1. CASE x \in Ints
      BY <1>2, <2>1, LimitAsInt
    <2>2. CASE x \notin Ints
      <3>1. Int32(x) < 1
        BY <2>2, WordModEven DEF UInts, Ints, Int32, ToSigned
      <3> QED BY <2>2, <3>1 DEF AtLeastOne, F!Asked
    <2> QED BY <2>1, <2>2
  <1> QED BY <1>2, <1>3

(* What an argument leaves in the 12 bits.                                 *)
LEMMA ArgFits ==
  ASSUME NEW x \in UInt16s
  PROVE  x % ArgMod \in 0 .. ArgMod - 1
PROOF
  <1>1. x \in Nat /\ ArgMod \in Nat /\ ArgMod > 1
    BY ArgAssumption DEF UInt16s
  <1> QED BY <1>1, SMTT(30)

(* The kernel unpacks what the operation that futex_wake_op packs means.   *)
LEMMA OperationSurvives ==
  ASSUME NEW o \in OperationType
  PROVE  Decode(UInt32(Int32(Encode(o)))) = Meaning(o)
PROOF
  <1> DEFINE lo  == o.cmparg % ArgMod
             mid == o.oparg % ArgMod
             top == Cmp[o.cmp] + 16 * Op[o.op] + 128 * OpArgShift(o.shift)
             n   == Encode(o)
  <1>1. o.cmparg \in UInt16s /\ o.oparg \in UInt16s
    BY DEF OperationType
  <1>2. /\ lo \in 0 .. ArgMod - 1 /\ ToSigned(lo, ArgMod) = Signed(o.cmparg)
        /\ mid \in 0 .. ArgMod - 1 /\ ToSigned(mid, ArgMod) = Signed(o.oparg)
    BY <1>1, ArgFits DEF Signed
  <1>3. \E i \in 1 .. 5 : o.op = OpNames[i] /\ Op[o.op] = i - 1
    BY DEF OperationType, OpNames, Op
  <1>4. \E i \in 1 .. 6 : o.cmp = CmpNames[i] /\ Cmp[o.cmp] = i - 1
    BY DEF OperationType, CmpNames, Cmp
  <1>5. o.shift \in BOOLEAN /\ OpArgShift(o.shift) \in {0, 1}
        /\ (OpArgShift(o.shift) = 1 <=> o.shift)
    BY DEF OperationType, OpArgShift
  <1>6. /\ top \in 0 .. 255
        /\ top % 16 = Cmp[o.cmp]
        /\ (top \div 16) % 8 = Op[o.op]
        /\ (top \div 128 = 1) = o.shift
    <2>1. PICK i \in 0 .. 4 : Op[o.op] = i
      BY <1>3
    <2>2. PICK j \in 0 .. 5 : Cmp[o.cmp] = j
      BY <1>4
    <2>3. PICK k \in {0, 1} : OpArgShift(o.shift) = k
      BY <1>5
    <2>4. top = j + 16 * i + 128 * k
      BY <2>1, <2>2, <2>3
    <2>5. /\ j + 16 * i + 128 * k \in 0 .. 255
          /\ (j + 16 * i + 128 * k) % 16 = j
          /\ ((j + 16 * i + 128 * k) \div 16) % 8 = i
          /\ (j + 16 * i + 128 * k) \div 128 = k
      BY SMTT(30)
    <2> QED BY <1>5, <2>1, <2>2, <2>3, <2>4, <2>5
  <1>7. n = lo + ArgMod * mid + (ArgMod * ArgMod) * top
    BY DEF Encode
  <1> HIDE DEF lo, mid, top, n
  <1>8. /\ n \in UInts /\ n % ArgMod = lo /\ (n \div ArgMod) % ArgMod = mid
        /\ n \div (ArgMod * ArgMod) = top
    BY <1>2, <1>6, <1>7, Digits
  <1>9. Decode(n) = Meaning(o)
    <2>1. OpNames[1 + ((top \div 16) % 8)] = o.op
      BY <1>3, <1>6
    <2>2. CmpNames[1 + (top % 16)] = o.cmp
      BY <1>4, <1>6
    <2> QED BY <1>2, <1>6, <1>8, <2>1, <2>2 DEF Decode, Meaning
  <1> QED BY <1>8, <1>9, CastAndBack DEF n

-----------------------------------------------------------------------------
PrivateKey(w) == [addr |-> w, private |-> TRUE]

(* A sleeper in the queue of a word, which said that its futex is private. *)
PrivateSleepers ==
  [key : {PrivateKey(w) : w \in Words}, mask : UInts \ {0}, timed : BOOLEAN]

Inv ==
  /\ memory \in [Words -> Values]
  /\ DOMAIN queue \subseteq Threads
  /\ \A t \in DOMAIN queue : queue[t] \in PrivateSleepers

LEMMA KeyPrivate == \A cmd, w : Key(Private(cmd), w) = PrivateKey(w)
BY DEF Key, Private, PrivateKey

(* Each call as the kernel sees it, with its arguments unpacked.           *)
Unpacked(t, c) ==
  /\ t \notin DOMAIN queue
  /\ \/ c.fn = "futex_wait"
        /\ KernelWait(t, c, PrivateKey(c.word), c.expected, c.timed, AllBits)
     \/ c.fn = "futex_wait_bitset"
        /\ KernelWait(t, c, PrivateKey(c.word), c.expected, c.timed, c.mask)
     \/ c.fn = "futex_wake" /\ KernelWake(c, PrivateKey(c.word), c.wakeups, AllBits)
     \/ c.fn = "futex_wake_bitset" /\ KernelWake(c, PrivateKey(c.word), c.wakeups, c.mask)
     \/ /\ c.fn = "futex_cmp_requeue"
        /\ KernelCmpRequeue(c, PrivateKey(c.word), c.wakeups, Int32(c.limit), PrivateKey(c.target),
                            c.expected)
     \/ /\ c.fn = "futex_wake_op"
        /\ KernelWakeOp(c, PrivateKey(c.word), c.wakeups, Int32(c.wakeups2),
                        PrivateKey(c.target), Meaning(c.operation))

LEMMA CallUnpacked ==
  ASSUME NEW t \in Threads, NEW c \in Calls, Call(t, c)
  PROVE  Unpacked(t, c)
PROOF
  <1> USE KeyPrivate
  <1>1. CASE c.fn = "futex_wait" /\ futex_wait(t, c)
    BY <1>1 DEF futex_wait, Syscall, Unpacked, Private
  <1>2. CASE c.fn = "futex_wake" /\ futex_wake(t, c)
    BY <1>2 DEF futex_wake, Syscall, Unpacked, Private
  <1>3. CASE c.fn = "futex_cmp_requeue" /\ futex_cmp_requeue(t, c)
    BY <1>3 DEF futex_cmp_requeue, Syscall, Unpacked, Private
  <1>4. CASE c.fn = "futex_wake_op" /\ futex_wake_op(t, c)
    <2>1. c.operation \in OperationType
      BY <1>4, CallsAssumption DEF Calls
    <2>2. Decode(UInt32(Int32(Encode(c.operation)))) = Meaning(c.operation)
      BY <2>1, OperationSurvives
    <2> QED BY <1>4, <2>2 DEF futex_wake_op, Syscall, Unpacked, Private
  <1>5. CASE c.fn = "futex_wait_bitset" /\ futex_wait_bitset(t, c)
    <2>1. UInt32(Int32(c.mask)) = c.mask
      BY <1>5, CallsAssumption, CastAndBack DEF Calls
    <2> QED BY <1>5, <2>1 DEF futex_wait_bitset, Syscall, Unpacked, Private
  <1>6. CASE c.fn = "futex_wake_bitset" /\ futex_wake_bitset(t, c)
    <2>1. UInt32(Int32(c.mask)) = c.mask
      BY <1>6, CallsAssumption, CastAndBack DEF Calls
    <2> QED BY <1>6, <2>1 DEF futex_wake_bitset, Syscall, Unpacked, Private
  <1> QED BY <1>1, <1>2, <1>3, <1>4, <1>5, <1>6 DEF Call

-----------------------------------------------------------------------------
LEMMA InitEstablishes == Init => Inv
BY DEF Init, Inv

(* What the steps of the kernel leave in the queue.                        *)
LEMMA Enqueued ==
  ASSUME Inv, NEW t \in Threads, NEW c, NEW w \in Words, NEW val,
         NEW timed \in BOOLEAN, NEW mask \in UInts,
         KernelWait(t, c, PrivateKey(w), val, timed, mask)
  PROVE  Inv'
PROOF
  <1>1. CASE UNCHANGED << memory, queue >>
    BY <1>1 DEF Inv
  <1>2. CASE ~ UNCHANGED << memory, queue >>
    <2> DEFINE new == [key |-> PrivateKey(w), mask |-> mask, timed |-> timed]
    <2>1. /\ mask # 0 /\ memory' = memory
          /\ queue' = [u \in DOMAIN queue \cup {t} |-> IF u = t THEN new ELSE queue[u]]
      BY <1>2 DEF KernelWait, Refuse
    <2>2. new \in PrivateSleepers
      BY <2>1 DEF PrivateSleepers
    <2> HIDE DEF new
    <2> QED BY <2>1, <2>2 DEF Inv
  <1> QED BY <1>1, <1>2

LEMMA Dequeued ==
  ASSUME Inv, NEW c, NEW key, NEW n, NEW mask, KernelWake(c, key, n, mask)
  PROVE  Inv'
BY DEF Inv, KernelWake, Refuse, Without

LEMMA Requeued ==
  ASSUME Inv, NEW c, NEW w \in Words, NEW key, NEW n, NEW limit, NEW val,
         KernelCmpRequeue(c, key, n, limit, PrivateKey(w), val)
  PROVE  Inv'
PROOF
  <1>1. \A q \in PrivateSleepers : Moved(q, PrivateKey(w)) \in PrivateSleepers
    BY DEF PrivateSleepers, Moved
  <1> QED BY <1>1 DEF Inv, KernelCmpRequeue, Refuse

LEMMA WordChanged ==
  ASSUME Inv, NEW c, NEW w \in Words, NEW key, NEW n, NEW n2, NEW o,
         KernelWakeOp(c, key, n, n2, PrivateKey(w), o)
  PROVE  Inv'
BY DEF Inv, KernelWakeOp, Without, PrivateKey

LEMMA CallPreserves ==
  ASSUME Inv, NEW t \in Threads, NEW c \in Calls, Unpacked(t, c)
  PROVE  Inv'
PROOF
  <1>1. AllBits \in UInts
    BY WordModEven DEF AllBits, UInts
  <1>2. CASE c.fn \in {"futex_wait", "futex_wait_bitset"}
    <2>1. c.word \in Words /\ c.timed \in BOOLEAN
      BY <1>2 DEF Calls
    <2>2. c.fn = "futex_wait_bitset" => c.mask \in UInts
      BY <1>2, CallsAssumption DEF Calls
    <2> QED BY <1>1, <1>2, <2>1, <2>2, Enqueued DEF Unpacked
  <1>3. CASE c.fn \in {"futex_wake", "futex_wake_bitset"}
    BY <1>3, Dequeued DEF Unpacked
  <1>4. CASE c.fn = "futex_cmp_requeue"
    <2>1. c.target \in Words
      BY <1>4 DEF Calls
    <2> QED BY <1>4, <2>1, Requeued DEF Unpacked
  <1>5. CASE c.fn = "futex_wake_op"
    <2>1. c.target \in Words
      BY <1>5 DEF Calls
    <2> QED BY <1>5, <2>1, WordChanged DEF Unpacked
  <1> QED BY <1>2, <1>3, <1>4, <1>5 DEF Unpacked

LEMMA NextPreserves == Inv /\ [Next]_vars => Inv'
PROOF
  <1> SUFFICES ASSUME Inv, [Next]_vars PROVE Inv'
    OBVIOUS
  <1>1. ASSUME NEW t \in Threads, NEW c \in Calls, Call(t, c) PROVE Inv'
    BY <1>1, CallUnpacked, CallPreserves
  <1>2. ASSUME NEW t \in Threads, NEW e \in {"EINTR", "ETIMEDOUT"}, GiveUp(t, e)
        PROVE  Inv'
    BY <1>2 DEF Inv, GiveUp, Without
  <1>3. ASSUME NEW w \in Words, NEW v \in Values, Store(w, v) PROVE Inv'
    BY <1>3 DEF Inv, Store
  <1>4. CASE UNCHANGED vars
    BY <1>4 DEF Inv, vars
  <1> QED BY <1>1, <1>2, <1>3, <1>4 DEF Next

(* Sleepers stay in the queue of a word, whatever wakes, moves or ends     *)
(* their sleep.                                                            *)
THEOREM TypeCorrect == Spec => []TypeOK
PROOF
  <1>1. \A q \in PrivateSleepers :
          q \in [key : [addr : Words, private : BOOLEAN],
                 mask : UInts \ {0}, timed : BOOLEAN]
    <2> SUFFICES ASSUME NEW q \in PrivateSleepers
                 PROVE  q \in [key : [addr : Words, private : BOOLEAN],
                               mask : UInts \ {0}, timed : BOOLEAN]
      OBVIOUS
    <2>1. PICK w \in Words : q.key = PrivateKey(w)
      BY DEF PrivateSleepers
    <2>2. q.key \in [addr : Words, private : BOOLEAN]
      BY <2>1 DEF PrivateKey
    <2> QED BY <2>2 DEF PrivateSleepers
  <1>2. Inv => TypeOK
    BY <1>1 DEF Inv, TypeOK
  <1> QED BY InitEstablishes, NextPreserves, <1>2, PTL DEF Spec

-----------------------------------------------------------------------------
(* The sleepers that the queue stands for.                                 *)
Sleepers ==
  [t \in DOMAIN queue |-> [word |-> queue[t].key.addr, mask |-> queue[t].mask,
                           timed |-> queue[t].timed]]

(* A waker finds whoever sleeps on its word.                               *)
LEMMA SameSleepers ==
  ASSUME Inv
  PROVE  \A w : /\ F!On(w) = At(PrivateKey(w))
                /\ \A mask : F!OnWithMask(w, mask)
                     = {t \in At(PrivateKey(w)) : Overlap(queue[t].mask, mask)}
PROOF
  <1>1. ASSUME NEW t \in DOMAIN queue
        PROVE  queue[t].key = PrivateKey(queue[t].key.addr)
    <2>1. PICK v \in Words : queue[t].key = PrivateKey(v)
      BY DEF Inv, PrivateSleepers
    <2>2. PrivateKey(v).addr = v
      BY DEF PrivateKey
    <2> QED BY <2>1, <2>2
  <1>2. \A w, v : PrivateKey(w) = PrivateKey(v) => w = v
    BY DEF PrivateKey
  <1>3. \A w : \A t \in DOMAIN queue :
          queue[t].key.addr = w <=> queue[t].key = PrivateKey(w)
    BY <1>1, <1>2
  <1>4. \A w : F!On(w) = At(PrivateKey(w))
    BY <1>3 DEF F!On, At
  <1>5. ASSUME NEW w, NEW mask
        PROVE  F!OnWithMask(w, mask)
                 = {t \in At(PrivateKey(w)) : Overlap(queue[t].mask, mask)}
    <2>1. F!OnWithMask(w, mask) = {t \in F!On(w) : Overlap(Sleepers[t].mask, mask)}
      BY DEF F!OnWithMask, Sleepers
    <2>2. \A t \in At(PrivateKey(w)) : Sleepers[t].mask = queue[t].mask
      BY DEF At, Sleepers
    <2> QED BY <1>4, <2>1, <2>2
  <1> QED BY <1>4, <1>5

LEMMA SameWithout ==
  ASSUME NEW W, queue' = Without(W)
  PROVE  Sleepers' = F!Without(W)
BY DEF Without, F!Without, Sleepers

LEMMA WaitRefines ==
  ASSUME Inv, NEW t, NEW c, NEW mask,
         KernelWait(t, c, PrivateKey(c.word), c.expected, c.timed, mask)
  PROVE  F!Wait(t, c, mask)
PROOF
  <1>1. PrivateKey(c.word).addr = c.word
    BY DEF PrivateKey
  <1>2. CASE mask = 0 /\ Refuse(c, "EINVAL")
    BY <1>2 DEF Refuse, Answer, F!Wait, F!Fails
  <1>3. CASE mask # 0 /\ memory[c.word] # c.expected /\ Refuse(c, "EAGAIN")
    BY <1>3 DEF Refuse, Answer, F!Wait, F!Fails
  <1>4. CASE /\ mask # 0 /\ memory[c.word] = c.expected
             /\ queue' = [u \in DOMAIN queue \cup {t} |->
                            IF u = t THEN [key |-> PrivateKey(c.word), mask |-> mask,
                                           timed |-> c.timed]
                                     ELSE queue[u]]
             /\ Answer(c, "none", 0)
             /\ UNCHANGED memory
    <2>1. Sleepers' = [u \in DOMAIN Sleepers \cup {t} |->
                         IF u = t THEN [word |-> c.word, mask |-> mask,
                                        timed |-> c.timed]
                                  ELSE Sleepers[u]]
      BY <1>1, <1>4 DEF Sleepers
    <2> QED BY <1>4, <2>1 DEF F!Wait, F!Answer, Answer, Sleepers
  <1> QED BY <1>1, <1>2, <1>3, <1>4 DEF KernelWait

LEMMA WakeRefines ==
  ASSUME Inv, NEW c, c.wakeups \in Ints, NEW mask,
         KernelWake(c, PrivateKey(c.word), c.wakeups, mask)
  PROVE  F!Wake(c, mask)
PROOF
  <1>1. CASE mask = 0 /\ Refuse(c, "EINVAL")
    BY <1>1 DEF Refuse, Answer, F!Wake, F!Fails
  <1>2. CASE ~(mask = 0 /\ Refuse(c, "EINVAL"))
    <2>1. mask # 0 /\ UNCHANGED memory
      BY <1>2 DEF KernelWake
    <2>2. PICK W \in SomeOf(F!OnWithMask(c.word, mask), F!Asked(c.wakeups)) :
            queue' = Without(W) /\ Answer(c, "none", Cardinality(W))
      BY <1>2, SameSleepers, CountsAsAsked DEF KernelWake
    <2>3. Sleepers' = F!Without(W)
      BY <2>2, SameWithout
    <2> QED BY <2>1, <2>2, <2>3 DEF F!Wake, F!Answer, Answer, Sleepers
  <1> QED BY <1>1, <1>2

LEMMA CmpRequeueRefines ==
  ASSUME Inv, NEW c, c.wakeups \in Ints, c.limit \in UInts,
         KernelCmpRequeue(c, PrivateKey(c.word), c.wakeups, Int32(c.limit),
                          PrivateKey(c.target), c.expected)
  PROVE  F!CmpRequeue(c)
PROOF
  <1>1. PrivateKey(c.word).addr = c.word /\ PrivateKey(c.target).addr = c.target
    BY DEF PrivateKey
  <1>2. /\ c.limit \in Ints => Int32(c.limit) = c.limit /\ Int32(c.limit) >= 0
        /\ c.limit \notin Ints => Int32(c.limit) < 0
        /\ Int32(c.limit) \in Int /\ c.wakeups \in Int
    BY LimitAsInt, WordModEven DEF UInts, Ints, Int32, ToSigned
  <1> USE DEF F!CountsAllowed
  <1>3. CASE ~F!CountsAllowed(c)
    BY <1>2, <1>3 DEF KernelCmpRequeue, Refuse, Answer, F!CmpRequeue, F!Fails
  <1>4. CASE F!CountsAllowed(c) /\ memory[c.word] # c.expected
    BY <1>1, <1>2, <1>4 DEF KernelCmpRequeue, Refuse, Answer, F!CmpRequeue, F!Fails
  <1>5. CASE F!CountsAllowed(c) /\ memory[c.word] = c.expected
    <2>1. UNCHANGED memory
      BY <1>1, <1>2, <1>5 DEF KernelCmpRequeue
    <2>2. \E W \in SomeOf(At(PrivateKey(c.word)), c.wakeups) :
            \E M \in SomeOf(At(PrivateKey(c.word)) \ W, c.limit) :
              /\ queue' = [t \in DOMAIN queue \ W |->
                             IF t \in M THEN Moved(queue[t], PrivateKey(c.target))
                                        ELSE queue[t]]
              /\ Answer(c, "none", Cardinality(W) + Cardinality(M))
      <3>1. ~(c.wakeups < 0 \/ Int32(c.limit) < 0) /\ memory[PrivateKey(c.word).addr] = c.expected
        BY <1>1, <1>2, <1>5
      <3> QED BY <1>2, <1>5, <3>1 DEF KernelCmpRequeue
    <2>3. PICK W \in SomeOf(F!On(c.word), c.wakeups) :
            \E M \in SomeOf(F!On(c.word) \ W, c.limit) :
              /\ queue' = [t \in DOMAIN queue \ W |->
                             IF t \in M THEN Moved(queue[t], PrivateKey(c.target))
                                        ELSE queue[t]]
              /\ Answer(c, "none", Cardinality(W) + Cardinality(M))
      BY <2>2, SameSleepers
    <2>4. PICK M \in SomeOf(F!On(c.word) \ W, c.limit) :
            /\ queue' = [t \in DOMAIN queue \ W |->
                           IF t \in M THEN Moved(queue[t], PrivateKey(c.target))
                                      ELSE queue[t]]
            /\ Answer(c, "none", Cardinality(W) + Cardinality(M))
      BY <2>3
    <2>5. Sleepers' = [t \in DOMAIN Sleepers \ W |->
                         IF t \in M THEN F!Moved(Sleepers[t], c.target)
                                    ELSE Sleepers[t]]
      BY <1>1, <2>4 DEF Sleepers, Moved, F!Moved
    <2> QED BY <1>5, <2>1, <2>4, <2>5 DEF F!CmpRequeue, F!Answer, Answer, Sleepers
  <1> QED BY <1>3, <1>4, <1>5

LEMMA WakeOpRefines ==
  ASSUME Inv, NEW c, c.wakeups \in Ints, c.wakeups2 \in UInts,
         KernelWakeOp(c, PrivateKey(c.word), c.wakeups, Int32(c.wakeups2),
                      PrivateKey(c.target), Meaning(c.operation))
  PROVE  F!WakeOp(c)
PROOF
  <1> DEFINE new == Apply(Meaning(c.operation), memory[c.target])
             Others(W) == IF Compare(Meaning(c.operation), memory[c.target])
                          THEN SomeOf(F!On(c.target) \ W, F!Asked(c.wakeups2))
                          ELSE {{}}
  <1>1. PrivateKey(c.target).addr = c.target
    BY DEF PrivateKey
  <1>2. new \in Values /\ memory' = [memory EXCEPT ![c.target] = new]
    BY <1>1 DEF KernelWakeOp
  <1>3. \E W \in SomeOf(F!On(c.word), F!Asked(c.wakeups)) : \E V \in Others(W) :
          /\ queue' = Without(W \cup V)
          /\ Answer(c, "none", Cardinality(W) + Cardinality(V))
    BY <1>1, SameSleepers, CountsAsAsked DEF KernelWakeOp
  <1>4. PICK W \in SomeOf(F!On(c.word), F!Asked(c.wakeups)) : \E V \in Others(W) :
          /\ queue' = Without(W \cup V)
          /\ Answer(c, "none", Cardinality(W) + Cardinality(V))
    BY <1>3
  <1>5. PICK V \in Others(W) :
          /\ queue' = Without(W \cup V)
          /\ Answer(c, "none", Cardinality(W) + Cardinality(V))
    BY <1>4
  <1>6. Sleepers' = F!Without(W \cup V)
    BY <1>5, SameWithout
  <1> QED BY <1>2, <1>5, <1>6 DEF F!WakeOp, F!Answer, Answer, Sleepers

LEMMA CallRefines ==
  ASSUME Inv, NEW t \in Threads, NEW c \in Calls, Unpacked(t, c)
  PROVE  F!Call(t, c) /\ last'.call = c
PROOF
  <1>1. t \notin DOMAIN Sleepers
    BY DEF Unpacked, Sleepers
  <1>2. /\ c.fn \notin {"futex_wait", "futex_wait_bitset"} => c.wakeups \in Ints
        /\ c.fn = "futex_cmp_requeue" => c.limit \in UInts
        /\ c.fn = "futex_wake_op" => c.wakeups2 \in UInts
    BY CallsAssumption DEF Calls
  <1>3. F!Call(t, c)
    BY <1>1, <1>2, WaitRefines, WakeRefines, CmpRequeueRefines, WakeOpRefines
    DEF Unpacked, F!Call, Sleepers
  <1>4. last'.call = c
    <2>1. \A e, n : Answer(c, e, n) => last'.call = c
      BY DEF Answer
    <2>2. \A key, val, timed, mask :
            KernelWait(t, c, key, val, timed, mask) => last'.call = c
      BY <2>1 DEF KernelWait, Refuse
    <2>3. \A key, n, mask : KernelWake(c, key, n, mask) => last'.call = c
      BY <2>1 DEF KernelWake, Refuse
    <2>4. \A key, n, limit, target, val :
            KernelCmpRequeue(c, key, n, limit, target, val) => last'.call = c
      BY <2>1 DEF KernelCmpRequeue, Refuse
    <2>5. \A key, n, n2, target, o :
            KernelWakeOp(c, key, n, n2, target, o) => last'.call = c
      BY <2>1 DEF KernelWakeOp
    <2> QED BY <2>2, <2>3, <2>4, <2>5 DEF Unpacked
  <1> QED BY <1>3, <1>4

(* FutexBase implements FutexCalls, for any int, uint32_t and uint16_t in  *)
(* the calls: no parameter is lost or swapped between the caller and the   *)
(* kernel, and what becomes of the numbers that the kernel's types do not  *)
(* hold is what FutexCalls says: a limit is refused, a count of wake-ups   *)
(* is one, and of an argument the lower 12 bits count as a signed number.  *)
THEOREM FutexBaseImplementsFutexCalls == Spec => ImplementsFutexCalls
PROOF
  <1>1. Init => F!Init
    BY DEF Init, F!Init
  <1>2. ASSUME Inv, [Next]_vars PROVE [F!Next]_(F!vars)
    <2>1. ASSUME NEW t \in Threads, NEW c \in Calls, Call(t, c) PROVE F!Next
      BY <1>2, <2>1, CallUnpacked, CallRefines DEF F!Next
    <2>2. ASSUME NEW t \in Threads, NEW e \in {"EINTR", "ETIMEDOUT"}, GiveUp(t, e)
          PROVE  F!Next
      <3>1. Sleepers' = F!Without({t})
        BY <2>2, SameWithout DEF GiveUp
      <3>2. F!GivesUp(t, e)
        BY <2>2, <3>1 DEF GiveUp, F!GivesUp, Sleepers
      <3> QED BY <3>2 DEF F!Next
    <2>3. ASSUME NEW w \in Words, NEW v \in Values, Store(w, v) PROVE F!Next
      <3>1. F!Store(w, v)
        BY <2>3 DEF Store, F!Store
      <3> QED BY <3>1 DEF F!Next
    <2>4. CASE UNCHANGED vars
      BY <2>4 DEF vars, F!vars
    <2> QED BY <1>2, <2>1, <2>2, <2>3, <2>4 DEF Next
  <1> QED BY InitEstablishes, NextPreserves, <1>1, <1>2, PTL
      DEF Spec, ImplementsFutexCalls, F!Spec
=============================================================================
