----------------------------- MODULE LifoStack -----------------------------
(***************************************************************************)
(* What the Stack class of ConcurrentFW promises: a stack of blocks whose  *)
(* push() and pop() each take effect in one instant between call and       *)
(* return, and a pop() that reports null only if the stack was empty at    *)
(* such an instant.  Module Stack implements it.                           *)
(***************************************************************************)
EXTENDS Sequences

CONSTANTS Threads, Blocks, Null

VARIABLES
  items,       (* the blocks on the stack, the top first                   *)
  holds,       (* per thread: the blocks that belong to it                 *)
  call         (* per thread: the call it is in, and the block it pushes   *)

vars == << items, holds, call >>

Idle    == [op |-> "idle", block |-> Null]
Pop     == [op |-> "pop", block |-> Null]
Empty   == [op |-> "empty", block |-> Null]
Push(b) == [op |-> "push", block |-> b]

Init ==
  /\ items = << >>
  /\ \E owner \in [Blocks -> Threads] :
       holds = [t \in Threads |-> {b \in Blocks : owner[b] = t}]
  /\ call = [t \in Threads |-> Idle]

CallPush(t, b) ==
  /\ call[t] = Idle
  /\ b \in holds[t]
  /\ call' = [call EXCEPT ![t] = Push(b)]
  /\ UNCHANGED << items, holds >>

CallPop(t) ==
  /\ call[t] = Idle
  /\ call' = [call EXCEPT ![t] = Pop]
  /\ UNCHANGED << items, holds >>

(* The block is on the stack, and the pusher's no more.                    *)
DoPush(t, b) ==
  /\ call[t] = Push(b)
  /\ items' = << b >> \o items
  /\ holds' = [holds EXCEPT ![t] = @ \ {b}]
  /\ call' = [call EXCEPT ![t] = Idle]

(* The top block leaves the stack and is the popper's alone.               *)
DoPop(t) ==
  /\ call[t] = Pop
  /\ items # << >>
  /\ items' = Tail(items)
  /\ holds' = [holds EXCEPT ![t] = @ \cup {Head(items)}]
  /\ call' = [call EXCEPT ![t] = Idle]

(* pop() finds the stack empty, and will return null.                      *)
FindEmpty(t) ==
  /\ call[t] = Pop
  /\ items = << >>
  /\ call' = [call EXCEPT ![t] = Empty]
  /\ UNCHANGED << items, holds >>

ReturnEmpty(t) ==
  /\ call[t] = Empty
  /\ call' = [call EXCEPT ![t] = Idle]
  /\ UNCHANGED << items, holds >>

(* The owner of a block passes it on.                                      *)
HandOver(t, b, receiver) ==
  /\ call[t] = Idle
  /\ b \in holds[t]
  /\ holds' = [u \in Threads |-> IF u = receiver THEN holds[u] \cup {b}
                                                 ELSE holds[u] \ {b}]
  /\ UNCHANGED << items, call >>

Next ==
  \E t \in Threads :
    \/ \E b \in Blocks : CallPush(t, b) \/ DoPush(t, b)
    \/ \E b \in Blocks, u \in Threads : HandOver(t, b, u)
    \/ CallPop(t) \/ DoPop(t) \/ FindEmpty(t) \/ ReturnEmpty(t)

Spec == Init /\ [][Next]_vars
=============================================================================
