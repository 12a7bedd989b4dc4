---------------------------- MODULE StackReclaim ----------------------------
(***************************************************************************)
(* The memory of the blocks of a Stack.  pop() reads the first word of the *)
(* top block it has seen (src/stack.cpp:49), which another thread may have *)
(* popped since; the block must not have gone back to the allocator by     *)
(* then.  The class states no rule; src/tests/test_stack.cpp frees blocks  *)
(* after it has joined all threads that pop.  This module takes that rule  *)
(* block by block: who owns a block may free it once every pop() that was  *)
(* under way when the block was popped has returned.  What is freed may be *)
(* allocated again, and by another thread (HandOver).                      *)
(***************************************************************************)
EXTENDS Stack

VARIABLES
  freed,       (* the blocks whose memory is with the allocator            *)
  grace        (* per block: the pop() calls that were under way when it   *)
               (* was last popped, and still are                           *)

reclaimVars == << vars, freed, grace >>

Popping == {t \in Threads : pc[t] \in {"pop", "pop_store"}}

ReclaimInit ==
  /\ Init
  /\ freed = {}
  /\ grace = [b \in Blocks |-> {}]

-----------------------------------------------------------------------------
(* The rest of a call: it may return a block, and end the wait for others. *)
Proceed(t) ==
  /\ Step(t)
  /\ grace' = [b \in Blocks |-> IF b \in holds'[t] \ holds[t]
                                THEN Popping' ELSE grace[b] \cap Popping']
  /\ UNCHANGED freed

(* Threads push and use what they own and have not freed; of a freed block *)
(* the allocator may make another thread the owner.                        *)
UseLive(t) ==
  /\ \/ CallPop(t)
     \/ \E b \in Blocks \ freed : CallPush(t, b)
     \/ \E b \in Blocks \ freed, content \in Writes : UseBlock(t, b, content)
     \/ \E b \in Blocks, u \in Threads : HandOver(t, b, u)
  /\ UNCHANGED << freed, grace >>

(* Mutant of Free: the block is freed as soon as pop() has returned it.    *)
FreeAtOnce(t, b) ==
  /\ pc[t] = "idle"
  /\ b \in holds[t] \ freed
  /\ freed' = freed \cup {b}
  /\ UNCHANGED << vars, grace >>

Free(t, b) ==
  /\ pc[t] = "idle"
  /\ b \in holds[t] \ freed
  /\ grace[b] = {}
  /\ freed' = freed \cup {b}
  /\ UNCHANGED << vars, grace >>

Allocate(t, b) ==
  /\ pc[t] = "idle"
  /\ b \in holds[t] \cap freed
  /\ freed' = freed \ {b}
  /\ UNCHANGED << vars, grace >>

ReclaimNext ==
  \E t \in Threads :
    \/ Proceed(t) \/ UseLive(t)
    \/ \E b \in Blocks : Free(t, b) \/ Allocate(t, b)

ReclaimSpec == ReclaimInit /\ [][ReclaimNext]_reclaimVars

(* Every thread that is in a call is scheduled.                            *)
ReclaimFairSpec ==
  ReclaimSpec /\ \A t \in Threads : WF_reclaimVars(Proceed(t))

-----------------------------------------------------------------------------
(* No call reads or writes a freed block: neither the pop() that has seen  *)
(* it as the top, however long ago, nor the push() that links it; and      *)
(* nothing on the stack is freed.                                          *)
NoUseAfterFree ==
  /\ \A t \in Threads :
       /\ pc[t] = "pop" /\ "data" \notin unread[t] => cache[t].data \notin freed
       /\ pc[t] = "push" => desired[t] \notin freed
  /\ \A i \in 1 .. Len(items) : items[i] \notin freed
=============================================================================
