------------------------------- MODULE Stack -------------------------------
(***************************************************************************)
(* The Stack class (src/stack.cpp, src/concurrentfw/stack.hpp): a lock-free*)
(* intrusive stack.  Its only word is an ABA_Wrapper that points to the    *)
(* top block; each block on the stack begins with the pointer to the next  *)
(* one.  Threads own the blocks that are not on the stack and write        *)
(* whatever they like into them, also while a slow pop() of another thread *)
(* still reads there.                                                      *)
(***************************************************************************)
EXTENDS AbaWrapper, Sequences

CONSTANTS
  Blocks,      (* the memory blocks that are pushed and popped             *)
  Junk,        (* anything in the first word of a block but a pointer to   *)
               (* one                                                      *)
  Writes       (* what owners write over the first words of their blocks   *)

ASSUME PointerAssumption ==
  /\ Null \notin Blocks /\ Junk \notin Blocks \cup {Null}
  /\ Writes \subseteq Blocks \cup {Null, Junk}

VARIABLES
  pc,          (* per thread: the next step of the call it is in           *)
  desired,     (* per thread: desired.data, the pointer it wants to store  *)
  next,        (* per block: its first word                                *)
  holds,       (* history: per thread, the blocks that belong to it        *)
  items        (* history: the blocks on the stack, the top first          *)

stackVars == << pc, desired, next, holds, items >>
vars == << abaVars, stackVars >>

Pointers == Blocks \cup {Null}
Contents == Pointers \cup {Junk}

Init ==
  /\ Construct(Null)
  /\ pc = [t \in Threads |-> "idle"]
  /\ desired = [t \in Threads |-> Null]
  /\ next = [b \in Blocks |-> Junk]
  /\ \E owner \in [Blocks -> Threads] :
       holds = [t \in Threads |-> {b \in Blocks : owner[b] = t}]
  /\ items = << >>

-----------------------------------------------------------------------------
(* push(block) of a block that belongs to the caller; push(nullptr) throws *)
(* before it touches anything.                                             *)
CallPush(t, b) ==
  /\ pc[t] = "idle"
  /\ b \in holds[t]
  /\ pc' = [pc EXCEPT ![t] = "push"]
  /\ desired' = [desired EXCEPT ![t] = b]
  /\ UNCHANGED << abaVars, next, holds, items >>

CallPop(t) ==
  /\ pc[t] = "idle"
  /\ pc' = [pc EXCEPT ![t] = "pop"]
  /\ UNCHANGED << abaVars, desired, next, holds, items >>

(* modify() loads the word, before push()'s or pop()'s function runs.      *)
LoadWord(t) ==
  /\ pc[t] \in {"push", "pop"}
  /\ Load(t)
  /\ UNCHANGED stackVars

(* The function of push(): link the block to the top it saw.               *)
Link(t) ==
  /\ pc[t] = "push"
  /\ Loaded(t)
  /\ next' = [next EXCEPT ![desired[t]] = cache[t].data]
  /\ pc' = [pc EXCEPT ![t] = "push_store"]
  /\ UNCHANGED << abaVars, desired, holds, items >>

(* The function of pop(): read the link of the top it saw, which may be    *)
(* another thread's block by now.                                          *)
ReadLink(t) ==
  /\ pc[t] = "pop"
  /\ Loaded(t)
  /\ cache[t].data # Null
  /\ desired' = [desired EXCEPT ![t] = next[cache[t].data]]
  /\ pc' = [pc EXCEPT ![t] = "pop_store"]
  /\ UNCHANGED << abaVars, next, holds, items >>

(* The function of pop() saw no top: pop() returns nullptr.                *)
ReturnNull(t) ==
  /\ pc[t] = "pop"
  /\ cache[t].data = Null
  /\ Abort(t)
  /\ pc' = [pc EXCEPT ![t] = "idle"]
  /\ UNCHANGED << desired, next, holds, items >>

(* The store succeeds: the block is on the stack, the caller's no more.    *)
PushCommit(t) ==
  /\ pc[t] = "push_store"
  /\ Commit(t, desired[t])
  /\ pc' = [pc EXCEPT ![t] = "idle"]
  /\ desired' = [desired EXCEPT ![t] = Null]
  /\ holds' = [holds EXCEPT ![t] = @ \ {desired[t]}]
  /\ items' = << desired[t] >> \o items
  /\ UNCHANGED next

(* The store succeeds: pop() returns the old top, now the caller's.        *)
PopCommit(t) ==
  /\ pc[t] = "pop_store"
  /\ Commit(t, desired[t])
  /\ pc' = [pc EXCEPT ![t] = "idle"]
  /\ desired' = [desired EXCEPT ![t] = Null]
  /\ holds' = [holds EXCEPT ![t] = @ \cup {cache[t].data}]
  /\ items' = SubSeq(items, 2, Len(items))
  /\ UNCHANGED next

(* Mutant of RetryPush: the store is tried again with the old link.        *)
RetryPushOldLink(t) ==
  /\ pc[t] = "push_store"
  /\ Retry(t)
  /\ UNCHANGED stackVars

(* Mutant of RetryPop: no retry, and pop() returns the top it had seen.    *)
RetryPopReturnsTop(t) ==
  /\ pc[t] = "pop_store"
  /\ Retry(t)
  /\ pc' = [pc EXCEPT ![t] = "idle"]
  /\ desired' = [desired EXCEPT ![t] = Null]
  /\ holds' = [holds EXCEPT ![t] = @ \cup {cache[t].data}]
  /\ UNCHANGED << next, items >>

(* Mutant of RetryPop: pop() gives up and returns nullptr.                 *)
RetryPopGivesUp(t) ==
  /\ pc[t] = "pop_store"
  /\ Retry(t)
  /\ pc' = [pc EXCEPT ![t] = "idle"]
  /\ desired' = [desired EXCEPT ![t] = Null]
  /\ UNCHANGED << next, holds, items >>

(* The store fails, and the function will run again.                       *)
RetryPush(t) ==
  /\ pc[t] = "push_store"
  /\ Retry(t)
  /\ pc' = [pc EXCEPT ![t] = "push"]
  /\ UNCHANGED << desired, next, holds, items >>

RetryPop(t) ==
  /\ pc[t] = "pop_store"
  /\ Retry(t)
  /\ pc' = [pc EXCEPT ![t] = "pop"]
  /\ desired' = [desired EXCEPT ![t] = Null]
  /\ UNCHANGED << next, holds, items >>

(* A thread uses a block that belongs to it, or pushes it onto another     *)
(* stack, which writes a pointer over its first word.                      *)
UseBlock(t, b, content) ==
  /\ pc[t] = "idle"
  /\ b \in holds[t]
  /\ next' = [next EXCEPT ![b] = content]
  /\ UNCHANGED << abaVars, pc, desired, holds, items >>

(* A block goes from one thread to another and not by way of this stack,   *)
(* but by another one, as in src/tests/test_stack.cpp.                     *)
HandOver(t, b, receiver) ==
  /\ pc[t] = "idle"
  /\ b \in holds[t]
  /\ holds' = [u \in Threads |-> IF u = receiver THEN holds[u] \cup {b}
                                                 ELSE holds[u] \ {b}]
  /\ UNCHANGED << abaVars, pc, desired, next, items >>

-----------------------------------------------------------------------------
(* The rest of the call that thread t is in.                               *)
Step(t) ==
  \/ LoadWord(t)
  \/ Link(t) \/ PushCommit(t) \/ RetryPush(t)
  \/ ReadLink(t) \/ ReturnNull(t) \/ PopCommit(t) \/ RetryPop(t)

(* What its owner does with a block between the calls.                     *)
Own(t, b) ==
  \/ \E content \in Writes : UseBlock(t, b, content)
  \/ \E u \in Threads : HandOver(t, b, u)

Use(t) == CallPop(t) \/ \E b \in Blocks : CallPush(t, b) \/ Own(t, b)

Next == \E t \in Threads : Step(t) \/ Use(t)

Spec == Init /\ [][Next]_vars

(* Every thread that is in a call is scheduled.                            *)
FairSpec == Spec /\ \A t \in Threads : WF_vars(Step(t))

-----------------------------------------------------------------------------
(* The types of the variables.  The word never points into junk.           *)
TypeOK ==
  /\ AbaTypeOK(Pointers)
  /\ pc \in [Threads -> {"idle", "push", "push_store", "pop", "pop_store"}]
  /\ desired \in [Threads -> Contents]
  /\ next \in [Blocks -> Contents]
  /\ holds \in [Threads -> SUBSET Blocks]
  /\ items \in Seq(Blocks)

(* The memory holds the stack: the word points to the top block, and each  *)
(* block on the stack to the one below, whatever owners wrote into theirs. *)
ChainIntact ==
  /\ word.data = IF items = << >> THEN Null ELSE items[1]
  /\ \A i \in 1 .. Len(items) :
       next[items[i]] = IF i = Len(items) THEN Null ELSE items[i + 1]

(* Every block is in one place: once on the stack, or with one owner.  No  *)
(* block is lost, pushed twice or popped by two threads.                   *)
BlocksConserved ==
  \A b \in Blocks :
    LET places == {i \in 1 .. Len(items) : items[i] = b}
        owners == {t \in Threads : b \in holds[t]}
    IN \/ owners = {} /\ \E i \in places : places = {i}
       \/ places = {} /\ \E t \in owners : owners = {t}

(* No store succeeds on stale knowledge: the link that a pop() installs is *)
(* the one its top block holds at that instant, and the top that a push()  *)
(* linked its block to is still the top.                                   *)
NoStaleCommit ==
  [][\A t \in Threads :
       /\ PopCommit(t) => desired[t] = next[word.data]
       /\ PushCommit(t) => next[desired[t]] = word.data]_vars

(* Lock-freedom: as long as somebody is in a call, calls complete, unless  *)
(* exclusive stores fail for no reason again and again.                    *)
LockFree ==
  \/ []<>(\A t \in Threads : pc[t] = "idle")
  \/ []<><<\E t \in Threads : pc[t] # "idle" /\ pc'[t] = "idle">>_vars
  \/ []<><<\E t \in Threads : SpuriousFailure(t)>>_vars

-----------------------------------------------------------------------------
(* The abstract call that a thread is in: a pop() that saw a null top is   *)
(* bound to return null.                                                   *)
CallOf(t) ==
  LET op == CASE pc[t] = "idle" -> "idle"
              [] pc[t] \in {"push", "push_store"} -> "push"
              [] pc[t] = "pop_store" -> "pop"
              [] pc[t] = "pop" ->
                   IF "data" \notin unread[t] /\ cache[t].data = Null THEN "empty"
                                                                      ELSE "pop"
  IN [op |-> op, block |-> IF op = "push" THEN desired[t] ELSE Null]

L == INSTANCE LifoStack WITH call <- [t \in Threads |-> CallOf(t)]

(* Every push() and pop() takes effect at one instant.                     *)
ImplementsLifoStack == L!Spec
=============================================================================
