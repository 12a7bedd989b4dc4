---------------------------- MODULE ConcurrentPtr ----------------------------
(***************************************************************************)
(* The Concurrent_Ptr class (src/concurrentfw/concurrent_ptr.hpp): a       *)
(* pointer in an ABA_Wrapper.  set() is a modify() whose function ignores  *)
(* the old pointer, get() and get_counter() are loads.                     *)
(***************************************************************************)
EXTENDS AbaWrapper

CONSTANT
  Targets      (* the objects that the pointer may point to                *)

ASSUME TargetAssumption == Null \notin Targets

VARIABLES
  pc,          (* per thread: the call it is in, or "idle"                 *)
  desired,     (* per thread: the argument of its set()                    *)
  result,      (* per thread: what its last get() or get_counter() gave    *)
  behind       (* history: per thread, the halves of the word that it had  *)
               (* read when another thread's set() changed the word        *)

ptrVars == << pc, desired, result, behind >>
vars == << abaVars, ptrVars >>

Pointers == Targets \cup {Null}

(* Constructed with any pointer.                                           *)
Init ==
  /\ \E p \in Pointers : Construct(p)
  /\ pc = [t \in Threads |-> "idle"]
  /\ desired = [t \in Threads |-> Null]
  /\ result = [t \in Threads |-> Null]
  /\ behind = [t \in Threads |-> {}]

-----------------------------------------------------------------------------
CallSet(t, p) ==
  /\ pc[t] = "idle"
  /\ pc' = [pc EXCEPT ![t] = "set"]
  /\ desired' = [desired EXCEPT ![t] = p]
  /\ UNCHANGED << abaVars, result, behind >>

CallGet(t, call) ==
  /\ pc[t] = "idle"
  /\ pc' = [pc EXCEPT ![t] = call]
  /\ UNCHANGED << abaVars, desired, result, behind >>

(* modify() loads the word; the function of set() does not look at it.     *)
LoadWord(t) ==
  /\ pc[t] = "set"
  /\ Load(t)
  /\ UNCHANGED ptrVars

(* The store succeeds, and set() returns.                                  *)
SetCommit(t) ==
  /\ pc[t] = "set"
  /\ Commit(t, desired[t])
  /\ pc' = [pc EXCEPT ![t] = "idle"]
  /\ desired' = [desired EXCEPT ![t] = Null]
  /\ behind' = [u \in Threads |-> IF u = t THEN {} ELSE Halves \ unread[u]]
  /\ UNCHANGED result

(* Mutant of SetRetry: set() ignores that its store failed.                *)
SetNoRetry(t) ==
  /\ pc[t] = "set"
  /\ Retry(t)
  /\ pc' = [pc EXCEPT ![t] = "idle"]
  /\ desired' = [desired EXCEPT ![t] = Null]
  /\ behind' = [behind EXCEPT ![t] = {}]
  /\ UNCHANGED result

(* The store fails, and the loop goes round again.                         *)
SetRetry(t) ==
  /\ pc[t] = "set"
  /\ Retry(t)
  /\ behind' = [behind EXCEPT ![t] = {}]
  /\ UNCHANGED << pc, desired, result >>

(* get() or get_counter() loads the word, and returns.                     *)
ReturnHalf(t) ==
  /\ \/ pc[t] = "get" /\ result' = [result EXCEPT ![t] = GetData]
     \/ pc[t] = "get_counter" /\ result' = [result EXCEPT ![t] = GetCounter]
  /\ pc' = [pc EXCEPT ![t] = "idle"]
  /\ UNCHANGED << abaVars, desired, behind >>

-----------------------------------------------------------------------------
Next ==
  \E t \in Threads :
    \/ \E p \in Pointers : CallSet(t, p)
    \/ \E call \in {"get", "get_counter"} : CallGet(t, call)
    \/ LoadWord(t) \/ SetCommit(t) \/ SetRetry(t)
    \/ ReturnHalf(t)

Spec == Init /\ [][Next]_vars

-----------------------------------------------------------------------------
(* The types of the variables; the counter stays within its width.         *)
TypeOK ==
  /\ AbaTypeOK(Pointers)
  /\ pc \in [Threads -> {"idle", "set", "get", "get_counter"}]
  /\ desired \in [Threads -> Pointers]
  /\ result \in [Threads -> Pointers \cup (0 .. CounterMod - 1)]
  /\ behind \in [Threads -> SUBSET Halves]

(* The half of the word that tells whether the word changed.               *)
Guard == IF Dwcas THEN "counter" ELSE "data"

(* What modify() is for: its store succeeds only if no other store came in *)
(* between, even one of the pointer that was there before; and unless it   *)
(* fails for no reason it fails only if one did, so that a retry of one    *)
(* thread always means that another has got its set() done.                *)
StoresJudgedRight ==
  [][\A t \in Threads :
       /\ SetCommit(t) => Guard \notin behind[t]
       /\ SetRetry(t) => behind[t] # {} \/ SpuriousFailure(t)]_vars

-----------------------------------------------------------------------------
R == INSTANCE AtomicRegister WITH
       Counts <- Dwcas, register <- word.data, count <- word.counter,
       call <- [t \in Threads |-> [op |-> pc[t], arg |-> desired[t]]]

(* Every call takes effect at one instant, and the counter counts each     *)
(* set() once (test_concurrent_ptr.cpp compares it before and after three  *)
(* calls), although retries compute the new counter again and again.       *)
ImplementsRegister == R!Spec
=============================================================================
