--------------------------- MODULE AtomicRegister ---------------------------
(***************************************************************************)
(* What Concurrent_Ptr of ConcurrentFW promises: a register whose set(),   *)
(* get() and get_counter() each take effect in one instant between call    *)
(* and return, and a counter that is one further after each set(), if the  *)
(* platform counts at all.  Module ConcurrentPtr implements it.            *)
(***************************************************************************)
EXTENDS Integers

CONSTANTS
  Threads,
  Pointers,    (* the values of the register                               *)
  Null,        (* what a call without an argument has for one              *)
  Counts,      (* whether sets are counted                                 *)
  CounterMod   (* the counter counts modulo this                           *)

VARIABLES
  register,    (* the value                                                *)
  count,       (* the number of sets, from 1 on; 0 if they are not counted *)
  call,        (* per thread: the call it is in, and what it sets          *)
  result       (* per thread: what its last get or get_counter returned    *)

vars == << register, count, call, result >>

Idle   == [op |-> "idle", arg |-> Null]
Set(p) == [op |-> "set", arg |-> p]
Get    == [op |-> "get", arg |-> Null]
Count  == [op |-> "get_counter", arg |-> Null]

Init ==
  /\ register \in Pointers
  /\ count = IF Counts THEN 1 ELSE 0
  /\ call = [t \in Threads |-> Idle]
  /\ result = [t \in Threads |-> Null]

(* A thread starts a call.                                                 *)
Start(t) ==
  /\ call[t] = Idle
  /\ \E c \in {Get, Count} \cup {Set(p) : p \in Pointers} :
       call' = [call EXCEPT ![t] = c]
  /\ UNCHANGED << register, count, result >>

DoSet(t) ==
  /\ \E p \in Pointers : call[t] = Set(p) /\ register' = p
  /\ count' = IF ~Counts THEN 0 ELSE IF count + 1 = CounterMod THEN 0 ELSE count + 1
  /\ call' = [call EXCEPT ![t] = Idle]
  /\ UNCHANGED result

Return(t, r) ==
  /\ result' = [result EXCEPT ![t] = r]
  /\ call' = [call EXCEPT ![t] = Idle]
  /\ UNCHANGED << register, count >>

DoGet(t) == call[t] = Get /\ Return(t, register)

DoCount(t) == call[t] = Count /\ Return(t, count)

Next == \E t \in Threads : Start(t) \/ DoSet(t) \/ DoGet(t) \/ DoCount(t)

Spec == Init /\ [][Next]_vars
=============================================================================
