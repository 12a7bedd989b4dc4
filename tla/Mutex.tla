------------------------------- MODULE Mutex -------------------------------
(***************************************************************************)
(* What the Futex class of ConcurrentFW promises its callers, with no      *)
(* futex word and no kernel: a non-recursive lock with one owner, whose    *)
(* lock() waits, whose trylock() answers at once and whose                 *)
(* trylock_timeout() waits and may give up.  Module Futex implements it.   *)
(***************************************************************************)

CONSTANTS
  Threads,     (* the threads that share the lock *)
  NoThread     (* the owner of a free lock        *)

VARIABLES
  owner,       (* the thread that owns the lock, or NoThread               *)
  waiting,     (* per thread: the waiting call it is in, "none" if none    *)
  ret          (* per thread: how its last acquiring call ended            *)

vars == << owner, waiting, ret >>

Init ==
  /\ owner \in Threads \cup {NoThread}
  /\ waiting = [t \in Threads |-> "none"]
  /\ ret = [t \in Threads |-> "none"]

(* A call, fresh or waiting, gets the lock: only ever a free one.          *)
Acquire(t) ==
  /\ owner = NoThread
  /\ owner' = t
  /\ waiting' = [waiting EXCEPT ![t] = "none"]
  /\ ret' = [ret EXCEPT ![t] = "true"]

(* A lock() or a trylock_timeout() finds the lock taken and waits.         *)
Block(t, call) ==
  /\ owner # NoThread
  /\ call = "lock" => owner # t
  /\ waiting[t] = "none"
  /\ waiting' = [waiting EXCEPT ![t] = call]
  /\ UNCHANGED << owner, ret >>

(* A trylock() finds the lock taken: it may refuse for no other reason.    *)
Refuse(t) ==
  /\ owner # NoThread
  /\ waiting[t] = "none"
  /\ ret' = [ret EXCEPT ![t] = "false"]
  /\ UNCHANGED << owner, waiting >>

(* Only a call with a timeout gives up waiting.                            *)
GiveUp(t) ==
  /\ waiting[t] = "timeout"
  /\ waiting' = [waiting EXCEPT ![t] = "none"]
  /\ ret' = [ret EXCEPT ![t] = "false"]
  /\ UNCHANGED owner

(* A wait the kernel rejects ends in an exception, without the lock.       *)
Throw(t) ==
  /\ waiting[t] # "none"
  /\ waiting' = [waiting EXCEPT ![t] = "none"]
  /\ ret' = [ret EXCEPT ![t] = "throw"]
  /\ UNCHANGED owner

(* Only the owner frees the lock, and not from inside a call that waits.   *)
Release(t) ==
  /\ owner = t
  /\ waiting[t] = "none"
  /\ owner' = NoThread
  /\ UNCHANGED << waiting, ret >>

Next ==
  \E t \in Threads :
    \/ Acquire(t)
    \/ \E call \in {"lock", "timeout"} : Block(t, call)
    \/ Refuse(t)
    \/ GiveUp(t)
    \/ Throw(t)
    \/ Release(t)

Spec == Init /\ [][Next]_vars
=============================================================================
