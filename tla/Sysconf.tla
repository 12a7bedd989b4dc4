------------------------------- MODULE Sysconf -------------------------------
(***************************************************************************)
(* System limits (src/concurrentfw/sysconf.hpp, src/sysconf.cpp): the      *)
(* template sysconf<T>(), and cache_line() and page_size(), which keep its *)
(* result in a function-local static.  The module is about one such static *)
(* and the name it asks for; the two functions share nothing.              *)
(*                                                                         *)
(* The compiler guards the initialization of the static: the first caller  *)
(* runs it while the others wait, and if it throws, the next one tries     *)
(* again.  The first thread to use the static may be any, and errno, which *)
(* is per thread, holds whatever the thread did before left in it.         *)
(***************************************************************************)
EXTENDS Integers

CONSTANTS
  Threads,     (* the threads that ask for the limit                       *)
  Limits,      (* the limits the system may have, or it has none           *)
  SizeMod,     (* size_t counts modulo this; 2^64 or 2^32                  *)
  Errors       (* the values of errno that stand for an error              *)

ASSUME SysconfAssumption ==
  /\ SizeMod \in Nat /\ 0 < SizeMod
  /\ Limits \subseteq 0 .. SizeMod - 1
  /\ 0 \notin Errors

Indeterminate == -1
Sizes == 0 .. SizeMod - 1

VARIABLES
  limit,       (* what the system answers, as long as it answers at all    *)
  guard,       (* the guard of the static: "unset", "busy" or "set"        *)
  value,       (* the static; zero before it is initialized                *)
  pc,          (* per thread: the next step of the call it is in           *)
  static,      (* the threads whose sysconf<T>() initializes the static    *)
  errno,       (* per thread: errno                                        *)
  result,      (* per thread: what ::sysconf() returned                    *)
  ret,         (* per thread: how its last call ended, and with what       *)
  failed       (* history: the threads whose call ::sysconf() has failed   *)

vars == << limit, guard, value, pc, static, errno, result, ret, failed >>

Pending == [how |-> "none", size |-> 0]
Thrown  == [how |-> "throw", size |-> 0]

Init ==
  /\ limit \in Limits \cup {Indeterminate}
  /\ guard = "unset"
  /\ value = 0
  /\ pc = [t \in Threads |-> "idle"]
  /\ static = {}
  /\ errno = [t \in Threads |-> 0]
  /\ result = [t \in Threads |-> Indeterminate]
  /\ ret = [t \in Threads |-> Pending]
  /\ failed = {}

(* static_cast<size_t>(long).                                              *)
Cast(long) == long % SizeMod

-----------------------------------------------------------------------------
(* A thread calls sysconf<T>() itself, or the function with the static.    *)
Call(t) ==
  /\ pc[t] = "idle"
  /\ \E step \in {"reset", "guard"} : pc' = [pc EXCEPT ![t] = step]
  /\ \E e \in Errors \cup {0} : errno' = [errno EXCEPT ![t] = e]
  /\ ret' = [ret EXCEPT ![t] = Pending]
  /\ failed' = failed \ {t}
  /\ UNCHANGED << limit, guard, value, static, result >>

Return(t, r) ==
  /\ pc' = [pc EXCEPT ![t] = "idle"]
  /\ ret' = [ret EXCEPT ![t] = r]

(* Mutant of Enter: a caller does not wait for the one that initializes.   *)
EnterUnguarded(t) ==
  /\ pc[t] = "guard"
  /\ \/ /\ guard = "unset"
        /\ guard' = "busy"
        /\ static' = static \cup {t}
        /\ pc' = [pc EXCEPT ![t] = "reset"]
        /\ UNCHANGED ret
     \/ /\ guard # "unset"
        /\ Return(t, [how |-> "value", size |-> value])
        /\ UNCHANGED << guard, static >>
  /\ UNCHANGED << limit, value, errno, result, failed >>

(* The function with the static: initialize it or return it.  While it is  *)
(* busy, there is no step to take.                                         *)
Enter(t) ==
  /\ pc[t] = "guard"
  /\ \/ /\ guard = "unset"
        /\ guard' = "busy"
        /\ static' = static \cup {t}
        /\ pc' = [pc EXCEPT ![t] = "reset"]
        /\ UNCHANGED ret
     \/ /\ guard = "set"
        /\ Return(t, [how |-> "value", size |-> value])
        /\ UNCHANGED << guard, static >>
  /\ UNCHANGED << limit, value, errno, result, failed >>

(* Mutant of ResetErrno: errno stays as it was.                            *)
ResetNothing(t) ==
  /\ pc[t] = "reset"
  /\ pc' = [pc EXCEPT ![t] = "ask"]
  /\ UNCHANGED << limit, guard, value, static, errno, result, ret, failed >>

ResetErrno(t) ==
  /\ pc[t] = "reset"
  /\ errno' = [errno EXCEPT ![t] = 0]
  /\ pc' = [pc EXCEPT ![t] = "ask"]
  /\ UNCHANGED << limit, guard, value, static, result, ret, failed >>

(* ::sysconf(): -1 and errno for an error, -1 and the errno it was called  *)
(* with for an indeterminate limit; with any other limit, the errno it     *)
(* leaves means nothing.                                                   *)
Ask(t) ==
  /\ pc[t] = "ask"
  /\ \/ /\ \E e \in Errors : errno' = [errno EXCEPT ![t] = e]
        /\ result' = [result EXCEPT ![t] = Indeterminate]
        /\ failed' = failed \cup {t}
     \/ /\ limit = Indeterminate
        /\ result' = [result EXCEPT ![t] = Indeterminate]
        /\ UNCHANGED << errno, failed >>
     \/ /\ limit # Indeterminate
        /\ \E e \in Errors \cup {0} : errno' = [errno EXCEPT ![t] = e]
        /\ result' = [result EXCEPT ![t] = limit]
        /\ UNCHANGED failed
  /\ pc' = [pc EXCEPT ![t] = "check"]
  /\ UNCHANGED << limit, guard, value, static, ret >>

(* Mutant of Throw: the exception leaves the guard as it is.               *)
ThrowKeepingGuard(t) ==
  /\ pc[t] = "check"
  /\ result[t] = -1 /\ errno[t] # 0
  /\ Return(t, Thrown)
  /\ static' = static \ {t}
  /\ UNCHANGED << limit, guard, value, errno, result, failed >>

(* std::system_error; out of an initialization it unsets the guard.        *)
Throw(t) ==
  /\ pc[t] = "check"
  /\ result[t] = -1 /\ errno[t] # 0
  /\ Return(t, Thrown)
  /\ guard' = IF t \in static THEN "unset" ELSE guard
  /\ static' = static \ {t}
  /\ UNCHANGED << limit, value, errno, result, failed >>

(* sysconf<T>() returns, to its caller or into the static.                 *)
ReturnSize(t) ==
  /\ pc[t] = "check"
  /\ result[t] # -1 \/ errno[t] = 0
  /\ Return(t, [how |-> "value", size |-> Cast(result[t])])
  /\ guard' = IF t \in static THEN "set" ELSE guard
  /\ value' = IF t \in static THEN Cast(result[t]) ELSE value
  /\ static' = static \ {t}
  /\ UNCHANGED << limit, errno, result, failed >>

-----------------------------------------------------------------------------
Step(t) == Enter(t) \/ ResetErrno(t) \/ Ask(t) \/ Throw(t) \/ ReturnSize(t)

Next == \E t \in Threads : Call(t) \/ Step(t)

Spec == Init /\ [][Next]_vars

(* Every thread that is in a call and not held up by the guard runs.       *)
FairSpec == Spec /\ \A t \in Threads : WF_vars(Step(t))

-----------------------------------------------------------------------------
(* The types of the variables.                                             *)
TypeOK ==
  /\ limit \in Limits \cup {Indeterminate}
  /\ guard \in {"unset", "busy", "set"}
  /\ value \in Sizes
  /\ pc \in [Threads -> {"idle", "guard", "reset", "ask", "check"}]
  /\ static \in SUBSET Threads
  /\ errno \in [Threads -> Errors \cup {0}]
  /\ result \in [Threads -> Limits \cup {Indeterminate}]
  /\ ret \in [Threads -> [how : {"none", "value", "throw"}, size : Sizes]]
  /\ failed \in SUBSET Threads

(* Whoever asks and whichever way, every answer is the limit the system    *)
(* has, or the largest size_t where it has none: nobody gets the zero of a *)
(* static that another thread is still initializing.                       *)
OneAnswer ==
  \A t \in Threads : ret[t].how = "value" =>
    ret[t].size = IF limit = Indeterminate THEN SizeMod - 1 ELSE limit

(* A caller gets an exception only for an error of its own call: neither   *)
(* an errno from before, nor the failed initialization of another thread,  *)
(* nor a limit the system does not have makes it throw.                    *)
ThrowsOnlyItsError ==
  \A t \in Threads : ret[t].how = "throw" => t \in failed

(* Unless ::sysconf() goes on failing, every call ends: an initialization  *)
(* that threw does not shut out the threads that waited for it.            *)
CallsEnd ==
  \/ []<><<\E t \in Threads : Ask(t) /\ t \in failed'>>_vars
  \/ \A t \in Threads : []<>(pc[t] = "idle")
=============================================================================
