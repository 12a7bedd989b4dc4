----------------------------- MODULE AtomicPair -----------------------------
(***************************************************************************)
(* What the double-word primitives of ConcurrentFW promise: a pair of      *)
(* values that loads, stores and compare-and-swaps treat as one, each at   *)
(* one instant between its start and its end.  Where Splits is true there  *)
(* are also loads and stores that promise less, one instant for each half. *)
(* Module DoubleWord implements it.                                        *)
(***************************************************************************)
CONSTANTS
  Threads,
  Pairs,       (* the values of the pair                                   *)
  Zero,        (* one of them: what a call without an argument has for one *)
  Splits       (* whether some calls take the halves one by one            *)

VARIABLES
  pair,        (* the value                                                *)
  call,        (* per thread: the call it is in, its two arguments, and    *)
               (* the halves that it has still to take one by one          *)
  result       (* per thread: whether its last call exchanged the pair,    *)
               (* and the pair it found                                    *)

vars == << pair, call, result >>

Calling(op, e, d, todo) ==
  [op |-> op, expected |-> e, desired |-> d, todo |-> todo]

Idle      == Calling("idle", Zero, Zero, {})
Load      == Calling("load", Zero, Zero, {})
Store(d)  == Calling("store", Zero, d, {})
Cas(e, d) == Calling("cas", e, d, {})

SplitLoad     == Calling("split_load", Zero, Zero, {1, 2})
SplitStore(d) == Calling("split_store", Zero, d, {1, 2})

NoResult == [exchanged |-> FALSE, found |-> Zero]

Init ==
  /\ pair \in Pairs
  /\ call = [t \in Threads |-> Idle]
  /\ result = [t \in Threads |-> NoResult]

Start(t) ==
  /\ call[t] = Idle
  /\ \/ call' = [call EXCEPT ![t] = Load]
     \/ Splits /\ call' = [call EXCEPT ![t] = SplitLoad]
     \/ \E d \in Pairs :
          \/ call' = [call EXCEPT ![t] = Store(d)]
          \/ Splits /\ call' = [call EXCEPT ![t] = SplitStore(d)]
          \/ \E e \in Pairs : call' = [call EXCEPT ![t] = Cas(e, d)]
  /\ result' = [result EXCEPT ![t] = NoResult]
  /\ UNCHANGED pair

Found(p) == [exchanged |-> FALSE, found |-> p]

End(t, r) ==
  /\ call' = [call EXCEPT ![t] = Idle]
  /\ result' = [result EXCEPT ![t] = r]

DoLoad(t) ==
  /\ call[t] = Load
  /\ End(t, Found(pair))
  /\ UNCHANGED pair

DoStore(t) ==
  /\ call[t].op = "store"
  /\ pair' = call[t].desired
  /\ End(t, NoResult)

(* The pair changes only if it is as expected; the caller learns what it   *)
(* was in either case.                                                     *)
DoCas(t) ==
  /\ call[t].op = "cas"
  /\ pair' = IF pair = call[t].expected THEN call[t].desired ELSE pair
  /\ End(t, [exchanged |-> pair = call[t].expected, found |-> pair])

(* A split load collects the halves in the place of its argument.          *)
LoadHalf(t, i) ==
  /\ call[t].op = "split_load" /\ i \in call[t].todo
  /\ LET found == [call[t].expected EXCEPT ![i] = pair[i]] IN
     \/ call[t].todo = {i} /\ End(t, Found(found))
     \/ /\ call[t].todo # {i}
        /\ call' = [call EXCEPT ![t] =
                     Calling("split_load", found, Zero, @.todo \ {i})]
        /\ UNCHANGED result
  /\ UNCHANGED pair

StoreHalf(t, i) ==
  /\ call[t].op = "split_store" /\ i \in call[t].todo
  /\ pair' = [pair EXCEPT ![i] = call[t].desired[i]]
  /\ \/ call[t].todo = {i} /\ End(t, NoResult)
     \/ /\ call[t].todo # {i}
        /\ call' = [call EXCEPT ![t] =
                     Calling("split_store", Zero, @.desired, @.todo \ {i})]
        /\ UNCHANGED result

Next ==
  \E t \in Threads :
    \/ Start(t) \/ DoLoad(t) \/ DoStore(t) \/ DoCas(t)
    \/ \E i \in {1, 2} : LoadHalf(t, i) \/ StoreHalf(t, i)

Spec == Init /\ [][Next]_vars
=============================================================================
