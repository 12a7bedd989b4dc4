------------------------ MODULE ExclusivePairProofs ------------------------
(***************************************************************************)
(* Proofs about ExclusivePair, for any set of threads and any width of a   *)
(* word, whatever mixture of the two builds they use.                      *)
(*                                                                         *)
(* The arithmetic of 32 bit Arm comes first: two words survive the way     *)
(* through a 64 bit number, in both directions.  The invariant is          *)
(* MonitorMeansCurrent, and that a load under way has one word to read;    *)
(* it makes the second word complete a pair that was in memory as a whole. *)
(***************************************************************************)
EXTENDS ExclusivePair, TLAPS

(* Two digits in base Half: their number has these digits.                 *)
LEMMA Digits ==
  ASSUME NEW lo \in Halves, NEW hi \in Halves
  PROVE  /\ (lo + (Half * hi)) % Half = lo
         /\ (lo + (Half * hi)) \div Half = hi
         /\ hi % Half = hi
PROOF
  <1>1. Half \in Nat /\ Half > 1 /\ lo \in 0 .. Half - 1 /\ hi \in 0 .. Half - 1
    BY HalfAssumption DEF Halves
  <1>2. (lo + (Half * hi)) % Half = lo
    BY <1>1, SMTT(30)
  <1>3. (lo + (Half * hi)) \div Half = hi
    BY <1>1, SMTT(30)
  <1>4. hi % Half = hi
    BY <1>1, SMTT(30)
  <1> QED BY <1>2, <1>3, <1>4

(* What 32 bit Arm moves as one number fits 64 bits and comes out as the   *)
(* same words in the same order: the load takes the register pair apart by *)
(* casts and a shift, and the store puts together in one what memory takes *)
(* as two words.                                                           *)
THEOREM WordsSurviveNumber ==
  ASSUME NEW p \in Pairs
  PROVE  /\ Register(p) \in 0 .. Half * Half - 1 /\ Unpack(Register(p)) = p
         /\ Pack(p) \in 0 .. Half * Half - 1 /\ Memory(Pack(p)) = p
PROOF
  <1>1. p[1] \in Halves /\ p[2] \in Halves /\ p = << p[1], p[2] >>
    BY DEF Pairs
  <1>2. Unpack(Register(p)) = p /\ Memory(Pack(p)) = p
    BY <1>1, Digits DEF Unpack, Register, Memory, Pack
  <1>3. p[1] + (Half * p[2]) \in 0 .. Half * Half - 1
    <2>1. /\ Half \in Nat /\ Half > 1
          /\ p[1] \in 0 .. Half - 1 /\ p[2] \in 0 .. Half - 1
      BY <1>1, HalfAssumption DEF Halves
    <2>2. Half * p[2] \in Nat /\ Half * p[2] <= Half * (Half - 1)
      BY <2>1, SMTT(30)
    <2>3. Half * (Half - 1) = Half * Half - Half /\ Half * Half \in Nat
      BY <2>1, SMTT(30)
    <2> QED BY <2>1, <2>2, <2>3
  <1> QED BY <1>2, <1>3 DEF Register, Pack

(* A load under way has one word to read, and what a set monitor means.    *)
Inv ==
  /\ TypeOK
  /\ MonitorMeansCurrent
  /\ \A t \in Threads : unread[t] # {1, 2}

LEMMA ZeroIsPair == Zero \in Pairs /\ 0 \in Halves
  BY HalfAssumption DEF Zero, Pairs, Halves

LEMMA InitEstablishesInv == Init => Inv
  BY ZeroIsPair DEF Init, Inv, TypeOK, MonitorMeansCurrent, NotStored

(* A pair with word i of another one is a pair, and if the other word is   *)
(* the same already then it is the other pair.                             *)
WithWord(p, q, i) == [p EXCEPT ![i] = q[i]]

LEMMA WordByWord ==
  ASSUME NEW p \in Pairs, NEW q \in Pairs, NEW i \in {1, 2}
  PROVE  /\ WithWord(p, q, i) \in Pairs
         /\ WithWord(p, q, i)[i] = q[i]
         /\ (\A j \in {1, 2} \ {i} : p[j] = q[j]) => WithWord(p, q, i) = q
PROOF
  <1>1. /\ p = << p[1], p[2] >> /\ q = << q[1], q[2] >>
        /\ p[1] \in Halves /\ p[2] \in Halves /\ q[1] \in Halves /\ q[2] \in Halves
    BY DEF Pairs
  <1>2. CASE i = 1
    <2>1. WithWord(p, q, i) = << q[1], p[2] >>
      BY <1>1, <1>2 DEF WithWord
    <2> QED BY <1>1, <1>2, <2>1 DEF Pairs
  <1>3. CASE i = 2
    <2>1. WithWord(p, q, i) = << p[1], q[2] >>
      BY <1>1, <1>3 DEF WithWord
    <2> QED BY <1>1, <1>3, <2>1 DEF Pairs
  <1> QED BY <1>2, <1>3

(* What a step that leaves the pair alone must do for the invariant: keep  *)
(* the other threads as they are, set no monitor of theirs, and treat its  *)
(* own thread right.                                                       *)
LEMMA LocalStepKeepsInv ==
  ASSUME Inv, NEW t \in Threads, TypeOK', UNCHANGED atomic,
         monitor' \subseteq monitor \cup {t},
         \A u \in Threads \ {t} : /\ unread'[u] = unread[u]
                                  /\ transfer'[u] = transfer[u]
                                  /\ loaded'[u] = loaded[u],
         unread'[t] # {1, 2},
         t \in monitor' =>
           /\ unread'[t] = {} => loaded'[t] = atomic
           /\ unread'[t] # {} =>
                \A i \in {1, 2} \ unread'[t] : transfer'[t][i] = atomic[i]
  PROVE  Inv'
PROOF
  <1>1. MonitorMeansCurrent'
    BY DEF Inv, TypeOK, MonitorMeansCurrent, Idle
  <1>2. \A u \in Threads : unread'[u] # {1, 2}
    BY DEF Inv
  <1> QED BY <1>1, <1>2 DEF Inv

LEMMA LoadRegisterPairKeepsInv ==
  ASSUME Inv, NEW t \in Threads, LoadRegisterPair(t)
  PROVE  Inv'
PROOF
  <1>1. Unpack(Register(atomic)) = atomic
    BY WordsSurviveNumber DEF Inv, TypeOK
  <1>2. TypeOK'
    BY <1>1, ZeroIsPair DEF LoadRegisterPair, Deliver, Inv, TypeOK, NotStored
  <1>3. unread'[t] = {} /\ loaded'[t] = atomic
    BY <1>1 DEF LoadRegisterPair, Deliver, Inv, TypeOK
  <1> QED
    BY <1>2, <1>3, LocalStepKeepsInv DEF LoadRegisterPair, Deliver, Inv, TypeOK

LEMMA LoadFirstKeepsInv ==
  ASSUME Inv, NEW t \in Threads, LoadFirst(t)
  PROVE  Inv'
PROOF
  <1>1. PICK i \in {1, 2} :
          /\ transfer' = [transfer EXCEPT ![t][i] = atomic[i]]
          /\ unread' = [unread EXCEPT ![t] = {1, 2} \ {i}]
    BY DEF LoadFirst
  <1>2. transfer[t] \in Pairs /\ atomic \in Pairs
    BY DEF Inv, TypeOK
  <1>3. transfer'[t] = WithWord(transfer[t], atomic, i)
    BY <1>1 DEF Inv, TypeOK, WithWord
  <1>4. transfer'[t] \in Pairs /\ transfer'[t][i] = atomic[i]
    BY <1>2, <1>3, WordByWord
  <1>5. \A u \in Threads \ {t} : transfer'[u] = transfer[u]
    BY <1>1 DEF Inv, TypeOK
  <1>6. transfer' \in [Threads -> Pairs]
    BY <1>1, <1>4, <1>5 DEF Inv, TypeOK
  <1>7. TypeOK'
    BY <1>1, <1>6, ZeroIsPair DEF LoadFirst, Inv, TypeOK, NotStored
  <1>8. unread'[t] = {1, 2} \ {i}
    BY <1>1 DEF Inv, TypeOK
  <1>9. /\ unread'[t] # {1, 2} /\ unread'[t] # {}
        /\ \A j \in {1, 2} \ unread'[t] : transfer'[t][j] = atomic[j]
    BY <1>4, <1>8
  <1> QED
    BY <1>1, <1>5, <1>7, <1>9, LocalStepKeepsInv DEF LoadFirst, Inv, TypeOK

(* The second word completes the pair in memory if the monitor is still    *)
(* set; otherwise it may be torn, and the store will fail.                 *)
LEMMA LoadSecondKeepsInv ==
  ASSUME Inv, NEW t \in Threads, LoadSecond(t)
  PROVE  Inv'
PROOF
  <1>1. PICK i \in unread[t] : Deliver(t, WithWord(transfer[t], atomic, i))
    BY DEF LoadSecond, WithWord
  <1>2. /\ transfer[t] \in Pairs /\ atomic \in Pairs
        /\ i \in {1, 2} /\ unread[t] = {i}
    BY DEF Inv, TypeOK
  <1>3. WithWord(transfer[t], atomic, i) \in Pairs
    BY <1>2, WordByWord
  <1>4. TypeOK'
    BY <1>1, <1>3, ZeroIsPair DEF LoadSecond, Deliver, Inv, TypeOK, NotStored
  <1>5. unread'[t] = {} /\ loaded'[t] = WithWord(transfer[t], atomic, i)
    BY <1>1 DEF Deliver, Inv, TypeOK
  <1>6. t \in monitor => loaded'[t] = atomic
    <2> SUFFICES ASSUME t \in monitor PROVE loaded'[t] = atomic
      OBVIOUS
    <2>1. \A j \in {1, 2} \ {i} : transfer[t][j] = atomic[j]
      BY <1>2 DEF Inv, MonitorMeansCurrent, Idle
    <2>2. WithWord(transfer[t], atomic, i) = atomic
      BY <1>2, <2>1, WordByWord
    <2> QED BY <1>5, <2>2
  <1> QED
    BY <1>1, <1>4, <1>5, <1>6, LocalStepKeepsInv
    DEF LoadSecond, Deliver, Inv, TypeOK

(* A store changes the pair and leaves no monitor set.                     *)
LEMMA StoreSucceedsFacts ==
  ASSUME Inv, NEW t \in Threads, NEW p \in Pairs, StoreSucceeds(t, p)
  PROVE  /\ Inv'
         /\ loaded[t] = atomic /\ atomic' = p
         /\ stored' = [by |-> {t}, what |-> p]
PROOF
  <1>1. atomic' = p
    BY WordsSurviveNumber DEF StoreSucceeds
  <1>2. Inv'
    BY <1>1 DEF StoreSucceeds, Inv, TypeOK, MonitorMeansCurrent
  <1> QED BY <1>1, <1>2 DEF StoreSucceeds, Inv, MonitorMeansCurrent

(* A store that fails and an abort give the monitor up.                    *)
LEMMA GiveUpKeepsInv ==
  ASSUME Inv, NEW t \in Threads, StoreFails(t) \/ Abort(t)
  PROVE  Inv'
PROOF
  <1>1. TypeOK'
    BY ZeroIsPair DEF StoreFails, Abort, Inv, TypeOK, NotStored
  <1>2. t \notin monitor' /\ monitor' \subseteq monitor
    BY DEF StoreFails, Abort
  <1> QED
    BY <1>1, <1>2, LocalStepKeepsInv DEF StoreFails, Abort, Inv, TypeOK

-----------------------------------------------------------------------------
(* Every step: the invariant, and who may change the pair for what.        *)
LEMMA NextFacts ==
  ASSUME Inv, [Next]_vars
  PROVE  /\ Inv'
         /\ \/ UNCHANGED vars
            \/ stored'.by = {} /\ UNCHANGED atomic
            \/ \E t \in Threads : /\ stored'.by = {t} /\ loaded[t] = atomic
                                  /\ atomic' = stored'.what
PROOF
  <1>1. CASE UNCHANGED vars
    BY <1>1 DEF vars, Inv, TypeOK, MonitorMeansCurrent, Idle
  <1>2. ASSUME NEW t \in Threads,
               LoadRegisterPair(t) \/ LoadFirst(t) \/ LoadSecond(t)
                 \/ StoreFails(t) \/ Abort(t)
        PROVE  Inv' /\ stored'.by = {} /\ UNCHANGED atomic
    <2>1. Inv'
      BY <1>2, LoadRegisterPairKeepsInv, LoadFirstKeepsInv, LoadSecondKeepsInv,
         GiveUpKeepsInv
    <2>2. stored' = NotStored /\ UNCHANGED atomic
      BY <1>2 DEF LoadRegisterPair, LoadFirst, LoadSecond, StoreFails, Abort
    <2> QED BY <2>1, <2>2 DEF NotStored
  <1>3. ASSUME NEW t \in Threads, NEW p \in Pairs, StoreSucceeds(t, p)
        PROVE  /\ Inv' /\ stored'.by = {t} /\ loaded[t] = atomic
               /\ atomic' = stored'.what
    BY <1>3, StoreSucceedsFacts
  <1> QED BY <1>1, <1>2, <1>3 DEF Next

LEMMA Invariance == Spec => []Inv
PROOF
  <1>1. Inv /\ [Next]_vars => Inv'
    BY NextFacts
  <1> QED BY <1>1, InitEstablishesInv, PTL DEF Spec

(* While a thread's monitor is set, what it has read is what is there,     *)
(* although the two words were read one after the other.                   *)
THEOREM MonitorsVouch == Spec => []MonitorMeansCurrent
  BY Invariance, PTL DEF Inv

(* No store-exclusive that returns true has overwritten anything but the   *)
(* pair that its thread loaded, torn load or not.                          *)
THEOREM StoresExchangeTheLoadedPair == Spec => ExchangesWhatWasLoaded
PROOF
  <1>1. Inv /\ [Next]_vars =>
          [IF stored'.by = {}
           THEN UNCHANGED atomic
           ELSE /\ \A t \in stored'.by : atomic = loaded[t]
                /\ atomic' = stored'.what]_vars
    BY NextFacts
  <1> QED BY <1>1, Invariance, PTL DEF Spec, ExchangesWhatWasLoaded
=============================================================================
