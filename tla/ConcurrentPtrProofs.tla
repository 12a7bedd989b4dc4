------------------------- MODULE ConcurrentPtrProofs -------------------------
(***************************************************************************)
(* Proofs about ConcurrentPtr, for any sets of threads and targets, any    *)
(* width of the counter, and both platforms.                               *)
(*                                                                         *)
(* What has to be known of a call is how its copy of the word relates to   *)
(* the word: a half that no store came behind is still right, a counter    *)
(* that one came behind is wrong, and the exclusive monitor is set exactly *)
(* while the loaded word is untouched (Knows).                             *)
(***************************************************************************)
EXTENDS ConcurrentPtr, TLAPS

Knows(t) ==
  /\ pc[t] # "set" => unread[t] = Halves /\ desired[t] = Null
  /\ behind[t] \cap unread[t] = {}
  /\ Dwcas => /\ "data" \notin unread[t] \cup behind[t] => cache[t].data = word.data
              /\ "counter" \notin unread[t] \cup behind[t]
                   => cache[t].counter = word.counter
              /\ "counter" \in behind[t] => cache[t].counter # word.counter
  /\ ~Dwcas => (t \in monitor <=> "data" \notin unread[t] \cup behind[t])

Inv ==
  /\ TypeOK
  /\ ~Dwcas => word.counter = 0
  /\ \A t \in Threads : Knows(t)

-----------------------------------------------------------------------------
LEMMA InitEstablishesInv == Init => Inv
PROOF
  <1> SUFFICES ASSUME Init PROVE Inv
    OBVIOUS
  <1>1. PICK p \in Pointers : Construct(p)
    BY DEF Init
  <1>2. AbaTypeOK(Pointers)
    BY <1>1, PlatformAssumption DEF Construct, AbaTypeOK, NoCache, Pointers
  <1>3. TypeOK
    BY <1>2 DEF Init, TypeOK, Pointers
  <1>4. \A t \in Threads : Knows(t)
    BY <1>1 DEF Init, Construct, Knows, Halves
  <1> QED BY <1>1, <1>3, <1>4 DEF Inv, Construct

(* The counter stays within its width.                                     *)
LEMMA IncrementType ==
  ASSUME NEW c \in 0 .. CounterMod - 1
  PROVE  /\ Increment(c) \in 0 .. CounterMod - 1
         /\ Increment(c) = IF c + 1 = CounterMod THEN 0 ELSE c + 1
  BY PlatformAssumption DEF Increment

-----------------------------------------------------------------------------
(* A call starts or a load returns: the word and its copies stay.          *)
LEMMA QuietKeepsInv ==
  ASSUME Inv, NEW t \in Threads,
         \/ \E p \in Pointers : CallSet(t, p)
         \/ \E call \in {"get", "get_counter"} : CallGet(t, call)
         \/ ReturnHalf(t)
  PROVE  Inv'
PROOF
  <1>1. UNCHANGED << abaVars, behind >>
    BY DEF CallSet, CallGet, ReturnHalf
  <1>2. AbaTypeOK(Pointers)' /\ word \in [data : Pointers, counter : 0 .. CounterMod - 1]
    BY <1>1 DEF Inv, TypeOK, AbaTypeOK, abaVars
  <1>3. GetData \in Pointers /\ GetCounter \in 0 .. CounterMod - 1
    BY <1>2, PlatformAssumption DEF GetData, GetCounter
  <1>4. TypeOK'
    <2>1. CASE \E p \in Pointers : CallSet(t, p)
      BY <1>1, <1>2, <2>1 DEF Inv, TypeOK, CallSet
    <2>2. CASE \E call \in {"get", "get_counter"} : CallGet(t, call)
      BY <1>1, <1>2, <2>2 DEF Inv, TypeOK, CallGet
    <2>3. CASE ReturnHalf(t)
      BY <1>1, <1>2, <1>3, <2>3 DEF Inv, TypeOK, ReturnHalf
    <2> QED BY <2>1, <2>2, <2>3
  <1>5. ASSUME NEW u \in Threads PROVE Knows(u)'
    <2>1. Knows(u) /\ Knows(t)
      BY DEF Inv
    <2>2. pc'[u] # "set" => unread[u] = Halves /\ desired'[u] = Null
      BY <2>1 DEF Knows, Inv, TypeOK, CallSet, CallGet, ReturnHalf
    <2> QED BY <1>1, <2>1, <2>2 DEF Knows, abaVars
  <1> QED BY <1>1, <1>4, <1>5 DEF Inv, abaVars

(* A load or a failed store of t: the word stays, and t's copy of it is    *)
(* brought up to date or dropped.                                          *)
LEMMA LocalKeepsInv ==
  ASSUME Inv, NEW t \in Threads, LoadWord(t) \/ SetRetry(t)
  PROVE  Inv'
PROOF
  <1> DEFINE W == [data : Pointers, counter : 0 .. CounterMod - 1]
  <1>1. /\ word \in W /\ cache \in [Threads -> W]
        /\ unread \in [Threads -> SUBSET Halves] /\ monitor \in SUBSET Threads
        /\ behind \in [Threads -> SUBSET Halves]
    BY DEF Inv, TypeOK, AbaTypeOK
  <1>2. NoCache \in W
    BY PlatformAssumption DEF NoCache, Pointers
  <1>3. UNCHANGED << word, pc, desired, result >> /\ pc[t] = "set"
    BY DEF LoadWord, SetRetry, Load, LoadData, LoadCounter, Retry, DwCasFails,
           ExclusiveStoreFails, SpuriousFailure, ptrVars
  <1>4. Knows(t)
    BY DEF Inv
  <1>5. /\ AbaTypeOK(Pointers)' /\ behind' \in [Threads -> SUBSET Halves]
        /\ Knows(t)'
        /\ \A u \in Threads \ {t} :
             /\ cache'[u] = cache[u] /\ unread'[u] = unread[u] /\ behind'[u] = behind[u]
             /\ u \in monitor' <=> u \in monitor
    <2>1. CASE LoadWord(t) /\ LoadData(t)
      BY <1>1, <1>3, <1>4, <2>1 DEF LoadWord, LoadData, ptrVars, Knows, AbaTypeOK
    <2>2. CASE LoadWord(t) /\ LoadCounter(t)
      <3>1. Dwcas
        BY <1>1, <2>2 DEF LoadCounter, Halves
      <3> QED BY <1>1, <1>3, <1>4, <2>2, <3>1 DEF LoadWord, LoadCounter, ptrVars, Knows, AbaTypeOK
    <2>3. CASE SetRetry(t) /\ DwCasFails(t)
      BY <1>1, <1>3, <2>3 DEF SetRetry, DwCasFails, Knows, AbaTypeOK
    <2>4. CASE SetRetry(t) /\ (ExclusiveStoreFails(t) \/ SpuriousFailure(t))
      <3>1. /\ cache' = [cache EXCEPT ![t] = NoCache]
            /\ unread' = [unread EXCEPT ![t] = Halves]
            /\ behind' = [behind EXCEPT ![t] = {}]
        BY <2>4 DEF SetRetry, ExclusiveStoreFails, SpuriousFailure, Leave
      <3>2. /\ ~Dwcas /\ Halves = {"data"}
            /\ monitor' = monitor \ {t}
        BY <2>4 DEF ExclusiveStoreFails, SpuriousFailure, Halves
      <3>3. AbaTypeOK(Pointers)' /\ behind' \in [Threads -> SUBSET Halves]
        BY <1>1, <1>2, <1>3, <3>1, <3>2 DEF AbaTypeOK
      <3>4. unread'[t] = Halves /\ behind'[t] = {} /\ t \notin monitor' /\ pc'[t] = "set"
        BY <1>1, <1>3, <3>1, <3>2
      <3>5. Knows(t)'
        BY <3>2, <3>4 DEF Knows
      <3> QED BY <1>1, <3>1, <3>2, <3>3, <3>5
    <2> QED BY <2>1, <2>2, <2>3, <2>4 DEF LoadWord, SetRetry, Load, Retry
  <1>6. TypeOK'
    BY <1>3, <1>5 DEF Inv, TypeOK
  <1>7. ASSUME NEW u \in Threads \ {t} PROVE Knows(u)'
    <2>1. Knows(u)
      BY DEF Inv
    <2> QED BY <1>3, <1>5, <2>1 DEF Knows
  <1> QED BY <1>3, <1>5, <1>6, <1>7 DEF Inv

(* A successful store of t comes behind what every other call has read.    *)
LEMMA CommitKeepsInv ==
  ASSUME Inv, NEW t \in Threads, SetCommit(t)
  PROVE  Inv'
PROOF
  <1> DEFINE W == [data : Pointers, counter : 0 .. CounterMod - 1]
  <1>1. /\ word \in W /\ cache \in [Threads -> W]
        /\ unread \in [Threads -> SUBSET Halves] /\ monitor \in SUBSET Threads
        /\ desired \in [Threads -> Pointers] /\ pc[t] = "set"
    BY DEF Inv, TypeOK, AbaTypeOK, SetCommit
  <1>2. NoCache \in W
    BY PlatformAssumption DEF NoCache, Pointers
  <1>3. /\ cache' \in [Threads -> W] /\ unread' \in [Threads -> SUBSET Halves]
        /\ unread'[t] = Halves
        /\ \A u \in Threads \ {t} : cache'[u] = cache[u] /\ unread'[u] = unread[u]
    BY <1>1, <1>2 DEF SetCommit, Commit, Leave
  <1>4. /\ pc' = [pc EXCEPT ![t] = "idle"] /\ desired' = [desired EXCEPT ![t] = Null]
        /\ result' = result
        /\ behind' = [u \in Threads |-> IF u = t THEN {} ELSE Halves \ unread[u]]
    BY DEF SetCommit
  <1>5. /\ word' \in W /\ monitor' \in SUBSET Threads
        /\ Dwcas => \A u \in Threads :
                      "counter" \notin unread[u] => cache[u].counter # word'.counter
        /\ ~Dwcas => monitor' = {} /\ word'.counter = word.counter
    <2>1. CASE DwCas(t, desired[t])
      <3>1. Increment(word.counter) \in 0 .. CounterMod - 1
        BY <1>1, IncrementType
      <3>2. Dwcas /\ UNCHANGED monitor
            /\ word' = [data |-> desired[t], counter |-> Increment(word.counter)]
        BY <2>1 DEF DwCas
      <3> QED BY <1>1, <2>1, <3>1, <3>2 DEF DwCas, NotLapped
    <2>2. CASE ExclusiveStore(t, desired[t])
      BY <1>1, <2>2 DEF ExclusiveStore
    <2> QED BY <2>1, <2>2 DEF SetCommit, Commit
  <1>6. TypeOK'
    BY <1>1, <1>3, <1>4, <1>5 DEF Inv, TypeOK, AbaTypeOK, Pointers
  <1>7. Knows(t)'
    BY <1>1, <1>3, <1>4, <1>5 DEF Inv, TypeOK, Knows, Halves
  <1>8. ASSUME NEW u \in Threads \ {t} PROVE Knows(u)'
    <2>1. Knows(u) /\ unread[u] \subseteq Halves
      BY <1>1 DEF Inv
    <2>2. pc'[u] = pc[u] /\ desired'[u] = desired[u] /\ behind'[u] = Halves \ unread[u]
      BY <1>1, <1>4 DEF Inv, TypeOK
    <2> QED BY <1>3, <1>5, <2>1, <2>2 DEF Knows, Halves
  <1> QED BY <1>5, <1>6, <1>7, <1>8 DEF Inv

LEMMA NextKeepsInv == Inv /\ [Next]_vars => Inv'
PROOF
  <1> SUFFICES ASSUME Inv, [Next]_vars PROVE Inv'
    OBVIOUS
  <1>1. CASE UNCHANGED vars
    BY <1>1 DEF Inv, TypeOK, AbaTypeOK, Knows, vars, abaVars, ptrVars
  <1>2. CASE Next
    BY <1>2, QuietKeepsInv, LocalKeepsInv, CommitKeepsInv DEF Next
  <1> QED BY <1>1, <1>2

LEMMA Invariance == Spec => []Inv
  BY InitEstablishesInv, NextKeepsInv, PTL DEF Spec

-----------------------------------------------------------------------------
(* modify() judges every attempt right: a store that succeeds was          *)
(* overtaken by none, and one that fails was, unless it fails for no       *)
(* reason, so that retries always pay for somebody's progress.             *)
THEOREM AttemptsJudgedRight == Spec => StoresJudgedRight
PROOF
  <1> DEFINE Judged ==
        \A t \in Threads :
          /\ SetCommit(t) => Guard \notin behind[t]
          /\ SetRetry(t) => behind[t] # {} \/ SpuriousFailure(t)
  <1>1. Inv => Judged
    <2> SUFFICES ASSUME Inv, NEW t \in Threads
                 PROVE  /\ SetCommit(t) => Guard \notin behind[t]
                        /\ SetRetry(t) => behind[t] # {} \/ SpuriousFailure(t)
      OBVIOUS
    <2>1. /\ Knows(t)
          /\ word \in [data : Pointers, counter : 0 .. CounterMod - 1]
          /\ cache[t] \in [data : Pointers, counter : 0 .. CounterMod - 1]
      BY DEF Inv, TypeOK, AbaTypeOK
    <2>2. ASSUME SetCommit(t) PROVE Guard \notin behind[t]
      BY <2>1, <2>2 DEF SetCommit, Commit, DwCas, ExclusiveStore, Knows, Guard
    <2>3. ASSUME SetRetry(t), behind[t] = {} PROVE SpuriousFailure(t)
      <3>1. unread[t] = {}
        BY <2>3 DEF SetRetry, Retry, Loaded
      <3>2. ~DwCasFails(t)
        BY <2>1, <2>3, <3>1 DEF DwCasFails, Knows
      <3>3. ~ExclusiveStoreFails(t)
        BY <2>1, <2>3, <3>1 DEF ExclusiveStoreFails, Knows
      <3> QED BY <2>3, <3>2, <3>3 DEF SetRetry, Retry
    <2> QED BY <2>2, <2>3
  <1> QED BY <1>1, Invariance, PTL DEF StoresJudgedRight

-----------------------------------------------------------------------------
call == [t \in Threads |-> [op |-> pc[t], arg |-> desired[t]]]

LEMMA InitRefines == Init => R!Init
PROOF
  <1> SUFFICES ASSUME Init PROVE R!Init
    OBVIOUS
  <1>1. PICK p \in Pointers : Construct(p)
    BY DEF Init
  <1> QED BY <1>1 DEF Init, Construct, R!Init, R!Idle

(* How the abstract call changes when t steps.                             *)
LEMMA CallChanges ==
  ASSUME Inv, NEW t \in Threads,
         \A u \in Threads \ {t} : pc'[u] = pc[u] /\ desired'[u] = desired[u]
  PROVE  call' = [call EXCEPT ![t] = [op |-> pc'[t], arg |-> desired'[t]]]
  BY DEF call

LEMMA NextRefines == Inv /\ [Next]_vars => [R!Next]_(R!vars)
PROOF
  <1> SUFFICES ASSUME Inv, [Next]_vars PROVE R!Next \/ UNCHANGED R!vars
    OBVIOUS
  <1>1. CASE UNCHANGED vars
    BY <1>1 DEF vars, abaVars, ptrVars, R!vars
  <1>2. ASSUME NEW t \in Threads, NEW p \in Pointers, CallSet(t, p) PROVE R!Next
    <2>1. call[t] = R!Idle /\ call' = [call EXCEPT ![t] = R!Set(p)]
      BY <1>2, CallChanges DEF CallSet, call, R!Idle, R!Set, Inv, TypeOK, Knows
    <2>2. R!Start(t)
      BY <1>2, <2>1 DEF R!Start, call, CallSet, abaVars
    <2> QED BY <2>2 DEF R!Next
  <1>3. ASSUME NEW t \in Threads, NEW c \in {"get", "get_counter"}, CallGet(t, c)
        PROVE  R!Next
    <2>1. desired[t] = Null
      BY <1>3 DEF CallGet, Inv, Knows
    <2>2. call[t] = R!Idle /\ call' = [call EXCEPT ![t] = [op |-> c, arg |-> Null]]
      BY <1>3, <2>1, CallChanges DEF CallGet, call, R!Idle, Inv, TypeOK
    <2>3. R!Start(t)
      BY <1>3, <2>2 DEF R!Start, R!Get, R!Count, call, CallGet, abaVars
    <2> QED BY <2>3 DEF R!Next
  <1>4. ASSUME NEW t \in Threads, LoadWord(t) \/ SetRetry(t) PROVE UNCHANGED R!vars
    <2>1. UNCHANGED << word, pc, desired, result >>
      BY <1>4 DEF LoadWord, SetRetry, Load, LoadData, LoadCounter, Retry, DwCasFails,
         ExclusiveStoreFails, SpuriousFailure, ptrVars
    <2> QED BY <2>1 DEF R!vars
  <1>5. ASSUME NEW t \in Threads, SetCommit(t) PROVE R!Next
    <2>1. /\ pc[t] = "set" /\ desired[t] \in Pointers
          /\ word.counter \in 0 .. CounterMod - 1
      BY <1>5 DEF SetCommit, Inv, TypeOK, AbaTypeOK
    <2>2. call[t] = R!Set(desired[t]) /\ call' = [call EXCEPT ![t] = R!Idle]
      BY <1>5, <2>1, CallChanges DEF SetCommit, call, R!Idle, R!Set, Inv, TypeOK
    <2>3. /\ word'.data = desired[t]
          /\ word'.counter = IF ~Dwcas THEN 0
                             ELSE IF word.counter + 1 = CounterMod THEN 0
                                                                   ELSE word.counter + 1
      <3>1. CASE DwCas(t, desired[t])
        BY <2>1, <3>1, IncrementType DEF DwCas
      <3>2. CASE ExclusiveStore(t, desired[t])
        BY <3>2 DEF ExclusiveStore, Inv, TypeOK, AbaTypeOK
      <3> QED BY <1>5, <3>1, <3>2 DEF SetCommit, Commit
    <2>4. R!DoSet(t)
      BY <1>5, <2>1, <2>2, <2>3 DEF R!DoSet, call, SetCommit
    <2> QED BY <2>4 DEF R!Next
  <1>6. ASSUME NEW t \in Threads, ReturnHalf(t) PROVE R!Next
    <2>1. UNCHANGED word /\ desired[t] = Null /\ UNCHANGED desired
      BY <1>6 DEF ReturnHalf, abaVars, Inv, Knows
    <2>2. call' = [call EXCEPT ![t] = R!Idle]
      BY <1>6, <2>1, CallChanges DEF ReturnHalf, R!Idle, Inv, TypeOK
    <2>3. CASE pc[t] = "get"
      <3>1. call[t] = R!Get /\ result' = [result EXCEPT ![t] = word.data]
        BY <1>6, <2>1, <2>3 DEF ReturnHalf, call, R!Get, GetData
      <3>2. R!DoGet(t)
        BY <2>1, <2>2, <3>1 DEF R!DoGet, R!Return, call
      <3> QED BY <3>2 DEF R!Next
    <2>4. CASE pc[t] = "get_counter"
      <3>1. call[t] = R!Count /\ result' = [result EXCEPT ![t] = word.counter]
        BY <1>6, <2>1, <2>4 DEF ReturnHalf, call, R!Count, GetCounter, Inv
      <3>2. R!DoCount(t)
        BY <2>1, <2>2, <3>1 DEF R!DoCount, R!Return, call
      <3> QED BY <3>2 DEF R!Next
    <2> QED BY <1>6, <2>3, <2>4 DEF ReturnHalf
  <1> QED BY <1>1, <1>2, <1>3, <1>4, <1>5, <1>6 DEF Next

(* To its callers, Concurrent_Ptr is an atomic register that counts its    *)
(* sets where the platform does, on both platforms.                        *)
THEOREM ConcurrentPtrImplementsRegister == Spec => ImplementsRegister
  BY InitRefines, NextRefines, Invariance, PTL DEF Spec, ImplementsRegister, R!Spec
=============================================================================
