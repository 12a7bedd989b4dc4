---------------------------- MODULE StackProofs ----------------------------
(***************************************************************************)
(* Proofs about Stack, for any sets of threads and blocks, any width of    *)
(* the counter, and both platforms.                                        *)
(*                                                                         *)
(* The inductive invariant is Inv: the types, the chain in memory, who has *)
(* each block, and what each call knows at each of its steps.  The heart   *)
(* of it is Fresh: while the word is still what a call has cached (or its  *)
(* exclusive monitor is still set), the link it read is still the link of  *)
(* the top block; every commit ends the freshness of every other call.     *)
(* StackReclaim comes last: its blocks are freed only when no pop() can    *)
(* have them in its cache any more.                                        *)
(***************************************************************************)
EXTENDS StackReclaim, SequenceTheorems, TLAPS

(* The conditional store of t would still succeed.                         *)
Fresh(t) == IF Dwcas THEN cache[t] = word ELSE t \in monitor

(* Every block is in one place: BlocksConserved, without counting.         *)
OnePlace ==
  /\ \A i, j \in 1 .. Len(items) : items[i] = items[j] => i = j
  /\ \A i \in 1 .. Len(items), t \in Threads : items[i] \notin holds[t]
  /\ \A t, u \in Threads : \A b \in holds[t] : b \in holds[u] => t = u
  /\ \A b \in Blocks : \/ \E i \in 1 .. Len(items) : items[i] = b
                       \/ \E t \in Threads : b \in holds[t]

(* What a call knows at each step: a push() owns its block until its store *)
(* succeeds and has linked it to the top it cached, a pop() has read the   *)
(* link of its top, and a set monitor means that the word is as loaded.    *)
CallKnows ==
  \A t \in Threads :
    /\ pc[t] = "idle" => unread[t] = Halves
    /\ pc[t] \in {"push", "push_store"} => desired[t] \in holds[t]
    /\ pc[t] \in {"push_store", "pop_store"} => unread[t] = {}
    /\ pc[t] = "push_store" => next[desired[t]] = cache[t].data
    /\ pc[t] = "pop_store" => cache[t].data # Null
    /\ pc[t] = "pop_store" /\ Fresh(t) => desired[t] = next[cache[t].data]
    /\ ~Dwcas /\ t \in monitor => "data" \notin unread[t] /\ cache[t].data = word.data

Inv == TypeOK /\ ChainIntact /\ OnePlace /\ CallKnows

-----------------------------------------------------------------------------
(* Sequences: a new first element, and the loss of the first element.      *)
LEMMA Prepended ==
  ASSUME NEW S, NEW s \in Seq(S), NEW b \in S
  PROVE  LET r == << b >> \o s IN
         /\ r \in Seq(S)
         /\ Len(r) = Len(s) + 1
         /\ r[1] = b
         /\ \A i \in 2 .. Len(r) : r[i] = s[i - 1]
PROOF
  <1>1. << b >> \in Seq(S) /\ Len(<< b >>) = 1 /\ << b >>[1] = b
    OBVIOUS
  <1> QED
    BY <1>1, ConcatProperties

LEMMA Dropped ==
  ASSUME NEW S, NEW s \in Seq(S), s # << >>
  PROVE  LET r == SubSeq(s, 2, Len(s)) IN
         /\ r \in Seq(S)
         /\ Len(s) >= 1
         /\ Len(r) = Len(s) - 1
         /\ \A i \in 1 .. Len(r) : r[i] = s[i + 1]
PROOF
  <1> DEFINE n == Len(s)
  <1>1. n \in Nat /\ n >= 1 /\ \A i \in 2 .. n : s[i] \in S
    BY EmptySeq, ElementOfSeq
  <1>2. 2 \in Int /\ n \in Int
    BY <1>1
  <1>3. /\ SubSeq(s, 2, n) \in Seq(S)
        /\ Len(SubSeq(s, 2, n)) = IF 2 <= n THEN n - 2 + 1 ELSE 0
        /\ \A i \in 1 .. n - 2 + 1 : SubSeq(s, 2, n)[i] = s[2 + i - 1]
    <2> HIDE DEF n
    <2> QED BY <1>1, <1>2, SubSeqProperties
  <1>4. \A i \in 1 .. n - 1 : SubSeq(s, 2, n)[i] = s[i + 1]
    <2> SUFFICES ASSUME NEW i \in 1 .. n - 1 PROVE SubSeq(s, 2, n)[i] = s[i + 1]
      OBVIOUS
    <2>1. i \in 1 .. n - 2 + 1 /\ 2 + i - 1 = i + 1
      BY <1>1
    <2> QED BY <1>3, <2>1
  <1>5. Len(SubSeq(s, 2, n)) = n - 1
    <2> HIDE DEF n
    <2> QED BY <1>1, <1>3
  <1>6. \A i \in 1 .. Len(SubSeq(s, 2, n)) : SubSeq(s, 2, n)[i] = s[i + 1]
    BY <1>4, <1>5
  <1> QED
    BY <1>1, <1>3, <1>5, <1>6

-----------------------------------------------------------------------------
(* A successful store finds the word as the call knows it, and from then   *)
(* on no call that has loaded the word is fresh.                           *)
LEMMA CommitFacts ==
  ASSUME TypeOK, CallKnows, NEW t \in Threads, NEW d \in Pointers, Commit(t, d)
  PROVE  /\ Fresh(t) /\ cache[t].data = word.data
         /\ word'.data = d
         /\ AbaTypeOK(Pointers)'
         /\ unread'[t] = Halves
         /\ \A u \in Threads \ {t} : cache'[u] = cache[u] /\ unread'[u] = unread[u]
         /\ \A u \in Threads : unread'[u] = {} => ~Fresh(u)'
         /\ ~Dwcas => monitor' = {}
PROOF
  <1> DEFINE Words == [data : Pointers, counter : 0 .. CounterMod - 1]
  <1>1. word \in Words /\ cache \in [Threads -> Words]
        /\ unread \in [Threads -> SUBSET Halves] /\ monitor \in SUBSET Threads
    BY DEF TypeOK, AbaTypeOK
  <1>2. NoCache \in Words
    BY PlatformAssumption DEF NoCache, Pointers
  <1>3. cache' \in [Threads -> Words] /\ unread' \in [Threads -> SUBSET Halves]
        /\ unread'[t] = Halves
        /\ \A u \in Threads \ {t} : cache'[u] = cache[u] /\ unread'[u] = unread[u]
    BY <1>1, <1>2 DEF Commit, Leave
  <1>4. Halves # {}
    BY DEF Halves
  <1>5. CASE Dwcas
    <2>1. word = cache[t] /\ NotLapped /\ UNCHANGED monitor
          /\ word' = [data |-> d, counter |-> Increment(cache[t].counter)]
      BY <1>5 DEF Commit, DwCas, ExclusiveStore
    <2>2. Increment(word.counter) \in 0 .. CounterMod - 1
      BY <1>1, PlatformAssumption DEF Increment
    <2>3. word' \in Words /\ word'.data = d /\ word'.counter = Increment(word.counter)
      BY <2>1, <2>2
    <2>4. ASSUME NEW u \in Threads, unread'[u] = {} PROVE cache'[u] # word'
      <3>1. u # t /\ cache'[u] = cache[u] /\ unread[u] = {}
        BY <2>4, <1>3, <1>4
      <3>2. cache[u].counter # Increment(word.counter)
        BY <2>1, <3>1 DEF NotLapped
      <3> QED BY <3>1, <3>2, <2>3
    <2> QED
      BY <1>5, <1>1, <1>3, <2>1, <2>3, <2>4 DEF Fresh, AbaTypeOK
  <1>6. CASE ~Dwcas
    <2>1. t \in monitor /\ word' = [word EXCEPT !.data = d] /\ monitor' = {}
      BY <1>6 DEF Commit, DwCas, ExclusiveStore
    <2>2. word' \in Words /\ word'.data = d
      BY <2>1, <1>1
    <2>3. cache[t].data = word.data
      BY <1>6, <2>1 DEF CallKnows
    <2> QED
      BY <1>6, <1>1, <1>3, <2>1, <2>2, <2>3 DEF Fresh, AbaTypeOK
  <1> QED BY <1>5, <1>6

(* The other steps of the wrapper concern one thread, and leave the word.  *)
LEMMA LocalFacts ==
  ASSUME TypeOK, NEW t \in Threads, Load(t) \/ Retry(t) \/ Abort(t)
  PROVE  /\ word' = word
         /\ AbaTypeOK(Pointers)'
         /\ \A u \in Threads \ {t} :
              /\ cache'[u] = cache[u] /\ unread'[u] = unread[u]
              /\ u \in monitor' <=> u \in monitor
PROOF
  <1> DEFINE Words == [data : Pointers, counter : 0 .. CounterMod - 1]
  <1>1. word \in Words /\ cache \in [Threads -> Words]
        /\ unread \in [Threads -> SUBSET Halves] /\ monitor \in SUBSET Threads
    BY DEF TypeOK, AbaTypeOK
  <1>2. NoCache \in Words
    BY PlatformAssumption DEF NoCache, Pointers
  <1>3. word' = word
    BY DEF Load, LoadData, LoadCounter, Retry, DwCasFails, ExclusiveStoreFails,
           SpuriousFailure, Abort
  <1>4. CASE LoadData(t)
    BY <1>1, <1>3, <1>4 DEF LoadData, AbaTypeOK
  <1>5. CASE LoadCounter(t)
    BY <1>1, <1>3, <1>5 DEF LoadCounter, AbaTypeOK
  <1>6. CASE DwCasFails(t)
    BY <1>1, <1>3, <1>6 DEF DwCasFails, AbaTypeOK
  <1>7. CASE ExclusiveStoreFails(t) \/ SpuriousFailure(t) \/ Abort(t)
    BY <1>1, <1>2, <1>3, <1>7 DEF ExclusiveStoreFails, SpuriousFailure, Abort,
       Leave, AbaTypeOK
  <1> QED BY <1>4, <1>5, <1>6, <1>7 DEF Load, Retry

-----------------------------------------------------------------------------
(* An empty stack, every block with its owner.                             *)
LEMMA InitEstablishesInv == Init => Inv
PROOF
  <1> SUFFICES ASSUME Init PROVE Inv
    OBVIOUS
  <1>1. PICK owner \in [Blocks -> Threads] :
          holds = [t \in Threads |-> {b \in Blocks : owner[b] = t}]
    BY DEF Init
  <1>2. items = << >> /\ Len(items) = 0 /\ items \in Seq(Blocks)
    BY EmptySeq DEF Init
  <1>3. AbaTypeOK(Pointers)
    BY PlatformAssumption DEF Init, Construct, AbaTypeOK, NoCache, Pointers
  <1>4. TypeOK
    BY <1>1, <1>2, <1>3 DEF Init, TypeOK, Contents, Pointers
  <1>5. ChainIntact
    BY <1>2 DEF Init, Construct, ChainIntact
  <1>6. OnePlace
    BY <1>1, <1>2 DEF OnePlace
  <1>7. CallKnows
    BY DEF Init, Construct, CallKnows
  <1> QED BY <1>4, <1>5, <1>6, <1>7 DEF Inv

(* The facts about one thread, so that a step can treat its own thread and *)
(* the others apart.                                                       *)
Knows(t) ==
  /\ pc[t] = "idle" => unread[t] = Halves
  /\ pc[t] \in {"push", "push_store"} => desired[t] \in holds[t]
  /\ pc[t] \in {"push_store", "pop_store"} => unread[t] = {}
  /\ pc[t] = "push_store" => next[desired[t]] = cache[t].data
  /\ pc[t] = "pop_store" => cache[t].data # Null
  /\ pc[t] = "pop_store" /\ Fresh(t) => desired[t] = next[cache[t].data]
  /\ ~Dwcas /\ t \in monitor => "data" \notin unread[t] /\ cache[t].data = word.data

LEMMA KnowsAll == CallKnows <=> \A t \in Threads : Knows(t)
  BY DEF CallKnows, Knows

(* While the word has a top, the top is on the stack, hence nobody's.      *)
LEMMA TopIsNobodys ==
  ASSUME Inv, word.data # Null
  PROVE  \A t \in Threads : word.data \notin holds[t]
PROOF
  <1>1. items # << >> /\ word.data = items[1]
    BY DEF Inv, ChainIntact
  <1>2. 1 \in 1 .. Len(items)
    BY <1>1, EmptySeq DEF Inv, TypeOK
  <1> QED BY <1>1, <1>2 DEF Inv, OnePlace

(* An owner may write into its block: the chain does not notice, nor does  *)
(* any other call that is still fresh.                                     *)
LEMMA OwnerWrites ==
  ASSUME Inv, NEW t \in Threads, NEW b \in holds[t], NEW v \in Contents,
         next' = [next EXCEPT ![b] = v],
         UNCHANGED << abaVars, desired, holds, items >>,
         \A u \in Threads \ {t} : pc'[u] = pc[u]
  PROVE  /\ next' \in [Blocks -> Contents]
         /\ ChainIntact' /\ OnePlace'
         /\ \A u \in Threads \ {t} : Knows(u)'
PROOF
  <1>1. b \in Blocks /\ next \in [Blocks -> Contents] /\ items \in Seq(Blocks)
    BY DEF Inv, TypeOK
  <1>2. \A i \in 1 .. Len(items) : items[i] \in Blocks /\ items[i] # b
    BY <1>1, ElementOfSeq DEF Inv, OnePlace
  <1>3. \A i \in 1 .. Len(items) : next'[items[i]] = next[items[i]]
    BY <1>1, <1>2
  <1>4. ChainIntact' /\ OnePlace'
    BY <1>3 DEF Inv, ChainIntact, OnePlace, abaVars
  <1>5. ASSUME NEW u \in Threads \ {t} PROVE Knows(u)'
    <2>1. Knows(u)
      BY KnowsAll DEF Inv
    <2>2. b \notin holds[u]
      BY DEF Inv, OnePlace
    <2>3. pc[u] = "push_store" => next'[desired[u]] = next[desired[u]]
      BY <1>1, <2>1, <2>2 DEF Knows, Inv, TypeOK
    <2>4. pc[u] = "pop_store" /\ Fresh(u) =>
            next'[cache[u].data] = next[cache[u].data]
      <3> SUFFICES ASSUME pc[u] = "pop_store", Fresh(u)
                   PROVE  next'[cache[u].data] = next[cache[u].data]
        OBVIOUS
      <3>1. cache[u].data = word.data /\ word.data # Null
        BY <2>1 DEF Knows, Fresh
      <3>2. word.data # b /\ word.data \in Blocks
        BY <3>1, TopIsNobodys DEF Inv, TypeOK, AbaTypeOK, Pointers
      <3> QED BY <1>1, <3>1, <3>2
    <2>5. Fresh(u)' <=> Fresh(u)
      BY DEF Fresh, abaVars
    <2> QED
      BY <2>1, <2>3, <2>4, <2>5 DEF Knows, abaVars
  <1> QED BY <1>1, <1>4, <1>5

(* A step of t on its own copies of the word leaves the others' knowledge. *)
LEMMA LocalKeepsOthers ==
  ASSUME Inv, NEW t \in Threads, Load(t) \/ Retry(t) \/ Abort(t),
         UNCHANGED << next, holds, items >>,
         \A u \in Threads \ {t} : pc'[u] = pc[u] /\ desired'[u] = desired[u]
  PROVE  /\ ChainIntact' /\ OnePlace'
         /\ \A u \in Threads \ {t} : Knows(u)'
PROOF
  <1>1. word' = word
        /\ \A u \in Threads \ {t} :
              /\ cache'[u] = cache[u] /\ unread'[u] = unread[u]
              /\ u \in monitor' <=> u \in monitor
    BY LocalFacts DEF Inv
  <1>2. ChainIntact' /\ OnePlace'
    BY <1>1 DEF Inv, ChainIntact, OnePlace
  <1>3. ASSUME NEW u \in Threads \ {t} PROVE Knows(u)'
    <2>1. Knows(u)
      BY KnowsAll DEF Inv
    <2>2. Fresh(u)' <=> Fresh(u)
      BY <1>1 DEF Fresh
    <2> QED BY <1>1, <2>1, <2>2 DEF Knows
  <1> QED BY <1>2, <1>3

(* A commit of t leaves what the others know, or makes them stale.         *)
LEMMA CommitKeepsOthers ==
  ASSUME Inv, NEW t \in Threads, NEW d \in Pointers, Commit(t, d),
         next' = next,
         \A u \in Threads \ {t} :
           pc'[u] = pc[u] /\ desired'[u] = desired[u] /\ holds'[u] = holds[u]
  PROVE  \A u \in Threads \ {t} : Knows(u)'
PROOF
  <1>1. /\ \A u \in Threads \ {t} : cache'[u] = cache[u] /\ unread'[u] = unread[u]
        /\ \A u \in Threads : unread'[u] = {} => ~Fresh(u)'
        /\ ~Dwcas => monitor' = {}
    BY CommitFacts DEF Inv
  <1> SUFFICES ASSUME NEW u \in Threads \ {t} PROVE Knows(u)'
    OBVIOUS
  <1>2. Knows(u)
    BY KnowsAll DEF Inv
  <1> QED BY <1>1, <1>2 DEF Knows

(* From the thread that steps and the others to the whole invariant.       *)
LEMMA Together ==
  ASSUME TypeOK', ChainIntact', OnePlace', NEW t \in Threads, Knows(t)',
         \A u \in Threads \ {t} : Knows(u)'
  PROVE  Inv'
PROOF
  <1>1. CallKnows'
    BY DEF CallKnows, Knows
  <1> QED BY <1>1 DEF Inv

-----------------------------------------------------------------------------
(* One lemma for each kind of step.                                        *)
LEMMA CallKeepsInv ==
  ASSUME Inv, NEW t \in Threads, CallPop(t) \/ \E b \in Blocks : CallPush(t, b)
  PROVE  Inv'
PROOF
  <1>1. TypeOK'
    BY DEF Inv, TypeOK, AbaTypeOK, CallPop, CallPush, Contents, Pointers, abaVars
  <1>2. ChainIntact' /\ OnePlace'
    BY DEF Inv, ChainIntact, OnePlace, CallPop, CallPush, abaVars
  <1>3. ASSUME NEW u \in Threads PROVE Knows(u)'
    <2>1. Knows(u)
      BY KnowsAll DEF Inv
    <2>2. Fresh(u)' <=> Fresh(u)
      BY DEF Fresh, CallPop, CallPush, abaVars
    <2> QED
      BY <2>1, <2>2 DEF Knows, Inv, TypeOK, CallPop, CallPush, abaVars
  <1> QED BY <1>1, <1>2, <1>3, Together

LEMMA LinkKeepsInv ==
  ASSUME Inv, NEW t \in Threads, Link(t)
  PROVE  Inv'
PROOF
  <1>1. Knows(t)
    BY KnowsAll DEF Inv
  <1>2. desired[t] \in holds[t] /\ cache[t].data \in Contents
        /\ desired[t] \in Blocks /\ unread[t] = {}
    BY <1>1 DEF Link, Loaded, Knows, Inv, TypeOK, AbaTypeOK, Contents
  <1>3. \A u \in Threads \ {t} : pc'[u] = pc[u]
    BY DEF Link, Inv, TypeOK
  <1>4. /\ next' \in [Blocks -> Contents]
        /\ ChainIntact' /\ OnePlace'
        /\ \A u \in Threads \ {t} : Knows(u)'
    BY <1>2, <1>3, OwnerWrites DEF Link
  <1>5. TypeOK'
    BY <1>4 DEF Link, Inv, TypeOK, AbaTypeOK, abaVars
  <1>6. Knows(t)'
    <2>1. pc'[t] = "push_store" /\ next'[desired[t]] = cache[t].data
      BY <1>2 DEF Link, Inv, TypeOK
    <2> QED BY <1>1, <1>2, <2>1 DEF Knows, Fresh, Link, abaVars
  <1> QED BY <1>4, <1>5, <1>6, Together

LEMMA UseBlockKeepsInv ==
  ASSUME Inv, NEW t \in Threads, NEW b \in Blocks, NEW content \in Writes,
         UseBlock(t, b, content)
  PROVE  Inv'
PROOF
  <1>0. content \in Contents
    BY PointerAssumption DEF Contents, Pointers
  <1>1. /\ next' \in [Blocks -> Contents]
        /\ ChainIntact' /\ OnePlace'
        /\ \A u \in Threads \ {t} : Knows(u)'
    BY <1>0, OwnerWrites DEF UseBlock
  <1>2. TypeOK'
    BY <1>1 DEF UseBlock, Inv, TypeOK, AbaTypeOK, abaVars
  <1>3. Knows(t)
    BY KnowsAll DEF Inv
  <1>4. Knows(t)'
    BY <1>3 DEF Knows, Fresh, UseBlock, abaVars
  <1> QED BY <1>1, <1>2, <1>4, Together

(* A block changes hands between calls: it is in one place still, and no   *)
(* call was about to push it.                                              *)
LEMMA HandOverKeepsInv ==
  ASSUME Inv, NEW t \in Threads, NEW b \in Blocks, NEW receiver \in Threads,
         HandOver(t, b, receiver)
  PROVE  Inv'
PROOF
  <1>1. /\ \A u \in Threads : holds'[u] = IF u = receiver THEN holds[u] \cup {b}
                                                           ELSE holds[u] \ {b}
        /\ holds' \in [Threads -> SUBSET Blocks]
        /\ UNCHANGED << abaVars, pc, desired, next, items >>
        /\ b \in holds[t] /\ pc[t] = "idle"
    BY DEF HandOver, Inv, TypeOK
  <1>2. TypeOK' /\ ChainIntact'
    BY <1>1 DEF Inv, TypeOK, AbaTypeOK, ChainIntact, abaVars
  <1>3. OnePlace'
    BY <1>1 DEF Inv, OnePlace
  <1>4. ASSUME NEW u \in Threads PROVE Knows(u)'
    <2>1. Knows(u)
      BY KnowsAll DEF Inv
    <2>2. pc[u] \in {"push", "push_store"} => desired[u] \in holds'[u]
      BY <1>1, <2>1 DEF Knows, Inv, OnePlace
    <2>3. Fresh(u)' <=> Fresh(u)
      BY <1>1 DEF Fresh, abaVars
    <2> QED BY <1>1, <2>1, <2>2, <2>3 DEF Knows, abaVars
  <1> QED BY <1>2, <1>3, <1>4, Together

LEMMA ReadLinkKeepsInv ==
  ASSUME Inv, NEW t \in Threads, ReadLink(t)
  PROVE  Inv'
PROOF
  <1>1. TypeOK'
    BY DEF ReadLink, Inv, TypeOK, AbaTypeOK, Pointers, abaVars
  <1>2. ChainIntact' /\ OnePlace'
    BY DEF ReadLink, Inv, ChainIntact, OnePlace, abaVars
  <1>3. ASSUME NEW u \in Threads PROVE Knows(u)'
    <2>1. Knows(u)
      BY KnowsAll DEF Inv
    <2>2. Fresh(u)' <=> Fresh(u)
      BY DEF Fresh, ReadLink, abaVars
    <2> QED
      BY <2>1, <2>2 DEF Knows, Inv, TypeOK, ReadLink, Loaded, abaVars
  <1> QED BY <1>1, <1>2, <1>3, Together

LEMMA LoadKeepsInv ==
  ASSUME Inv, NEW t \in Threads, LoadWord(t)
  PROVE  Inv'
PROOF
  <1>1. TypeOK'
    BY LocalFacts DEF LoadWord, stackVars, Inv, TypeOK
  <1>2. /\ ChainIntact' /\ OnePlace'
        /\ \A u \in Threads \ {t} : Knows(u)'
    BY LocalKeepsOthers DEF LoadWord, stackVars
  <1>3. Knows(t)
    BY KnowsAll DEF Inv
  <1>4. Knows(t)'
    BY <1>3 DEF Knows, Inv, TypeOK, AbaTypeOK, LoadWord, stackVars, Load,
                LoadData, LoadCounter, Halves
  <1> QED BY <1>1, <1>2, <1>4, Together

LEMMA RetryKeepsInv ==
  ASSUME Inv, NEW t \in Threads, RetryPush(t) \/ RetryPop(t)
  PROVE  Inv'
PROOF
  <1>1. TypeOK'
    BY LocalFacts DEF RetryPush, RetryPop, Inv, TypeOK, Contents, Pointers
  <1>2. /\ ChainIntact' /\ OnePlace'
        /\ \A u \in Threads \ {t} : Knows(u)'
    BY LocalKeepsOthers DEF RetryPush, RetryPop, Inv, TypeOK
  <1>3. Knows(t)
    BY KnowsAll DEF Inv
  <1>4. ~Dwcas => t \notin monitor'
    BY DEF RetryPush, RetryPop, Retry, DwCasFails, ExclusiveStoreFails, SpuriousFailure
  <1>5. pc'[t] \in {"push", "pop"}
        /\ (pc'[t] = "push" => pc[t] = "push_store" /\ desired' = desired)
    BY DEF RetryPush, RetryPop, Inv, TypeOK
  <1>6. holds' = holds
    BY DEF RetryPush, RetryPop
  <1>7. Knows(t)'
    BY <1>3, <1>4, <1>5, <1>6 DEF Knows
  <1> QED BY <1>1, <1>2, <1>7, Together

LEMMA ReturnNullKeepsInv ==
  ASSUME Inv, NEW t \in Threads, ReturnNull(t)
  PROVE  Inv'
PROOF
  <1>1. TypeOK'
    BY LocalFacts DEF ReturnNull, Inv, TypeOK
  <1>2. /\ ChainIntact' /\ OnePlace'
        /\ \A u \in Threads \ {t} : Knows(u)'
    BY LocalKeepsOthers DEF ReturnNull, Inv, TypeOK
  <1>3. pc'[t] = "idle" /\ unread'[t] = Halves /\ t \notin monitor'
    BY DEF ReturnNull, Abort, Leave, Inv, TypeOK, AbaTypeOK
  <1>4. Knows(t)'
    BY <1>3 DEF Knows
  <1> QED BY <1>1, <1>2, <1>4, Together

LEMMA PushCommitKeepsInv ==
  ASSUME Inv, NEW t \in Threads, PushCommit(t)
  PROVE  Inv'
PROOF
  <1> DEFINE b == desired[t]
  <1>1. Knows(t)
    BY KnowsAll DEF Inv
  <1>2. b \in holds[t] /\ b \in Blocks /\ b \in Pointers
        /\ next[b] = cache[t].data
    BY <1>1 DEF Knows, PushCommit, Inv, TypeOK, Pointers
  <1>3. /\ cache[t].data = word.data
        /\ word'.data = b
        /\ AbaTypeOK(Pointers)'
        /\ unread'[t] = Halves
        /\ ~Dwcas => monitor' = {}
    BY <1>2, CommitFacts DEF PushCommit, Inv
  <1>4. \A u \in Threads \ {t} : Knows(u)'
    BY <1>2, CommitKeepsOthers DEF PushCommit, Inv, TypeOK
  <1>5. /\ items \in Seq(Blocks) /\ items' \in Seq(Blocks)
        /\ Len(items) \in Nat
        /\ Len(items') = Len(items) + 1
        /\ items'[1] = b
        /\ \A i \in 2 .. Len(items') : items'[i] = items[i - 1]
    BY <1>2, Prepended, LenProperties DEF PushCommit, Inv, TypeOK
  <1>6. TypeOK'
    BY <1>3, <1>5 DEF PushCommit, Inv, TypeOK, Contents, Pointers
  <1>7. next' = next /\ holds' = [holds EXCEPT ![t] = @ \ {b}]
    BY DEF PushCommit
  <1>8. ChainIntact'
    <2>1. items' # << >>
      BY <1>5, EmptySeq
    <2>2. ASSUME NEW i \in 1 .. Len(items')
          PROVE  next'[items'[i]] = IF i = Len(items') THEN Null ELSE items'[i + 1]
      <3>1. CASE i = 1
        <4>1. items = << >> <=> Len(items) = 0
          BY <1>5, EmptySeq
        <4> QED BY <3>1, <4>1, <1>2, <1>3, <1>5, <1>7 DEF Inv, ChainIntact
      <3>2. CASE i # 1
        <4>1. i - 1 \in 1 .. Len(items) /\ items'[i] = items[i - 1]
              /\ (i # Len(items') => items'[i + 1] = items[i])
          BY <3>2, <1>5
        <4>2. next[items[i - 1]] = IF i - 1 = Len(items) THEN Null ELSE items[i - 1 + 1]
          BY <4>1 DEF Inv, ChainIntact
        <4> QED BY <4>1, <4>2, <1>5, <1>7
      <3> QED BY <3>1, <3>2
    <2> QED BY <2>1, <2>2, <1>3, <1>5 DEF ChainIntact
  <1>9. OnePlace'
    <2>1. \A i \in 1 .. Len(items) : items[i] # b /\ items[i] \notin holds[t]
      BY <1>2 DEF Inv, OnePlace
    <2>2. ASSUME NEW i \in 1 .. Len(items')
          PROVE  (items'[i] = b /\ i = 1) \/
                 (i - 1 \in 1 .. Len(items) /\ items'[i] = items[i - 1])
      BY <1>5
    <2>3. \A i, j \in 1 .. Len(items') : items'[i] = items'[j] => i = j
      <3> SUFFICES ASSUME NEW i \in 1 .. Len(items'), NEW j \in 1 .. Len(items'),
                          items'[i] = items'[j]
                   PROVE  i = j
        OBVIOUS
      <3>1. CASE i = 1 \/ j = 1
        BY <3>1, <2>1, <2>2
      <3>2. CASE i # 1 /\ j # 1
        <4>1. i - 1 = j - 1
          BY <3>2, <2>2 DEF Inv, OnePlace
        <4> QED BY <4>1
      <3> QED BY <3>1, <3>2
    <2>4. \A u \in Threads : holds'[u] = IF u = t THEN holds[t] \ {b} ELSE holds[u]
      BY <1>7 DEF Inv, TypeOK
    <2>5. \A i \in 1 .. Len(items'), u \in Threads : items'[i] \notin holds'[u]
      <3> SUFFICES ASSUME NEW i \in 1 .. Len(items'), NEW u \in Threads
                   PROVE  items'[i] \notin holds'[u]
        OBVIOUS
      <3>1. CASE items'[i] = b
        BY <3>1, <2>4, <1>2 DEF Inv, OnePlace
      <3>2. CASE items'[i] # b
        BY <3>2, <2>2, <2>4 DEF Inv, OnePlace
      <3> QED BY <3>1, <3>2
    <2>6. \A t1, u1 \in Threads : \A c \in holds'[t1] : c \in holds'[u1] => t1 = u1
      BY <2>4 DEF Inv, OnePlace
    <2>7. ASSUME NEW c \in Blocks
          PROVE  \/ \E i \in 1 .. Len(items') : items'[i] = c
                 \/ \E u \in Threads : c \in holds'[u]
      <3>1. CASE c = b
        BY <3>1, <1>5
      <3>2. CASE \E i \in 1 .. Len(items) : items[i] = c
        <4>1. PICK i \in 1 .. Len(items) : items[i] = c
          BY <3>2
        <4>2. i + 1 \in 1 .. Len(items') /\ items'[i + 1] = c
          BY <4>1, <1>5
        <4> QED BY <4>2
      <3>3. CASE c # b /\ \E u \in Threads : c \in holds[u]
        BY <3>3, <2>4
      <3> QED BY <3>1, <3>2, <3>3 DEF Inv, OnePlace
    <2> QED BY <2>3, <2>5, <2>6, <2>7 DEF OnePlace
  <1>10. pc'[t] = "idle"
    BY DEF PushCommit, Inv, TypeOK
  <1>11. Knows(t)'
    BY <1>3, <1>10 DEF Knows
  <1> QED BY <1>4, <1>6, <1>8, <1>9, <1>11, Together

LEMMA PopCommitKeepsInv ==
  ASSUME Inv, NEW t \in Threads, PopCommit(t)
  PROVE  Inv' /\ desired[t] = next[word.data]
PROOF
  <1> DEFINE b == cache[t].data
  <1>1. Knows(t)
    BY KnowsAll DEF Inv
  <1>2. Fresh(t) /\ b = word.data /\ b # Null
    <2>1. Fresh(t)
      BY DEF PopCommit, Commit, DwCas, ExclusiveStore, Fresh
    <2> QED BY <2>1, <1>1 DEF PopCommit, Knows, Fresh
  <1>3. desired[t] = next[b] /\ b \in Blocks
    BY <1>1, <1>2 DEF PopCommit, Knows, Inv, TypeOK, AbaTypeOK, Pointers
  <1>4. items # << >> /\ b = items[1]
    BY <1>2 DEF Inv, ChainIntact
  <1>5. /\ items \in Seq(Blocks) /\ items' \in Seq(Blocks)
        /\ Len(items) \in Nat /\ Len(items) >= 1
        /\ Len(items') = Len(items) - 1
        /\ \A i \in 1 .. Len(items') : items'[i] = items[i + 1]
    BY <1>4, Dropped, LenProperties DEF PopCommit, Inv, TypeOK
  <1>6. desired[t] = IF Len(items) = 1 THEN Null ELSE items[2]
    BY <1>3, <1>4, <1>5 DEF Inv, ChainIntact
  <1>7. desired[t] \in Pointers
    <2>1. Len(items) # 1 => items[2] \in Blocks
      BY <1>5, ElementOfSeq
    <2> QED BY <1>6, <2>1 DEF Pointers
  <1>8. /\ word'.data = desired[t]
        /\ AbaTypeOK(Pointers)'
        /\ unread'[t] = Halves
        /\ ~Dwcas => monitor' = {}
    BY <1>7, CommitFacts DEF PopCommit, Inv
  <1>9. \A u \in Threads \ {t} : Knows(u)'
    BY <1>7, CommitKeepsOthers DEF PopCommit, Inv, TypeOK
  <1>10. next' = next /\ holds' = [holds EXCEPT ![t] = @ \cup {b}]
    BY DEF PopCommit
  <1>11. TypeOK'
    BY <1>3, <1>5, <1>8, <1>10 DEF PopCommit, Inv, TypeOK, Contents, Pointers
  <1>12. ChainIntact'
    <2>1. items' = << >> <=> Len(items) = 1
      BY <1>5, EmptySeq
    <2>2. word'.data = IF items' = << >> THEN Null ELSE items'[1]
      BY <2>1, <1>5, <1>6, <1>8
    <2>3. ASSUME NEW i \in 1 .. Len(items')
          PROVE  next'[items'[i]] = IF i = Len(items') THEN Null ELSE items'[i + 1]
      <3>1. i + 1 \in 1 .. Len(items) /\ items'[i] = items[i + 1]
            /\ (i # Len(items') => items'[i + 1] = items[i + 1 + 1])
        BY <1>5
      <3>2. next[items[i + 1]] =
              IF i + 1 = Len(items) THEN Null ELSE items[i + 1 + 1]
        BY <3>1 DEF Inv, ChainIntact
      <3> QED BY <3>1, <3>2, <1>5, <1>10
    <2> QED BY <2>2, <2>3 DEF ChainIntact
  <1>13. OnePlace'
    <2>1. \A i \in 1 .. Len(items') :
            i + 1 \in 1 .. Len(items) /\ items'[i] = items[i + 1] /\ items'[i] # b
      <3>1. ASSUME NEW i \in 1 .. Len(items')
            PROVE  i + 1 \in 1 .. Len(items) /\ items'[i] = items[i + 1] /\ i + 1 # 1
        BY <1>5
      <3>2. 1 \in 1 .. Len(items)
        BY <1>5
      <3> QED BY <3>1, <3>2, <1>4 DEF Inv, OnePlace
    <2>2. \A i, j \in 1 .. Len(items') : items'[i] = items'[j] => i = j
      <3> SUFFICES ASSUME NEW i \in 1 .. Len(items'), NEW j \in 1 .. Len(items'),
                          items'[i] = items'[j]
                   PROVE  i = j
        OBVIOUS
      <3>1. i + 1 = j + 1
        BY <2>1 DEF Inv, OnePlace
      <3> QED BY <3>1
    <2>3. \A u \in Threads : holds'[u] = IF u = t THEN holds[t] \cup {b} ELSE holds[u]
      BY <1>10 DEF Inv, TypeOK
    <2>4. \A u \in Threads : b \notin holds[u]
      BY <1>2, TopIsNobodys
    <2>5. \A i \in 1 .. Len(items'), u \in Threads : items'[i] \notin holds'[u]
      BY <2>1, <2>3 DEF Inv, OnePlace
    <2>6. \A t1, u1 \in Threads : \A c \in holds'[t1] : c \in holds'[u1] => t1 = u1
      BY <2>3, <2>4 DEF Inv, OnePlace
    <2>7. ASSUME NEW c \in Blocks
          PROVE  \/ \E i \in 1 .. Len(items') : items'[i] = c
                 \/ \E u \in Threads : c \in holds'[u]
      <3>1. CASE c = b
        BY <3>1, <2>3
      <3>2. CASE c # b /\ \E i \in 1 .. Len(items) : items[i] = c
        <4>1. PICK i \in 1 .. Len(items) : items[i] = c
          BY <3>2
        <4>2. i # 1 /\ i - 1 \in 1 .. Len(items')
          BY <4>1, <3>2, <1>4, <1>5
        <4>3. items'[i - 1] = c
          BY <4>1, <4>2, <1>5
        <4> QED BY <4>2, <4>3
      <3>3. CASE \E u \in Threads : c \in holds[u]
        BY <3>3, <2>3
      <3> QED BY <3>1, <3>2, <3>3 DEF Inv, OnePlace
    <2> QED BY <2>2, <2>5, <2>6, <2>7 DEF OnePlace
  <1>14. pc'[t] = "idle"
    BY DEF PopCommit, Inv, TypeOK
  <1>15. Knows(t)'
    BY <1>8, <1>14 DEF Knows
  <1> QED BY <1>2, <1>3, <1>9, <1>11, <1>12, <1>13, <1>15, Together

-----------------------------------------------------------------------------
LEMMA NextPreservesInv == Inv /\ [Next]_vars => Inv'
PROOF
  <1> SUFFICES ASSUME Inv, [Next]_vars PROVE Inv'
    OBVIOUS
  <1>1. CASE UNCHANGED vars
    <2>1. TypeOK' /\ ChainIntact' /\ OnePlace'
      BY <1>1 DEF Inv, TypeOK, AbaTypeOK, ChainIntact, OnePlace, vars, abaVars, stackVars
    <2>2. CallKnows'
      BY <1>1 DEF Inv, CallKnows, Fresh, vars, abaVars, stackVars
    <2> QED BY <2>1, <2>2 DEF Inv
  <1>2. ASSUME NEW t \in Threads, Step(t) PROVE Inv'
    BY <1>2, LoadKeepsInv, LinkKeepsInv, PushCommitKeepsInv, ReadLinkKeepsInv,
       ReturnNullKeepsInv, PopCommitKeepsInv, RetryKeepsInv DEF Step
  <1>3. ASSUME NEW t \in Threads, Use(t) PROVE Inv'
    BY <1>3, CallKeepsInv, UseBlockKeepsInv, HandOverKeepsInv DEF Use, Own
  <1> QED BY <1>1, <1>2, <1>3 DEF Next

LEMMA Invariance == Spec => []Inv
  BY InitEstablishesInv, NextPreservesInv, PTL DEF Spec

(* The variables keep their types; in particular the shared word never     *)
(* points into what an owner wrote into a block.                           *)
THEOREM TypeCorrect == Spec => []TypeOK
  BY Invariance, PTL DEF Inv

(* The memory always holds the stack.                                      *)
THEOREM ChainAlwaysIntact == Spec => []ChainIntact
  BY Invariance, PTL DEF Inv

LEMMA OnePlaceConserves == Inv => BlocksConserved
PROOF
  <1> SUFFICES ASSUME Inv, NEW b \in Blocks
               PROVE  LET places == {i \in 1 .. Len(items) : items[i] = b}
                          owners == {t \in Threads : b \in holds[t]}
                      IN \/ owners = {} /\ \E i \in places : places = {i}
                         \/ places = {} /\ \E t \in owners : owners = {t}
    BY DEF BlocksConserved
  <1>1. CASE \E i \in 1 .. Len(items) : items[i] = b
    BY <1>1 DEF Inv, OnePlace
  <1>2. CASE \E t \in Threads : b \in holds[t]
    BY <1>2 DEF Inv, OnePlace
  <1> QED BY <1>1, <1>2 DEF Inv, OnePlace

(* No block is lost, or in two places, in any execution.                   *)
THEOREM BlocksAlwaysConserved == Spec => []BlocksConserved
  BY Invariance, OnePlaceConserves, PTL

(* The ABA theorem: no store succeeds on a link that is out of date.       *)
THEOREM NoCommitIsStale == Spec => NoStaleCommit
PROOF
  <1>1. ASSUME Inv, [Next]_vars, NEW t \in Threads
        PROVE  /\ PopCommit(t) => desired[t] = next[word.data]
               /\ PushCommit(t) => next[desired[t]] = word.data
    <2>1. PopCommit(t) => desired[t] = next[word.data]
      BY <1>1, PopCommitKeepsInv
    <2>2. ASSUME PushCommit(t) PROVE next[desired[t]] = word.data
      <3>1. Knows(t)
        BY <1>1, KnowsAll DEF Inv
      <3>2. desired[t] \in Pointers /\ next[desired[t]] = cache[t].data
        BY <3>1, <2>2, <1>1 DEF PushCommit, Knows, Inv, TypeOK, Pointers
      <3> QED BY <3>2, <2>2, <1>1, CommitFacts DEF PushCommit, Inv
    <2> QED BY <2>1, <2>2
  <1>2. Inv /\ [Next]_vars =>
          [\A t \in Threads :
             /\ PopCommit(t) => desired[t] = next[word.data]
             /\ PushCommit(t) => next[desired[t]] = word.data]_vars
    BY <1>1
  <1> QED
    BY <1>2, Invariance, PTL DEF Spec, NoStaleCommit

-----------------------------------------------------------------------------
(* The abstract calls, thread by thread.                                   *)
call == [t \in Threads |-> CallOf(t)]

(* A step that changes the abstract call of one thread, or of none.        *)
LEMMA CallChanges ==
  ASSUME NEW t \in Threads,
         \A u \in Threads \ {t} : /\ pc'[u] = pc[u] /\ desired'[u] = desired[u]
                                  /\ unread'[u] = unread[u] /\ cache'[u] = cache[u]
  PROVE  /\ call' = [call EXCEPT ![t] = CallOf(t)']
         /\ CallOf(t)' = CallOf(t) => call' = call
PROOF
  <1>1. \A u \in Threads \ {t} : CallOf(u)' = CallOf(u)
    BY DEF CallOf
  <1> QED BY <1>1 DEF call

LEMMA EmptyIffNull == Inv => (word.data = Null <=> items = << >>)
PROOF
  <1> SUFFICES ASSUME Inv PROVE word.data = Null <=> items = << >>
    OBVIOUS
  <1>1. items # << >> => items[1] \in Blocks
    <2> SUFFICES ASSUME items # << >> PROVE items[1] \in Blocks
      OBVIOUS
    <2>1. items \in Seq(Blocks) /\ 1 \in 1 .. Len(items)
      BY EmptySeq DEF Inv, TypeOK
    <2> QED BY <2>1, ElementOfSeq
  <1> QED BY <1>1, PointerAssumption DEF Inv, ChainIntact

LEMMA InitRefines == Init => L!Init
PROOF
  <1> SUFFICES ASSUME Init PROVE L!Init
    OBVIOUS
  <1>1. call = [t \in Threads |-> L!Idle]
    BY DEF Init, call, CallOf, L!Idle
  <1> QED BY <1>1 DEF Init, L!Init, call

(* Every step of the stack is a step of the abstract stack, or a stutter.  *)
LEMMA NextRefines == Inv /\ [Next]_vars => [L!Next]_L!vars
PROOF
  <1> SUFFICES ASSUME Inv, [Next]_vars PROVE L!Next \/ UNCHANGED << items, holds, call >>
    BY DEF L!vars, call
  <1>1. CASE UNCHANGED vars
    <2>1. UNCHANGED call
      BY <1>1 DEF vars, abaVars, stackVars, call, CallOf
    <2> QED BY <1>1, <2>1 DEF vars, stackVars
  <1>2. ASSUME NEW t \in Threads, Step(t) \/ Use(t)
        PROVE  L!Next \/ UNCHANGED << items, holds, call >>
    <2>1. Knows(t) /\ call[t] = CallOf(t)
      BY KnowsAll DEF Inv, call
    <2> DEFINE OthersStay ==
          \A u \in Threads \ {t} : /\ pc'[u] = pc[u] /\ desired'[u] = desired[u]
                                   /\ unread'[u] = unread[u] /\ cache'[u] = cache[u]
    <2>2. ASSUME OthersStay, CallOf(t)' = CallOf(t), UNCHANGED << items, holds >>
          PROVE  UNCHANGED << items, holds, call >>
      BY <2>2, CallChanges
    <2>3. ASSUME OthersStay, CallOf(t) = L!Pop, CallOf(t)' = L!Empty, word.data = Null,
                 UNCHANGED << items, holds >>
          PROVE  L!Next
      <3>1. L!FindEmpty(t)
        BY <2>1, <2>3, CallChanges, EmptyIffNull DEF L!FindEmpty, call
      <3> QED BY <3>1 DEF L!Next
    <2>4. ASSUME NEW b \in Blocks, CallPush(t, b) PROVE L!Next
      <3>1. OthersStay
        BY <2>4 DEF CallPush, abaVars, Inv, TypeOK
      <3>2. CallOf(t) = L!Idle /\ CallOf(t)' = L!Push(b)
        BY <2>4 DEF CallPush, CallOf, L!Idle, L!Push, Inv, TypeOK
      <3>3. L!CallPush(t, b)
        BY <2>1, <2>4, <3>1, <3>2, CallChanges DEF CallPush, L!CallPush, call
      <3> QED BY <3>3 DEF L!Next
    <2>5. CASE CallPop(t)
      <3>1. OthersStay
        BY <2>5 DEF CallPop, abaVars, Inv, TypeOK
      <3>2. "data" \in unread[t]
        BY <2>1, <2>5 DEF CallPop, Knows, Halves
      <3>3. CallOf(t) = L!Idle /\ CallOf(t)' = L!Pop
        BY <2>5, <3>2 DEF CallPop, CallOf, L!Idle, L!Pop, abaVars, Inv, TypeOK
      <3>4. L!CallPop(t)
        BY <2>1, <2>5, <3>1, <3>3, CallChanges DEF CallPop, L!CallPop, call
      <3> QED BY <3>4 DEF L!Next
    <2>6. ASSUME NEW b \in Blocks, Own(t, b)
          PROVE  L!Next \/ UNCHANGED << items, holds, call >>
      <3>1. ASSUME NEW content, UseBlock(t, b, content)
            PROVE  UNCHANGED << items, holds, call >>
        BY <3>1, <2>2 DEF UseBlock, abaVars, CallOf
      <3>2. ASSUME NEW u \in Threads, HandOver(t, b, u) PROVE L!Next
        <4>1. OthersStay /\ CallOf(t)' = CallOf(t) /\ CallOf(t) = L!Idle
          BY <3>2 DEF HandOver, abaVars, CallOf, L!Idle
        <4>2. L!HandOver(t, b, u)
          BY <2>1, <3>2, <4>1, CallChanges DEF HandOver, L!HandOver, call
        <4> QED BY <4>2 DEF L!Next
      <3> QED BY <2>6, <3>1, <3>2 DEF Own
    <2>7. CASE LoadWord(t)
      <3>1. OthersStay /\ UNCHANGED << items, holds >>
        BY <2>7, LocalFacts DEF LoadWord, stackVars, Inv
      <3>2. CASE pc[t] = "push" \/ LoadCounter(t)
        <4>1. CallOf(t)' = CallOf(t)
          BY <2>7, <3>2 DEF LoadWord, stackVars, CallOf, LoadCounter, Inv, TypeOK, AbaTypeOK
        <4> QED BY <4>1, <3>1, <2>2
      <3>3. CASE pc[t] = "pop" /\ LoadData(t)
        <4>1. cache'[t].data = word.data /\ "data" \notin unread'[t] /\ "data" \in unread[t]
              /\ pc'[t] = "pop"
          BY <2>7, <3>3 DEF LoadWord, stackVars, LoadData, Inv, TypeOK, AbaTypeOK
        <4>2. CallOf(t) = L!Pop
          BY <3>3, <4>1 DEF CallOf, L!Pop
        <4>3. CallOf(t)' = IF word.data = Null THEN L!Empty ELSE L!Pop
          BY <4>1 DEF CallOf, L!Pop, L!Empty
        <4> QED BY <3>1, <4>2, <4>3, <2>2, <2>3
      <3> QED BY <2>7, <3>2, <3>3 DEF LoadWord, Load
    <2>8. CASE Link(t)
      <3>1. CallOf(t)' = CallOf(t)
        BY <2>8 DEF Link, CallOf, Inv, TypeOK
      <3> QED BY <2>8, <3>1, <2>2 DEF Link, abaVars, Inv, TypeOK
    <2>9. CASE ReadLink(t)
      <3>1. CallOf(t)' = CallOf(t)
        BY <2>9 DEF ReadLink, abaVars, CallOf, Inv, TypeOK
      <3> QED BY <2>9, <3>1, <2>2 DEF ReadLink, abaVars, Inv, TypeOK
    <2>10. CASE ReturnNull(t)
      <3>1. OthersStay
        BY <2>10, LocalFacts DEF ReturnNull, Inv, TypeOK
      <3>2. CallOf(t) = L!Empty /\ CallOf(t)' = L!Idle
        BY <2>10 DEF ReturnNull, Abort, Loaded, CallOf, L!Empty, L!Idle, Inv, TypeOK
      <3>3. L!ReturnEmpty(t)
        BY <2>1, <2>10, <3>1, <3>2, CallChanges DEF ReturnNull, L!ReturnEmpty, call
      <3> QED BY <3>3 DEF L!Next
    <2>11. CASE PushCommit(t)
      <3>1. desired[t] \in Blocks /\ desired[t] \in Pointers
        BY <2>1, <2>11 DEF PushCommit, Knows, Inv, TypeOK, Pointers
      <3>2. OthersStay
        BY <2>11, <3>1, CommitFacts DEF PushCommit, Inv, TypeOK
      <3>3. CallOf(t) = L!Push(desired[t]) /\ CallOf(t)' = L!Idle
        BY <2>11 DEF PushCommit, CallOf, L!Push, L!Idle, Inv, TypeOK
      <3>4. L!DoPush(t, desired[t])
        BY <2>1, <2>11, <3>2, <3>3, CallChanges DEF PushCommit, L!DoPush, call
      <3> QED BY <3>1, <3>4 DEF L!Next
    <2>12. CASE PopCommit(t)
      <3>1. Fresh(t) /\ cache[t].data = word.data /\ word.data # Null
        <4>1. Fresh(t)
          BY <2>12 DEF PopCommit, Commit, DwCas, ExclusiveStore, Fresh
        <4> QED BY <4>1, <2>1, <2>12 DEF PopCommit, Knows, Fresh
      <3>2. items # << >> /\ cache[t].data = Head(items)
            /\ SubSeq(items, 2, Len(items)) = Tail(items)
        BY <3>1, TailIsSubSeq DEF Inv, TypeOK, ChainIntact
      <3>3. OthersStay
        BY <2>12 DEF PopCommit, Commit, Leave, Inv, TypeOK, AbaTypeOK
      <3>4. CallOf(t) = L!Pop /\ CallOf(t)' = L!Idle
        BY <2>12 DEF PopCommit, CallOf, L!Pop, L!Idle, Inv, TypeOK
      <3>5. L!DoPop(t)
        BY <2>1, <2>12, <3>2, <3>3, <3>4, CallChanges DEF PopCommit, L!DoPop, call
      <3> QED BY <3>5 DEF L!Next
    <2>13. CASE RetryPush(t)
      <3>1. OthersStay
        BY <2>13, LocalFacts DEF RetryPush, Inv, TypeOK
      <3>2. CallOf(t)' = CallOf(t)
        BY <2>13 DEF RetryPush, CallOf, Inv, TypeOK
      <3> QED BY <2>13, <3>1, <3>2, <2>2 DEF RetryPush
    <2>14. CASE RetryPop(t)
      <3>1. OthersStay /\ UNCHANGED << items, holds >> /\ pc'[t] = "pop"
        BY <2>14, LocalFacts DEF RetryPop, Inv, TypeOK
      <3>2. CallOf(t) = L!Pop
        BY <2>14 DEF RetryPop, CallOf, L!Pop
      <3>3. CASE DwCasFails(t)
        <4>1. cache'[t] = word /\ "data" \notin unread'[t]
          BY <2>14, <3>3 DEF RetryPop, Retry, Loaded, DwCasFails, Inv, TypeOK, AbaTypeOK
        <4>2. CallOf(t)' = IF word.data = Null THEN L!Empty ELSE L!Pop
          BY <3>1, <4>1 DEF CallOf, L!Pop, L!Empty
        <4> QED BY <3>1, <3>2, <4>2, <2>2, <2>3
      <3>4. CASE ~DwCasFails(t)
        <4>1. "data" \in unread'[t]
          BY <2>14, <3>4 DEF RetryPop, Retry, ExclusiveStoreFails, SpuriousFailure,
                             Leave, Halves, Inv, TypeOK, AbaTypeOK
        <4>2. CallOf(t)' = L!Pop
          BY <3>1, <4>1 DEF CallOf, L!Pop
        <4> QED BY <3>1, <3>2, <4>2, <2>2
      <3> QED BY <3>3, <3>4
    <2> QED
      BY <1>2, <2>4, <2>5, <2>6, <2>7, <2>8, <2>9, <2>10, <2>11, <2>12, <2>13,
         <2>14 DEF Step, Use
  <1> QED BY <1>1, <1>2 DEF Next

(* The Stack class is linearizable: to its callers its executions are      *)
(* those of LifoStack, on both platforms.                                  *)
THEOREM StackImplementsLifoStack == Spec => ImplementsLifoStack
  BY InitRefines, NextRefines, Invariance, PTL DEF Spec, ImplementsLifoStack, L!Spec
-----------------------------------------------------------------------------
(* StackReclaim: the memory of the blocks.                                 *)
(*                                                                         *)
(* A block that has an owner is not on the stack.  If a pop() still has it *)
(* in its cache, then the block was popped under its eyes, and the pop()   *)
(* is in the block's grace: so the block is not freed.                     *)
Owned(b) == \E u \in Threads : b \in holds[u]

FreedIsUnused ==
  /\ freed \subseteq Blocks
  /\ \A b \in freed : Owned(b) /\ grace[b] = {}
  /\ \A t \in Threads : pc[t] \in {"push", "push_store"} => desired[t] \notin freed

GraceCovers ==
  /\ grace \in [Blocks -> SUBSET Threads]
  /\ \A t \in Popping :
       "data" \notin unread[t] /\ cache[t].data \in Blocks /\ Owned(cache[t].data)
         => t \in grace[cache[t].data]

ReclaimInv == Inv /\ FreedIsUnused /\ GraceCovers

(* Freeing and allocating touch nothing of the stack, and nothing else     *)
(* that a client may do is new.                                            *)
LEMMA ReclaimStepIsStep == [ReclaimNext]_reclaimVars => [Next]_vars
PROOF
  <1> SUFFICES ASSUME ReclaimNext PROVE [Next]_vars
    BY DEF reclaimVars
  <1> PICK t \in Threads : \/ Proceed(t) \/ UseLive(t)
                          \/ \E b \in Blocks : Free(t, b) \/ Allocate(t, b)
    BY DEF ReclaimNext
  <1>1. CASE Proceed(t)
    BY <1>1 DEF Proceed, Next
  <1>2. CASE UseLive(t)
    BY <1>2 DEF UseLive, Next, Use, Own
  <1>3. CASE \E b \in Blocks : Free(t, b) \/ Allocate(t, b)
    BY <1>3 DEF Free, Allocate
  <1> QED BY <1>1, <1>2, <1>3

(* The blocks that a step of a call gives to its thread were on the stack, *)
(* the one it takes away is the one pushed, and a pop() that has seen a    *)
(* top saw it just now or earlier.                                         *)
LEMMA StepFacts ==
  ASSUME Inv, NEW t \in Threads, Step(t)
  PROVE  /\ \A u \in Threads \ {t} :
              /\ pc'[u] = pc[u] /\ desired'[u] = desired[u] /\ holds'[u] = holds[u]
              /\ cache'[u] = cache[u] /\ unread'[u] = unread[u]
         /\ \A b \in holds'[t] \ holds[t] : b \in Blocks /\ ~Owned(b)
         /\ \A b \in holds[t] \ holds'[t] : pc[t] = "push_store" /\ b = desired[t]
         /\ pc'[t] \in {"push", "push_store"} =>
              pc[t] \in {"push", "push_store"} /\ desired'[t] = desired[t]
         /\ pc'[t] \in {"pop", "pop_store"} =>
              /\ pc[t] \in {"pop", "pop_store"} /\ holds'[t] = holds[t]
              /\ "data" \notin unread'[t] =>
                   \/ cache'[t].data = word.data
                   \/ "data" \notin unread[t] /\ cache'[t].data = cache[t].data
PROOF
  <1>0. Knows(t)
    BY KnowsAll DEF Inv
  <1>1. CASE LoadWord(t)
    BY <1>1, LocalFacts
    DEF LoadWord, stackVars, Load, LoadData, LoadCounter, Inv, TypeOK, AbaTypeOK
  <1>2. CASE Link(t) \/ ReadLink(t)
    BY <1>2 DEF Link, ReadLink, abaVars, Inv, TypeOK
  <1>3. CASE ReturnNull(t)
    BY <1>3, LocalFacts DEF ReturnNull, Inv, TypeOK
  <1>4. CASE RetryPush(t)
    BY <1>4, LocalFacts DEF RetryPush, Inv, TypeOK
  <1>5. CASE RetryPop(t)
    <2>1. /\ pc[t] = "pop_store" /\ pc'[t] = "pop" /\ UNCHANGED holds
          /\ \A u \in Threads \ {t} : pc'[u] = pc[u] /\ desired'[u] = desired[u]
      BY <1>5 DEF RetryPop, Inv, TypeOK
    <2>2. "data" \notin unread'[t] => cache'[t].data = word.data
      BY <1>5 DEF RetryPop, Retry, DwCasFails, ExclusiveStoreFails,
                  SpuriousFailure, Leave, Halves, Inv, TypeOK, AbaTypeOK
    <2> QED BY <1>5, <2>1, <2>2, LocalFacts DEF RetryPop, Inv
  <1>6. CASE PushCommit(t)
    <2>1. desired[t] \in Pointers
      BY <1>0, <1>6 DEF PushCommit, Knows, Inv, TypeOK, Pointers
    <2> QED BY <1>6, <2>1, CommitFacts DEF PushCommit, Inv, TypeOK
  <1>7. CASE PopCommit(t)
    <2>1. Fresh(t)
      BY <1>7 DEF PopCommit, Commit, DwCas, ExclusiveStore, Fresh
    <2>2. cache[t].data = word.data /\ word.data # Null
      BY <1>0, <1>7, <2>1 DEF PopCommit, Knows, Fresh
    <2>3. word.data \in Blocks /\ ~Owned(word.data)
      BY <2>2, TopIsNobodys DEF Owned, Inv, TypeOK, AbaTypeOK, Pointers
    <2>4. pc'[t] = "idle" /\ holds'[t] = holds[t] \cup {word.data}
      BY <1>7, <2>2 DEF PopCommit, Inv, TypeOK
    <2>5. \A u \in Threads \ {t} :
              /\ pc'[u] = pc[u] /\ desired'[u] = desired[u] /\ holds'[u] = holds[u]
              /\ cache'[u] = cache[u] /\ unread'[u] = unread[u]
      BY <1>7 DEF PopCommit, Commit, Leave, Inv, TypeOK, AbaTypeOK
    <2> QED BY <2>3, <2>4, <2>5
  <1> QED
    BY <1>1, <1>2, <1>3, <1>4, <1>5, <1>6, <1>7 DEF Step

LEMMA ProceedKeepsReclaimInv ==
  ASSUME ReclaimInv, NEW t \in Threads, Proceed(t)
  PROVE  FreedIsUnused' /\ GraceCovers'
PROOF
  <1> Inv /\ FreedIsUnused /\ GraceCovers
    BY DEF ReclaimInv
  <1>1. Step(t) /\ freed' = freed
    BY DEF Proceed
  <1>2. grace' = [b \in Blocks |-> IF b \in holds'[t] \ holds[t]
                                  THEN Popping' ELSE grace[b] \cap Popping']
    BY DEF Proceed
  <1> DEFINE Others ==
        \A u \in Threads \ {t} :
          /\ pc'[u] = pc[u] /\ desired'[u] = desired[u] /\ holds'[u] = holds[u]
          /\ cache'[u] = cache[u] /\ unread'[u] = unread[u]
  <1>3. /\ Others
        /\ \A b \in holds'[t] \ holds[t] : b \in Blocks /\ ~Owned(b)
        /\ \A b \in holds[t] \ holds'[t] : pc[t] = "push_store" /\ b = desired[t]
    BY <1>1, StepFacts
  <1>4. \A b \in freed : Owned(b)' /\ grace'[b] = {}
    <2> SUFFICES ASSUME NEW b \in freed PROVE Owned(b)' /\ grace'[b] = {}
      BY <1>1
    <2>1. b \in Blocks /\ Owned(b) /\ grace[b] = {}
      BY DEF FreedIsUnused
    <2>2. b \notin holds'[t] \ holds[t] /\ b \notin holds[t] \ holds'[t]
      BY <1>3, <2>1 DEF FreedIsUnused
    <2>3. Owned(b)'
      BY <1>3, <2>1, <2>2 DEF Owned
    <2> QED BY <1>2, <2>1, <2>2, <2>3
  <1>5. \A u \in Threads : pc'[u] \in {"push", "push_store"} => desired'[u] \notin freed
    BY <1>1, <1>3, StepFacts DEF FreedIsUnused
  <1>6. FreedIsUnused'
    BY <1>1, <1>4, <1>5 DEF FreedIsUnused
  <1>7. grace' \in [Blocks -> SUBSET Threads]
    BY <1>2 DEF GraceCovers, Popping
  <1>8. ASSUME NEW u \in Popping', "data" \notin unread'[u],
               cache'[u].data \in Blocks, Owned(cache[u].data)'
        PROVE  u \in grace'[cache'[u].data]
    <2> DEFINE b == cache'[u].data
    <2>1. CASE b \in holds'[t] \ holds[t]
      BY <1>2, <1>8, <2>1
    <2>2. CASE b \notin holds'[t] \ holds[t]
      <3>1. Owned(b)
        BY <1>3, <1>8, <2>2 DEF Owned
      <3>2. CASE u # t
        <4>1. u \in Popping /\ "data" \notin unread[u] /\ cache[u].data = b
          BY <1>3, <1>8, <3>2 DEF Popping
        <4>2. u \in grace[b]
          BY <1>8, <3>1, <4>1 DEF GraceCovers
        <4> QED BY <1>2, <1>8, <2>2, <4>2
      <3>3. CASE u = t
        <4>1. /\ u \in Popping
              /\ \/ b = word.data
                 \/ "data" \notin unread[u] /\ b = cache[u].data
          BY <1>1, <1>8, <3>3, StepFacts DEF Popping
        <4>2. b # word.data
          BY <1>8, <3>1, TopIsNobodys, PointerAssumption DEF Owned
        <4>3. u \in grace[b]
          BY <1>8, <3>1, <4>1, <4>2 DEF GraceCovers
        <4> QED BY <1>2, <1>8, <2>2, <4>3
      <3> QED BY <3>2, <3>3
    <2> QED BY <2>1, <2>2
  <1>9. GraceCovers'
    BY <1>7, <1>8 DEF GraceCovers
  <1> QED BY <1>6, <1>9

LEMMA UseLiveKeepsReclaimInv ==
  ASSUME ReclaimInv, NEW t \in Threads, UseLive(t)
  PROVE  FreedIsUnused' /\ GraceCovers'
PROOF
  <1> Inv /\ FreedIsUnused /\ GraceCovers /\ UNCHANGED << freed, grace >>
    BY DEF ReclaimInv, UseLive
  <1>1. CASE CallPop(t)
    <2>1. "data" \in unread[t]
      BY <1>1, KnowsAll DEF CallPop, Knows, Inv, Halves
    <2>2. /\ UNCHANGED << desired, holds, cache, unread >>
          /\ \A u \in Threads : pc'[u] = IF u = t THEN "pop" ELSE pc[u]
      BY <1>1 DEF CallPop, abaVars, Inv, TypeOK
    <2> QED BY <2>1, <2>2 DEF FreedIsUnused, GraceCovers, Popping, Owned
  <1>2. ASSUME NEW b \in Blocks \ freed, CallPush(t, b)
        PROVE  FreedIsUnused' /\ GraceCovers'
    <2>1. /\ UNCHANGED << holds, cache, unread >>
          /\ \A u \in Threads : pc'[u] = IF u = t THEN "push" ELSE pc[u]
          /\ \A u \in Threads : desired'[u] = IF u = t THEN b ELSE desired[u]
      BY <1>2 DEF CallPush, abaVars, Inv, TypeOK
    <2> QED BY <2>1 DEF FreedIsUnused, GraceCovers, Popping, Owned
  <1>3. ASSUME NEW b \in Blocks, NEW content, UseBlock(t, b, content)
        PROVE  FreedIsUnused' /\ GraceCovers'
    BY <1>3 DEF UseBlock, abaVars, FreedIsUnused, GraceCovers, Popping, Owned
  <1>4. ASSUME NEW b \in Blocks, NEW u \in Threads, HandOver(t, b, u)
        PROVE  FreedIsUnused' /\ GraceCovers'
    <2>1. UNCHANGED << pc, desired, cache, unread >>
      BY <1>4 DEF HandOver, abaVars
    <2>2. \A c : Owned(c)' <=> Owned(c)
      BY <1>4 DEF HandOver, Owned
    <2> QED BY <2>1, <2>2 DEF FreedIsUnused, GraceCovers, Popping
  <1> QED BY <1>1, <1>2, <1>3, <1>4 DEF UseLive

LEMMA ReclaimNextKeepsInv == ReclaimInv /\ [ReclaimNext]_reclaimVars => ReclaimInv'
PROOF
  <1> SUFFICES ASSUME ReclaimInv, [ReclaimNext]_reclaimVars PROVE ReclaimInv'
    OBVIOUS
  <1>1. Inv'
    BY ReclaimStepIsStep, NextPreservesInv DEF ReclaimInv
  <1>2. ASSUME NEW t \in Threads, NEW b \in Blocks, Free(t, b) \/ Allocate(t, b)
        PROVE  FreedIsUnused' /\ GraceCovers'
    <2>1. UNCHANGED << pc, desired, holds, cache, unread, grace >>
      BY <1>2 DEF Free, Allocate, vars, abaVars, stackVars
    <2>2. GraceCovers'
      BY <2>1 DEF ReclaimInv, GraceCovers, Popping, Owned
    <2>3. CASE Free(t, b)
      <3>1. freed' = freed \cup {b} /\ grace[b] = {} /\ b \in holds[t] /\ pc[t] = "idle"
        BY <2>3 DEF Free
      <3>2. \A u \in Threads : pc[u] \in {"push", "push_store"} => desired[u] # b
        BY <3>1, KnowsAll DEF ReclaimInv, Inv, OnePlace, Knows
      <3> QED BY <2>1, <2>2, <3>1, <3>2 DEF ReclaimInv, FreedIsUnused, Owned
    <2>4. CASE Allocate(t, b)
      BY <2>1, <2>2, <2>4 DEF Allocate, ReclaimInv, FreedIsUnused, Owned
    <2> QED BY <1>2, <2>3, <2>4
  <1>3. CASE UNCHANGED reclaimVars
    BY <1>1, <1>3 DEF reclaimVars, vars, abaVars, stackVars, ReclaimInv,
                      FreedIsUnused, GraceCovers, Popping, Owned
  <1> QED
    BY <1>1, <1>2, <1>3, ProceedKeepsReclaimInv, UseLiveKeepsReclaimInv
    DEF ReclaimNext, ReclaimInv

LEMMA ReclaimInitEstablishes == ReclaimInit => ReclaimInv
PROOF
  <1> SUFFICES ASSUME ReclaimInit PROVE ReclaimInv
    OBVIOUS
  <1>1. Inv
    BY InitEstablishesInv DEF ReclaimInit
  <1>2. FreedIsUnused /\ GraceCovers
    BY DEF ReclaimInit, Init, FreedIsUnused, GraceCovers, Popping
  <1> QED BY <1>1, <1>2 DEF ReclaimInv

(* It is enough to wait for the pop() calls that were under way when a     *)
(* block was popped: then no call, of however long ago, reads or writes    *)
(* memory that was given back.                                             *)
THEOREM NoCallUsesFreedMemory == ReclaimSpec => []NoUseAfterFree
PROOF
  <1>1. ASSUME ReclaimInv PROVE NoUseAfterFree
    <2>1. ASSUME NEW t \in Threads, pc[t] = "pop", "data" \notin unread[t],
                 cache[t].data \in freed
          PROVE  FALSE
      BY <1>1, <2>1 DEF ReclaimInv, FreedIsUnused, GraceCovers, Popping
    <2>2. \A i \in 1 .. Len(items) : items[i] \notin freed
      BY <1>1 DEF ReclaimInv, FreedIsUnused, Owned, Inv, OnePlace
    <2> QED BY <1>1, <2>1, <2>2 DEF ReclaimInv, FreedIsUnused, NoUseAfterFree
  <1> QED BY <1>1, ReclaimInitEstablishes, ReclaimNextKeepsInv, PTL DEF ReclaimSpec
=============================================================================
