-------------------------- MODULE DoubleWordProofs --------------------------
(***************************************************************************)
(* Proofs about DoubleWord, for any set of threads, any width of a half,   *)
(* and any mixture of the forms of loads and stores.                       *)
(*                                                                         *)
(* First the arithmetic: a pair survives the way into a word and back, and *)
(* shlq and shldq do not let through what else the registers held.  Then   *)
(* the invariant: who is in the fallback store and not overtaken knows     *)
(* what is in the word, and with no SSE store about the word holds a pair  *)
(* that somebody gave.  Last the refinement of AtomicPair.                 *)
(***************************************************************************)
EXTENDS DoubleWord, TLAPS

(* Two digits in base Half: their number has these digits, and no other    *)
(* number below Half * Half has.                                           *)
LEMMA Digits ==
  ASSUME NEW lo \in Halves, NEW hi \in Halves
  PROVE  /\ lo + Half * hi \in Words
         /\ (lo + Half * hi) % Half = lo
         /\ (lo + Half * hi) \div Half = hi
PROOF
  <1>1. Half \in Nat /\ Half > 1 /\ lo \in 0 .. Half - 1 /\ hi \in 0 .. Half - 1
    BY WidthAssumption DEF Halves
  <1>2. lo + Half * hi \in 0 .. Half * Half - 1
    BY <1>1, SMTT(30)
  <1>3. (lo + Half * hi) % Half = lo
    BY <1>1, SMTT(30)
  <1>4. (lo + Half * hi) \div Half = hi
    BY <1>1, SMTT(30)
  <1> QED BY <1>2, <1>3, <1>4 DEF Words

LEMMA HalvesOfWord ==
  ASSUME NEW w \in Words
  PROVE  Low(w) \in Halves /\ High(w) \in Halves
PROOF
  <1>1. Half \in Nat /\ Half > 1 /\ w \in 0 .. Half * Half - 1
    BY WidthAssumption DEF Words
  <1>2. w % Half \in 0 .. Half - 1
    BY <1>1, SMTT(30)
  <1>3. w \div Half \in 0 .. Half - 1
    BY <1>1, SMTT(30)
  <1> QED BY <1>2, <1>3 DEF Low, High, Halves

(* A word with something above its upper half, cut to the word's width.    *)
LEMMA CutAbove ==
  ASSUME NEW w \in Words, NEW above \in Nat
  PROVE  (above * (Half * Half) + w) % (Half * Half) = w
PROOF
  <1> DEFINE S == Half * Half
  <1>1. S \in Nat /\ S > 0 /\ w \in 0 .. S - 1
    BY WidthAssumption, SMTT(30) DEF Words
  <1> HIDE DEF S
  <1>2. (above * S + w) % S = w
    BY <1>1, SMTT(30)
  <1> QED BY <1>2 DEF S

LEMMA PairWord ==
  /\ Zero \in Pairs
  /\ \A w \in Words : PairOf(w) \in Pairs
  /\ \A p \in Pairs : WordOf(p) \in Words /\ PairOf(WordOf(p)) = p
PROOF
  <1>1. Zero \in Pairs
    BY WidthAssumption DEF Zero, Pairs, Halves
  <1>2. ASSUME NEW w \in Words PROVE PairOf(w) \in Pairs
    BY HalvesOfWord DEF PairOf, Pairs
  <1>3. ASSUME NEW p \in Pairs PROVE WordOf(p) \in Words /\ PairOf(WordOf(p)) = p
    <2>1. PICK lo \in Halves, hi \in Halves : p = << lo, hi >>
      BY DEF Pairs
    <2>2. WordOf(p) = lo + Half * hi
      BY <2>1 DEF WordOf
    <2> QED BY <2>1, <2>2, Digits DEF PairOf, Low, High
  <1> QED BY <1>1, <1>2, <1>3

LEMMA WordPair == \A w \in Words : WordOf(PairOf(w)) = w
PROOF
  <1> SUFFICES ASSUME NEW w \in Words PROVE Low(w) + Half * High(w) = w
    BY DEF WordOf, PairOf
  <1>1. Half \in Nat /\ Half > 1 /\ w \in Nat
    BY WidthAssumption, SMTT(30) DEF Words
  <1> QED BY <1>1, SMTT(30) DEF Low, High

-----------------------------------------------------------------------------
(* The load's shldq brings the upper half of rax into edx, whatever rdx    *)
(* held.                                                                   *)
LEMMA UnpackRight ==
  ASSUME NEW rax \in Words, NEW rdx \in Words
  PROVE  Unpack(rax, rdx) = PairOf(rax)
PROOF
  <1>1. Low(rdx) \in Halves /\ High(rdx) \in Halves /\ High(rax) \in Halves
    BY HalvesOfWord
  <1>2. Half \in Nat /\ rdx \in Nat
    BY WidthAssumption, SMTT(30) DEF Words
  <1>3. rdx = Low(rdx) + Half * High(rdx)
    BY <1>2, WidthAssumption, SMTT(30) DEF Low, High
  <1>4. rdx * Half + High(rax)
          = High(rdx) * (Half * Half) + (High(rax) + Half * Low(rdx))
    <2> DEFINE a == Low(rdx)
               b == High(rdx)
               c == High(rax)
    <2>1. a \in Nat /\ b \in Nat /\ c \in Nat /\ rdx = a + Half * b
      BY <1>1, <1>2, <1>3 DEF Halves
    <2> HIDE DEF a, b, c
    <2>2. (a + Half * b) * Half + c = b * (Half * Half) + (c + Half * a)
      BY <1>2, <2>1, SMTT(30)
    <2> QED BY <2>1, <2>2 DEF a, b, c
  <1>5. High(rax) + Half * Low(rdx) \in Words
    BY <1>1, Digits
  <1>6. High(rdx) \in Nat
    BY <1>1, WidthAssumption DEF Halves
  <1>7. Shld(rdx, rax) = High(rax) + Half * Low(rdx)
    BY <1>4, <1>5, <1>6, CutAbove DEF Shld
  <1>8. Low(Shld(rdx, rax)) = High(rax)
    BY <1>1, <1>7, Digits DEF Low
  <1> QED BY <1>8 DEF Unpack, PairOf

(* The store's shlq and shldq put the pair together, whatever the upper    *)
(* halves of rbx and rcx held.                                             *)
LEMMA PackRight ==
  ASSUME NEW p \in Pairs, NEW rbx \in RegistersWith(p[1]), NEW rcx \in RegistersWith(p[2])
  PROVE  Pack(rbx, rcx) = WordOf(p)
PROOF
  <1>1. p[1] \in Halves /\ p[2] \in Halves
    BY DEF Pairs
  <1>2. PICK a \in Halves : rbx = p[1] + Half * a
    BY DEF RegistersWith
  <1>3. PICK b \in Halves : rcx = p[2] + Half * b
    BY DEF RegistersWith
  <1> DEFINE lo == p[1]
             hi == p[2]
  <1>4. /\ Half \in Nat /\ 0 \in Halves /\ lo \in Halves /\ hi \in Halves
        /\ lo \in Nat /\ hi \in Nat /\ a \in Nat /\ b \in Nat
    BY <1>1, WidthAssumption DEF Halves
  <1> HIDE DEF lo, hi
  <1>5. (lo + Half * a) * Half = a * (Half * Half) + (0 + Half * lo)
    BY <1>4, SMTT(30)
  <1>6. Shl(rbx) = 0 + Half * lo
    <2>1. 0 + Half * lo \in Words
      BY <1>4, Digits
    <2> QED BY <1>2, <1>4, <1>5, <2>1, CutAbove DEF Shl, lo
  <1>7. High(Shl(rbx)) = lo
    BY <1>4, <1>6, Digits DEF High
  <1>8. (hi + Half * b) * Half + lo = b * (Half * Half) + (lo + Half * hi)
    BY <1>4, SMTT(30)
  <1>9. Shld(rcx, Shl(rbx)) = lo + Half * hi
    <2>1. lo + Half * hi \in Words
      BY <1>4, Digits
    <2> QED BY <1>3, <1>4, <1>7, <1>8, <2>1, CutAbove DEF Shld, hi
  <1> QED BY <1>9 DEF Pack, WordOf, lo, hi

-----------------------------------------------------------------------------
(* The types, no arguments where there is no call, and no result while     *)
(* there is one; SSE moves only where they are in use.                     *)
CallInv ==
  /\ TypeOK
  /\ \A t \in Threads :
       /\ pc[t] \in {"idle", "load_movq", "load_cmpxchg"} => expected[t] = Zero
       /\ pc[t] \in {"idle", "load_movq", "load_sse", "load_cmpxchg"} => desired[t] = Zero
       /\ pc[t] # "idle" => result[t] = NoResult
       /\ pc[t] \in {"load_sse", "store_sse"} => "sse" \in Forms
       /\ pc[t] \notin {"load_sse", "store_sse"} => todo[t] = {}

(* What a thread in the fallback store knows of the word.                  *)
Knows(t) ==
  /\ pc[t] = "store_high" => expected[t][1] = Low(memory)
  /\ pc[t] = "store" => expected[t] = PairOf(memory)

LooksInv ==
  /\ \A t \in Threads \ overtaken : Knows(t)
  /\ overtaken \subseteq {t \in Threads : pc[t] \in {"store_high", "store"}}

GivenInv ==
  "sse" \notin Forms => /\ PairOf(memory) \in given
                        /\ \A t \in Threads :
                             pc[t] \in {"store_movq", "store_low", "store_high", "store", "cas"}
                               => desired[t] \in given

Inv == CallInv /\ LooksInv /\ GivenInv

Results == [exchanged : BOOLEAN, found : Pairs]

LEMMA InitEstablishesInv == Init => Inv
PROOF
  <1> SUFFICES ASSUME Init PROVE Inv
    OBVIOUS
  <1>1. CallInv
    BY PairWord DEF Init, CallInv, TypeOK, NoResult
  <1>2. LooksInv /\ GivenInv
    BY DEF Init, LooksInv, Knows, GivenInv
  <1> QED BY <1>1, <1>2 DEF Inv

(* What a cmpxchg does to the pair in memory.                              *)
LEMMA CmpXchgFacts ==
  ASSUME memory \in Words, NEW old \in Pairs, NEW e \in Pairs, NEW d \in Pairs,
         CmpXchg(old, e, d)
  PROVE  /\ memory' \in Words
         /\ old = PairOf(memory)
         /\ PairOf(memory)' = IF old = e THEN d ELSE old
         /\ old # e \/ d = old => memory' = memory
PROOF
  <1>1. WordOf(PairOf(memory)) = memory
    BY WordPair
  <1> QED BY <1>1, PairWord DEF CmpXchg, PairOf, Low, High

(* A write of t leaves nobody in the fallback store believing in what is   *)
(* no longer there.                                                        *)
LEMMA WriteOvertakes ==
  ASSUME LooksInv, NEW t \in Threads, NEW u \in Threads \ {t}, u \notin Overtakes(t),
         u \notin overtaken, pc'[u] = pc[u], expected'[u] = expected[u]
  PROVE  Knows(u)'
  BY DEF LooksInv, Knows, Overtakes, PairOf, Low, High

(* A call that returns leaves the registers empty and the types intact.    *)
LEMMA ReturnKeepsInv ==
  ASSUME Inv, NEW t \in Threads, NEW r \in Results, Return(t, r),
         memory' \in Words, UNCHANGED given,
         "sse" \notin Forms => PairOf(memory)' \in given
  PROVE  Inv'
PROOF
  <1>1. CallInv'
    BY PairWord DEF Inv, CallInv, Return, TypeOK, Overtakes, Results
  <1>2. LooksInv'
    <2>1. pc'[t] = "idle"
      BY DEF Inv, CallInv, TypeOK, Return
    <2>2. \A u \in Threads \ {t} : pc'[u] = pc[u] /\ expected'[u] = expected[u]
      BY DEF Inv, CallInv, TypeOK, Return
    <2>3. ASSUME NEW u \in Threads \ {t}, u \notin overtaken' PROVE Knows(u)'
      <3>1. u \notin overtaken /\ u \notin Overtakes(t)
        BY <2>3 DEF Return
      <3> QED BY <2>2, <2>3, <3>1, WriteOvertakes DEF Inv
    <2>4. Knows(t)' /\ t \notin overtaken'
      BY <2>1 DEF Return, Knows, Overtakes
    <2>5. overtaken' \subseteq {u \in Threads : pc'[u] \in {"store_high", "store"}}
      BY <2>2, <2>4 DEF Inv, LooksInv, Return, Overtakes
    <2> QED BY <2>3, <2>4, <2>5 DEF LooksInv
  <1>3. GivenInv'
    BY DEF Inv, CallInv, TypeOK, GivenInv, Return
  <1> QED BY <1>1, <1>2, <1>3 DEF Inv

(* A call that starts has its registers and its halves to move.            *)
LEMMA CallKeepsInv ==
  ASSUME Inv, NEW t \in Threads, NEW e \in Pairs, NEW d \in Pairs,
         CallLoad(t) \/ CallStore(t, d) \/ CallCas(t, e, d)
  PROVE  Inv'
PROOF
  <1>1. NoResult \in Results
    BY PairWord DEF NoResult, Results
  <1>2. /\ pc[t] = "idle" /\ UNCHANGED << memory, overtaken >>
        /\ result' = [result EXCEPT ![t] = NoResult]
        /\ \A u \in Threads \ {t} : /\ pc'[u] = pc[u] /\ expected'[u] = expected[u]
                                    /\ desired'[u] = desired[u]
    BY DEF CallLoad, CallStore, CallCas, Call, Inv, CallInv, TypeOK
  <1>3. CallInv'
    <2>1. CASE CallLoad(t)
      BY <1>1, <2>1, PairWord DEF CallLoad, Call, Inv, CallInv, TypeOK, Results
    <2>2. CASE CallStore(t, d)
      <3>1. PICK step \in {"store_movq", "store_sse", "store_low"} :
              /\ Call(t, step, Zero, d, IF step = "store_sse" THEN {1, 2} ELSE {})
              /\ step = "store_sse" => "sse" \in Forms
              /\ given' = given \cup {d}
        BY <2>2 DEF CallStore
      <3> QED BY <1>1, <3>1, PairWord DEF Call, Inv, CallInv, TypeOK, Results
    <2>3. CASE CallCas(t, e, d)
      BY <1>1, <2>3, PairWord DEF CallCas, Call, Inv, CallInv, TypeOK, Results
    <2> QED BY <2>1, <2>2, <2>3
  <1>4. pc'[t] \in {"load_movq", "load_sse", "load_cmpxchg",
                    "store_movq", "store_sse", "store_low", "cas"}
    BY DEF CallLoad, CallStore, CallCas, Call, Inv, CallInv, TypeOK
  <1>5. LooksInv'
    <2>1. t \notin overtaken /\ Knows(t)'
      BY <1>2, <1>4 DEF Inv, LooksInv, Knows
    <2>2. \A u \in Threads \ {t} : Knows(u) => Knows(u)'
      BY <1>2 DEF Knows, PairOf, Low, High
    <2> QED BY <1>2, <2>1, <2>2 DEF Inv, LooksInv
  <1>6. GivenInv'
    <2>1. CASE CallLoad(t)
      BY <1>2, <2>1 DEF CallLoad, Call, Inv, CallInv, TypeOK, GivenInv, PairOf, Low, High
    <2>2. CASE CallStore(t, d) \/ CallCas(t, e, d)
      <3>1. given' = given \cup {d} /\ desired'[t] = d
        BY <2>2 DEF CallStore, CallCas, Call, Inv, CallInv, TypeOK
      <3> QED BY <1>2, <3>1 DEF Inv, GivenInv, PairOf, Low, High
    <2> QED BY <2>1, <2>2
  <1> QED BY <1>3, <1>5, <1>6 DEF Inv

(* What each kind of load finds, and that it writes nothing.               *)
LEMMA LoadFacts ==
  ASSUME Inv, NEW t \in Threads, LoadByMove(t) \/ LoadByCmpXchg(t)
  PROVE  /\ UNCHANGED << memory, given >>
         /\ PairOf(memory) \in Pairs
         /\ Return(t, Found(PairOf(memory)))
PROOF
  <1>1. memory \in Words /\ PairOf(memory) \in Pairs
    BY PairWord DEF Inv, CallInv, TypeOK
  <1>2. CASE LoadByMove(t)
    BY <1>1, <1>2, UnpackRight DEF LoadByMove
  <1>3. CASE LoadByCmpXchg(t)
    <2>1. PICK old \in Pairs, any \in Pairs :
            CmpXchg(old, any, any) /\ Return(t, Found(old))
      BY <1>3 DEF LoadByCmpXchg
    <2>2. old = PairOf(memory) /\ memory' = memory
      BY <1>1, <2>1, CmpXchgFacts
    <2> QED BY <1>1, <1>3, <2>1, <2>2 DEF LoadByCmpXchg
  <1> QED BY <1>2, <1>3

LEMMA CasFacts ==
  ASSUME Inv, NEW t \in Threads, Cas(t)
  PROVE  /\ memory' \in Words /\ UNCHANGED given
         /\ PairOf(memory) \in Pairs
         /\ PairOf(memory)' = IF PairOf(memory) = expected[t] THEN desired[t]
                                                              ELSE PairOf(memory)
         /\ Return(t, [exchanged |-> PairOf(memory) = expected[t],
                       found |-> PairOf(memory)])
PROOF
  <1>1. /\ memory \in Words /\ PairOf(memory) \in Pairs
        /\ expected[t] \in Pairs /\ desired[t] \in Pairs
    BY PairWord DEF Inv, CallInv, TypeOK
  <1>2. PICK old \in Pairs :
          /\ CmpXchg(old, expected[t], desired[t])
          /\ Return(t, [exchanged |-> old = expected[t], found |-> old])
    BY DEF Cas
  <1>3. old = PairOf(memory)
    BY <1>1, <1>2, CmpXchgFacts
  <1> QED BY <1>1, <1>2, <1>3, CmpXchgFacts DEF Cas

(* One half of an SSE store.                                               *)
LEMMA HalfStored ==
  ASSUME NEW p \in Pairs, NEW d \in Pairs, NEW i \in {1, 2}
  PROVE  [p EXCEPT ![i] = d[i]] \in Pairs
  BY DEF Pairs

LEMMA StoreSseFacts ==
  ASSUME Inv, NEW t \in Threads, NEW i \in {1, 2}, StoreSseHalf(t, i)
  PROVE  /\ memory' \in Words
         /\ PairOf(memory)' = [PairOf(memory) EXCEPT ![i] = desired[t][i]]
PROOF
  <1>1. PairOf(memory) \in Pairs /\ desired[t] \in Pairs
    BY PairWord DEF Inv, CallInv, TypeOK
  <1>2. [PairOf(memory) EXCEPT ![i] = desired[t][i]] \in Pairs
    BY <1>1, HalfStored
  <1> QED BY <1>2, PairWord DEF StoreSseHalf, PairOf, Low, High

(* A step inside a call of t that is in none of the two phases in which a  *)
(* thread relies on what it saw.                                           *)
LEMMA OthersKnow ==
  ASSUME Inv, NEW t \in Threads, pc'[t] = pc[t], pc[t] \notin {"store_high", "store"},
         \A u \in Threads \ {t} : pc'[u] = pc[u] /\ expected'[u] = expected[u],
         overtaken' = overtaken \cup Overtakes(t)
  PROVE  LooksInv'
PROOF
  <1>1. ASSUME NEW u \in Threads \ {t}, u \notin overtaken' PROVE Knows(u)'
    BY <1>1, WriteOvertakes DEF Inv
  <1>2. Knows(t)'
    BY DEF Knows
  <1>3. t \notin overtaken
    BY DEF Inv, LooksInv
  <1> QED BY <1>1, <1>2, <1>3 DEF Inv, LooksInv, Overtakes

LEMMA StepKeepsInv ==
  ASSUME Inv, NEW t \in Threads, Step(t)
  PROVE  Inv'
PROOF
  <1>1. /\ memory \in Words /\ PairOf(memory) \in Pairs
        /\ expected[t] \in Pairs /\ desired[t] \in Pairs
        /\ expected \in [Threads -> Pairs]
        /\ "sse" \notin Forms => PairOf(memory) \in given
    BY PairWord DEF Inv, CallInv, TypeOK, GivenInv
  <1>2. NoResult \in Results /\ \A p \in Pairs : Found(p) \in Results
    BY PairWord DEF NoResult, Found, Results
  <1>3. CASE LoadByMove(t) \/ LoadByCmpXchg(t)
    <2>1. /\ UNCHANGED << memory, given >> /\ Return(t, Found(PairOf(memory)))
      BY <1>3, LoadFacts
    <2>2. PairOf(memory)' = PairOf(memory)
      BY <2>1 DEF PairOf, Low, High
    <2> QED BY <1>1, <1>2, <2>1, <2>2, ReturnKeepsInv
  <1>4. CASE StoreByMove(t)
    <2>1. memory' = WordOf(desired[t])
      BY <1>1, <1>4, PackRight DEF StoreByMove
    <2>2. memory' \in Words /\ PairOf(memory)' = desired[t]
      BY <1>1, <2>1, PairWord DEF PairOf, Low, High
    <2>3. "sse" \notin Forms => desired[t] \in given
      BY <1>4 DEF StoreByMove, Inv, GivenInv
    <2> QED BY <1>2, <1>4, <2>2, <2>3, ReturnKeepsInv DEF StoreByMove
  <1>5. ASSUME NEW i \in {1, 2}, LoadSseHalf(t, i) PROVE Inv'
    <2> DEFINE found == [expected[t] EXCEPT ![i] = PairOf(memory)[i]]
    <2>1. found \in Pairs
      BY <1>1, HalfStored
    <2>2. PairOf(memory)' = PairOf(memory)
      BY <1>5 DEF LoadSseHalf, PairOf, Low, High
    <2>3. CASE Return(t, Found(found))
      BY <1>1, <1>2, <1>5, <2>1, <2>2, <2>3, ReturnKeepsInv DEF LoadSseHalf
    <2>4. CASE /\ expected' = [expected EXCEPT ![t] = found]
               /\ todo' = [todo EXCEPT ![t] = @ \ {i}]
               /\ UNCHANGED << pc, desired, result, overtaken >>
      <3>1. CallInv'
        BY <1>5, <2>1, <2>4 DEF Inv, CallInv, TypeOK, LoadSseHalf
      <3>2. LooksInv'
        <4>1. overtaken' = overtaken \cup Overtakes(t)
          BY <1>5, <2>4 DEF LoadSseHalf, Overtakes
        <4>2. \A u \in Threads \ {t} : pc'[u] = pc[u] /\ expected'[u] = expected[u]
          BY <1>1, <2>4
        <4> QED BY <1>5, <2>4, <4>1, <4>2, OthersKnow DEF LoadSseHalf
      <3>3. GivenInv'
        BY <1>5, <2>2, <2>4 DEF Inv, GivenInv, LoadSseHalf
      <3> QED BY <3>1, <3>2, <3>3 DEF Inv
    <2> QED BY <1>5, <2>3, <2>4 DEF LoadSseHalf
  <1>6. ASSUME NEW i \in {1, 2}, StoreSseHalf(t, i) PROVE Inv'
    <2>1. memory' \in Words /\ "sse" \in Forms /\ UNCHANGED given
      BY <1>6, StoreSseFacts DEF StoreSseHalf, Inv, CallInv
    <2>2. CASE Return(t, NoResult)
      BY <1>2, <2>1, <2>2, ReturnKeepsInv
    <2>3. CASE /\ todo' = [todo EXCEPT ![t] = @ \ {i}]
               /\ overtaken' = overtaken \cup Overtakes(t)
               /\ UNCHANGED << pc, expected, desired, result >>
      <3>1. CallInv'
        BY <1>6, <2>1, <2>3 DEF Inv, CallInv, TypeOK, StoreSseHalf, Overtakes
      <3>2. LooksInv'
        BY <1>6, <2>3, OthersKnow DEF StoreSseHalf
      <3>3. GivenInv'
        BY <2>1 DEF GivenInv
      <3> QED BY <3>1, <3>2, <3>3 DEF Inv
    <2> QED BY <1>6, <2>2, <2>3 DEF StoreSseHalf
  <1>7. CASE StoreReadLow(t) \/ StoreReadHigh(t)
    <2>1. /\ UNCHANGED << memory, desired, todo, result, overtaken, given >>
          /\ PairOf(memory)' = PairOf(memory) /\ Low(memory)' = Low(memory)
          /\ \A u \in Threads \ {t} : pc'[u] = pc[u] /\ expected'[u] = expected[u]
      BY <1>7 DEF StoreReadLow, StoreReadHigh, PairOf, Low, High, Inv, CallInv, TypeOK
    <2>2. /\ << Low(memory), expected[t][2] >> \in Pairs
          /\ << expected[t][1], High(memory) >> \in Pairs
      BY <1>1, HalvesOfWord DEF Pairs
    <2>3. CallInv'
      BY <1>1, <1>7, <2>1, <2>2 DEF StoreReadLow, StoreReadHigh, Inv, CallInv, TypeOK
    <2>4. \A u \in Threads \ {t} : Knows(u) => Knows(u)'
      BY <2>1 DEF Knows
    <2>5. t \notin overtaken => Knows(t)'
      <3>1. CASE StoreReadLow(t)
        BY <2>1, <3>1 DEF StoreReadLow, Knows, Inv, CallInv, TypeOK
      <3>2. ASSUME StoreReadHigh(t), t \notin overtaken PROVE Knows(t)'
        <4>1. expected[t][1] = Low(memory)
          BY <3>2 DEF StoreReadHigh, Inv, LooksInv, Knows
        <4>2. pc'[t] = "store" /\ expected'[t] = << Low(memory), High(memory) >>
          BY <1>1, <3>2, <4>1 DEF StoreReadHigh, Inv, CallInv, TypeOK
        <4> QED BY <2>1, <4>2 DEF Knows, PairOf
      <3> QED BY <1>7, <3>1, <3>2
    <2>6. overtaken' \subseteq {u \in Threads : pc'[u] \in {"store_high", "store"}}
      BY <1>7, <2>1 DEF StoreReadLow, StoreReadHigh, Inv, CallInv, TypeOK, LooksInv
    <2>7. LooksInv'
      BY <2>1, <2>4, <2>5, <2>6 DEF Inv, LooksInv
    <2>8. GivenInv'
      BY <1>7, <2>1 DEF StoreReadLow, StoreReadHigh, Inv, GivenInv
    <2> QED BY <2>3, <2>7, <2>8 DEF Inv
  <1>8. CASE StoreByCmpXchg(t)
    <2>1. PICK old \in Pairs :
            /\ CmpXchg(old, expected[t], desired[t])
            /\ \/ old = expected[t] /\ Return(t, NoResult)
               \/ /\ old # expected[t]
                  /\ expected' = [expected EXCEPT ![t] = old]
                  /\ overtaken' = overtaken \ {t}
                  /\ UNCHANGED << pc, desired, todo, result >>
      BY <1>8 DEF StoreByCmpXchg
    <2>2. /\ memory' \in Words /\ old = PairOf(memory)
          /\ PairOf(memory)' = IF old = expected[t] THEN desired[t] ELSE old
          /\ old # expected[t] => memory' = memory
      BY <1>1, <2>1, CmpXchgFacts
    <2>3. pc[t] = "store" /\ UNCHANGED given
          /\ ("sse" \notin Forms => desired[t] \in given)
      BY <1>8 DEF StoreByCmpXchg, Inv, GivenInv
    <2>4. CASE old = expected[t]
      BY <1>2, <2>1, <2>2, <2>3, <2>4, ReturnKeepsInv
    <2>5. CASE old # expected[t]
      <3>1. CallInv'
        BY <1>1, <2>1, <2>2, <2>3, <2>5 DEF Inv, CallInv, TypeOK
      <3>2. \A u \in Threads \ {t} : Knows(u) => Knows(u)'
        BY <1>1, <2>1, <2>2, <2>5 DEF Knows, PairOf, Low, High
      <3>3. Knows(t)'
        BY <1>1, <2>1, <2>2, <2>3, <2>5 DEF Knows
      <3>4. LooksInv'
        BY <2>1, <2>5, <3>2, <3>3 DEF Inv, LooksInv
      <3>5. GivenInv'
        BY <2>1, <2>2, <2>3, <2>5 DEF Inv, GivenInv
      <3> QED BY <3>1, <3>4, <3>5 DEF Inv
    <2> QED BY <2>4, <2>5
  <1>9. CASE Cas(t)
    <2>1. "sse" \notin Forms => desired[t] \in given
      BY <1>9 DEF Cas, Inv, GivenInv
    <2>2. [exchanged |-> PairOf(memory) = expected[t], found |-> PairOf(memory)] \in Results
      BY <1>1 DEF Results
    <2> QED BY <1>1, <1>9, <2>1, <2>2, CasFacts, ReturnKeepsInv
  <1> QED BY <1>3, <1>4, <1>5, <1>6, <1>7, <1>8, <1>9 DEF Step

LEMMA NextKeepsInv == Inv /\ [Next]_vars => Inv'
PROOF
  <1> SUFFICES ASSUME Inv, [Next]_vars PROVE Inv'
    OBVIOUS
  <1>1. CASE UNCHANGED vars
    BY <1>1 DEF Inv, CallInv, TypeOK, LooksInv, Knows, GivenInv, PairOf, Low, High, vars
  <1>2. Zero \in Pairs
    BY PairWord
  <1> QED BY <1>1, <1>2, CallKeepsInv, StepKeepsInv DEF Next

LEMMA Invariance == Spec => []Inv
  BY InitEstablishesInv, NextKeepsInv, PTL DEF Spec

-----------------------------------------------------------------------------
(* What the steps of the calls do to the two properties of single steps.   *)
LEMMA ReturnsOnly ==
  ASSUME Inv, NEW t \in Threads, NEW u \in Threads, NEW r, Return(u, r)
  PROVE  /\ pc'[t] = "store" => u # t /\ expected'[t] = expected[t]
         /\ pc[t] # "idle" /\ pc'[t] = "idle" => u = t /\ result'[t] = r
  BY DEF Return, Inv, CallInv, TypeOK

(* In the fallback store the only failed attempts are those that somebody  *)
(* else's write is to blame for, for any threads and forms.                *)
THEOREM RefusalsHaveACause == Spec => RefusedOnlyIfOvertaken
PROOF
  <1> DEFINE Fine(t) ==
        pc[t] = "store" /\ pc'[t] = "store" /\ expected'[t] # expected[t] => t \in overtaken
  <1>1. ASSUME Inv, [Next]_vars, NEW t \in Threads PROVE Fine(t)
    <2> SUFFICES ASSUME pc[t] = "store", expected'[t] # expected[t], pc'[t] = "store"
                 PROVE  t \in overtaken
      OBVIOUS
    <2>1. ~ UNCHANGED vars
      BY DEF vars
    <2>2. PICK u \in Threads :
            \/ CallLoad(u)
            \/ \E d \in Pairs : CallStore(u, d) \/ \E e \in Pairs : CallCas(u, e, d)
            \/ Step(u)
      BY <1>1, <2>1 DEF Next
    <2>3. u = t
      BY <1>1, <2>2
      DEF Inv, CallInv, TypeOK, CallLoad, CallStore, CallCas, Call, Step, Return,
          LoadByMove, LoadByCmpXchg, LoadSseHalf, StoreByMove, StoreSseHalf,
          StoreReadLow, StoreReadHigh, StoreByCmpXchg, Cas
    <2>4. StoreByCmpXchg(t)
      BY <1>1, <2>2, <2>3
      DEF CallLoad, CallStore, CallCas, Call, Step, LoadByMove, LoadByCmpXchg,
          LoadSseHalf, StoreByMove, StoreSseHalf, StoreReadLow, StoreReadHigh, Cas
    <2>5. PICK old \in Pairs :
            /\ CmpXchg(old, expected[t], desired[t])
            /\ old = expected[t] => Return(t, NoResult)
      BY <2>4 DEF StoreByCmpXchg
    <2>6. old # expected[t]
      BY <1>1, <2>5, ReturnsOnly
    <2>7. PairOf(memory) # expected[t]
      BY <2>5, <2>6 DEF CmpXchg
    <2> QED BY <1>1, <2>7 DEF Inv, LooksInv, Knows
  <1>2. Inv /\ [Next]_vars => [\A t \in Threads : Fine(t)]_vars
    BY <1>1
  <1> QED BY <1>2, Invariance, PTL DEF Spec, RefusedOnlyIfOvertaken

(* Where no SSE moves are in use, and only there is it sure, no load and   *)
(* no exchange finds halves of two pairs.                                  *)
THEOREM NothingTornWithoutSse ==
  ASSUME "sse" \notin Forms
  PROVE  Spec => NothingTorn
PROOF
  <1> DEFINE Fine(t) ==
        pc[t] \in {"load_movq", "load_sse", "load_cmpxchg", "cas"} /\ pc'[t] = "idle"
          => result'[t].found \in given
  <1>1. ASSUME Inv, [Next]_vars, NEW t \in Threads PROVE Fine(t)
    <2> SUFFICES ASSUME pc[t] \in {"load_movq", "load_sse", "load_cmpxchg", "cas"},
                        pc'[t] = "idle"
                 PROVE  result'[t].found \in given
      OBVIOUS
    <2>1. ~ UNCHANGED vars
      BY DEF vars
    <2>2. PICK u \in Threads :
            \/ CallLoad(u)
            \/ \E d \in Pairs : CallStore(u, d) \/ \E e \in Pairs : CallCas(u, e, d)
            \/ Step(u)
      BY <1>1, <2>1 DEF Next
    <2>3. u = t
      BY <1>1, <2>2
      DEF Inv, CallInv, TypeOK, CallLoad, CallStore, CallCas, Call, Step, Return,
          LoadByMove, LoadByCmpXchg, LoadSseHalf, StoreByMove, StoreSseHalf,
          StoreReadLow, StoreReadHigh, StoreByCmpXchg, Cas
    <2>4. pc[t] # "load_sse" /\ PairOf(memory) \in given
      BY <1>1 DEF Inv, CallInv, GivenInv
    <2>5. LoadByMove(t) \/ LoadByCmpXchg(t) \/ Cas(t)
      BY <1>1, <2>2, <2>3, <2>4
      DEF CallLoad, CallStore, CallCas, Call, Step, LoadSseHalf, StoreByMove,
          StoreSseHalf, StoreReadLow, StoreReadHigh, StoreByCmpXchg
    <2>6. CASE LoadByMove(t) \/ LoadByCmpXchg(t)
      BY <1>1, <2>4, <2>6, LoadFacts, ReturnsOnly DEF Found
    <2>7. CASE Cas(t)
      <3> DEFINE r == [exchanged |-> PairOf(memory) = expected[t],
                       found |-> PairOf(memory)]
      <3>1. Return(t, r) /\ r.found = PairOf(memory)
        BY <1>1, <2>7, CasFacts
      <3>2. result'[t] = r
        <4> HIDE DEF r
        <4> QED BY <1>1, <3>1, ReturnsOnly
      <3> QED BY <2>4, <3>1, <3>2
    <2> QED BY <2>5, <2>6, <2>7
  <1>2. Inv /\ [Next]_vars => [\A t \in Threads : Fine(t)]_vars
    BY <1>1
  <1> QED BY <1>2, Invariance, PTL DEF Spec, NothingTorn

-----------------------------------------------------------------------------
pair == PairOf(memory)
call == [t \in Threads |-> CallOf(t)]

LEMMA Ops ==
  /\ OpOf("idle") = "idle" /\ OpOf("cas") = "cas"
  /\ OpOf("load_movq") = "load" /\ OpOf("load_cmpxchg") = "load"
  /\ OpOf("load_sse") = "split_load" /\ OpOf("store_sse") = "split_store"
  /\ OpOf("store_movq") = "store" /\ OpOf("store_low") = "store"
  /\ OpOf("store_high") = "store" /\ OpOf("store") = "store"
  BY DEF OpOf

LEMMA InitRefines == Init => P!Init
PROOF
  <1> SUFFICES ASSUME Init PROVE P!Init
    OBVIOUS
  <1>1. \A t \in Threads : CallOf(t) = P!Idle
    BY Ops DEF Init, CallOf, P!Idle, P!Calling
  <1> QED BY <1>1, PairWord DEF Init, P!Init, P!NoResult, NoResult

(* How the abstract call changes when t steps.                             *)
LEMMA CallChanges ==
  ASSUME NEW t \in Threads, \A u \in Threads \ {t} : CallOf(u)' = CallOf(u)
  PROVE  call' = [call EXCEPT ![t] = CallOf(t)']
  BY DEF call

(* A thread that is as it was is in the same abstract call.                *)
LEMMA SameCall ==
  ASSUME NEW u, pc'[u] = pc[u], expected'[u] = expected[u],
         desired'[u] = desired[u], todo'[u] = todo[u]
  PROVE  CallOf(u)' = CallOf(u)
  BY DEF CallOf

(* A call returns: the abstract call ends with the same result.            *)
LEMMA ReturnRefines ==
  ASSUME Inv, NEW t \in Threads, NEW r, Return(t, r)
  PROVE  P!End(t, r)
PROOF
  <1>1. \A u \in Threads \ {t} : CallOf(u)' = CallOf(u)
    BY SameCall DEF Return, Inv, CallInv, TypeOK
  <1>2. /\ pc'[t] = "idle" /\ expected'[t] = Zero /\ desired'[t] = Zero
        /\ todo'[t] = {}
    BY DEF Return, Inv, CallInv, TypeOK
  <1>3. CallOf(t)' = P!Idle
    BY <1>2, Ops DEF CallOf, P!Idle, P!Calling
  <1> QED BY <1>1, <1>3, CallChanges DEF Return, P!End, call

LEMMA CallsRefine ==
  ASSUME Inv, NEW t \in Threads, NEW e \in Pairs, NEW d \in Pairs,
         CallLoad(t) \/ CallStore(t, d) \/ CallCas(t, e, d)
  PROVE  P!Next
PROOF
  <1>1. /\ UNCHANGED memory
        /\ result' = [result EXCEPT ![t] = P!NoResult]
        /\ pc[t] = "idle"
        /\ \A u \in Threads \ {t} :
             /\ pc'[u] = pc[u] /\ expected'[u] = expected[u]
             /\ desired'[u] = desired[u] /\ todo'[u] = todo[u]
    BY DEF CallLoad, CallStore, CallCas, Call, NoResult, P!NoResult,
           Inv, CallInv, TypeOK
  <1>2. /\ UNCHANGED pair
        /\ \A u \in Threads \ {t} : CallOf(u)' = CallOf(u)
    BY <1>1, SameCall DEF pair, PairOf, Low, High
  <1>3. call[t] = P!Idle
    BY <1>1, Ops DEF call, CallOf, P!Idle, P!Calling, Inv, CallInv, TypeOK
  <1>4. \/ CallOf(t)' = P!Load
        \/ "sse" \in Forms /\ CallOf(t)' = P!SplitLoad
        \/ CallOf(t)' = P!Store(d)
        \/ "sse" \in Forms /\ CallOf(t)' = P!SplitStore(d)
        \/ CallOf(t)' = P!Cas(e, d)
    <2>1. PICK step, x, y, halves :
            /\ Call(t, step, x, y, halves)
            /\ \/ /\ step \in {"load_movq", "load_cmpxchg"}
                  /\ x = Zero /\ y = Zero /\ halves = {}
               \/ /\ step = "load_sse" /\ "sse" \in Forms
                  /\ x = Zero /\ y = Zero /\ halves = {1, 2}
               \/ /\ step \in {"store_movq", "store_low"}
                  /\ x = Zero /\ y = d /\ halves = {}
               \/ /\ step = "store_sse" /\ "sse" \in Forms
                  /\ x = Zero /\ y = d /\ halves = {1, 2}
               \/ step = "cas" /\ x = e /\ y = d /\ halves = {}
      BY DEF CallLoad, CallStore, CallCas
    <2>2. pc'[t] = step /\ expected'[t] = x /\ desired'[t] = y /\ todo'[t] = halves
      BY <2>1 DEF Call, Inv, CallInv, TypeOK
    <2>3. CallOf(t)' = P!Calling(OpOf(step), IF OpOf(step) \in {"cas", "split_load"}
                                             THEN x ELSE Zero, y, halves)
      BY <2>2 DEF CallOf, P!Calling
    <2> QED BY <2>1, <2>3, Ops DEF P!Load, P!SplitLoad, P!Store, P!SplitStore, P!Cas
  <1>5. call' = [call EXCEPT ![t] = CallOf(t)']
    BY <1>2, CallChanges
  <1>6. P!Start(t)
    BY <1>1, <1>2, <1>3, <1>4, <1>5 DEF P!Start, call, pair
  <1> QED BY <1>6 DEF P!Next

LEMMA LoadsRefine ==
  ASSUME Inv, NEW t \in Threads, LoadByMove(t) \/ LoadByCmpXchg(t)
  PROVE  P!Next
PROOF
  <1>1. call[t] = P!Load
    <2>1. /\ pc[t] \in {"load_movq", "load_cmpxchg"}
          /\ expected[t] = Zero /\ desired[t] = Zero /\ todo[t] = {}
      BY DEF LoadByMove, LoadByCmpXchg, Inv, CallInv
    <2> QED BY <2>1, Ops DEF call, CallOf, P!Load, P!Calling
  <1>2. UNCHANGED pair /\ P!End(t, P!Found(pair))
    BY LoadFacts, ReturnRefines DEF pair, PairOf, Low, High, Found, P!Found
  <1>3. P!DoLoad(t)
    BY <1>1, <1>2 DEF P!DoLoad, pair, call
  <1> QED BY <1>3 DEF P!Next

LEMMA StoresRefine ==
  ASSUME Inv, NEW t \in Threads, StoreByMove(t) \/ StoreByCmpXchg(t)
  PROVE  P!Next \/ UNCHANGED << pair, call, result >>
PROOF
  <1>1. /\ memory \in Words /\ pair \in Pairs /\ pc[t] \in {"store_movq", "store"}
        /\ desired[t] \in Pairs /\ expected[t] \in Pairs
        /\ call[t].op = "store" /\ call[t].desired = desired[t]
    BY PairWord, Ops
    DEF StoreByMove, StoreByCmpXchg, Inv, CallInv, TypeOK, pair, call, CallOf
  <1>2. ASSUME pair' = desired[t], Return(t, NoResult) PROVE P!Next
    <2>1. P!End(t, P!NoResult)
      BY <1>2, ReturnRefines DEF NoResult, P!NoResult
    <2>2. P!DoStore(t)
      BY <1>1, <1>2, <2>1 DEF P!DoStore, pair, call
    <2> QED BY <2>2 DEF P!Next
  <1>3. CASE StoreByMove(t)
    <2>1. memory' = WordOf(desired[t]) /\ Return(t, NoResult)
      BY <1>1, <1>3, PackRight DEF StoreByMove
    <2>2. pair' = desired[t]
      BY <1>1, <2>1, PairWord DEF pair, PairOf, Low, High
    <2> QED BY <1>2, <2>1, <2>2
  <1>4. CASE StoreByCmpXchg(t)
    <2>1. PICK old \in Pairs :
            /\ CmpXchg(old, expected[t], desired[t])
            /\ \/ old = expected[t] /\ Return(t, NoResult)
               \/ /\ old # expected[t]
                  /\ expected' = [expected EXCEPT ![t] = old]
                  /\ overtaken' = overtaken \ {t}
                  /\ UNCHANGED << pc, desired, todo, result >>
      BY <1>4 DEF StoreByCmpXchg
    <2>2. pair' = IF old = expected[t] THEN desired[t] ELSE pair
      BY <1>1, <2>1, CmpXchgFacts DEF pair
    <2>3. CASE old # expected[t]
      <3>1. \A u \in Threads \ {t} : CallOf(u)' = CallOf(u)
        BY <2>1, <2>3, SameCall DEF Inv, CallInv, TypeOK
      <3>2. CallOf(t)' = CallOf(t)
        <4>1. pc[t] = "store" /\ pc'[t] = "store"
          BY <1>4, <2>1, <2>3 DEF StoreByCmpXchg
        <4> QED BY <2>1, <2>3, <4>1, Ops DEF CallOf
      <3> QED BY <2>1, <2>2, <2>3, <3>1, <3>2 DEF call
    <2> QED BY <1>2, <2>1, <2>2, <2>3
  <1> QED BY <1>3, <1>4

LEMMA CasRefines ==
  ASSUME Inv, NEW t \in Threads, Cas(t)
  PROVE  P!Next
PROOF
  <1>1. /\ call[t].op = "cas" /\ call[t].desired = desired[t]
        /\ call[t].expected = expected[t]
    BY Ops DEF Cas, call, CallOf
  <1>2. /\ pair' = IF pair = expected[t] THEN desired[t] ELSE pair
        /\ P!End(t, [exchanged |-> pair = expected[t], found |-> pair])
    BY CasFacts, ReturnRefines DEF pair
  <1>3. P!DoCas(t)
    BY <1>1, <1>2 DEF P!DoCas, pair, call
  <1> QED BY <1>3 DEF P!Next

(* A half of an SSE move is a half of the split call.                      *)
LEMMA LoadHalfRefines ==
  ASSUME Inv, NEW t \in Threads, NEW i \in {1, 2}, LoadSseHalf(t, i)
  PROVE  P!Next
PROOF
  <1> DEFINE found == [expected[t] EXCEPT ![i] = pair[i]]
  <1>1. /\ call[t].op = "split_load" /\ call[t].todo = todo[t]
        /\ call[t].expected = expected[t] /\ i \in todo[t] /\ UNCHANGED pair
    BY Ops DEF LoadSseHalf, call, CallOf, pair, PairOf, Low, High
  <1>2. \/ todo[t] = {i} /\ Return(t, Found(found))
        \/ /\ todo[t] # {i}
           /\ expected' = [expected EXCEPT ![t] = found]
           /\ todo' = [todo EXCEPT ![t] = @ \ {i}]
           /\ UNCHANGED << pc, desired, result, overtaken >>
    BY DEF LoadSseHalf, pair
  <1>3. CASE todo[t] = {i}
    <2>1. P!End(t, P!Found(found))
      BY <1>2, <1>3, ReturnRefines DEF Found, P!Found
    <2>2. P!LoadHalf(t, i)
      BY <1>1, <1>3, <2>1 DEF P!LoadHalf, pair, call
    <2> QED BY <2>2 DEF P!Next
  <1>4. CASE todo[t] # {i}
    <2>1. \A u \in Threads \ {t} : CallOf(u)' = CallOf(u)
      BY <1>2, <1>4, SameCall DEF Inv, CallInv, TypeOK
    <2>2. CallOf(t)' = P!Calling("split_load", found, Zero, todo[t] \ {i})
      <3>1. /\ pc'[t] = "load_sse" /\ expected'[t] = found
            /\ desired'[t] = Zero /\ todo'[t] = todo[t] \ {i}
        BY <1>2, <1>4 DEF LoadSseHalf, Inv, CallInv, TypeOK
      <3> HIDE DEF found
      <3> QED BY <3>1, Ops DEF CallOf, P!Calling
    <2>3. call' = [call EXCEPT ![t] = P!Calling("split_load", found, Zero, @.todo \ {i})]
      <3> HIDE DEF found
      <3> QED BY <1>1, <2>1, <2>2, CallChanges
    <2>4. P!LoadHalf(t, i)
      BY <1>1, <1>2, <1>4, <2>3 DEF P!LoadHalf, pair, call
    <2> QED BY <2>4 DEF P!Next
  <1> QED BY <1>3, <1>4

LEMMA StoreHalfRefines ==
  ASSUME Inv, NEW t \in Threads, NEW i \in {1, 2}, StoreSseHalf(t, i)
  PROVE  P!Next
PROOF
  <1>1. /\ call[t].op = "split_store" /\ call[t].todo = todo[t]
        /\ call[t].desired = desired[t] /\ i \in todo[t]
    BY Ops DEF StoreSseHalf, call, CallOf
  <1>2. pair' = [pair EXCEPT ![i] = desired[t][i]]
    BY StoreSseFacts DEF pair
  <1>3. \/ todo[t] = {i} /\ Return(t, NoResult)
        \/ /\ todo[t] # {i}
           /\ todo' = [todo EXCEPT ![t] = @ \ {i}]
           /\ UNCHANGED << pc, expected, desired, result >>
    BY DEF StoreSseHalf
  <1>4. CASE todo[t] = {i}
    <2>1. P!End(t, P!NoResult)
      BY <1>3, <1>4, ReturnRefines DEF NoResult, P!NoResult
    <2>2. P!StoreHalf(t, i)
      BY <1>1, <1>2, <1>4, <2>1 DEF P!StoreHalf, pair, call
    <2> QED BY <2>2 DEF P!Next
  <1>5. CASE todo[t] # {i}
    <2>1. \A u \in Threads \ {t} : CallOf(u)' = CallOf(u)
      BY <1>3, <1>5, SameCall DEF Inv, CallInv, TypeOK
    <2>2. CallOf(t)' = P!Calling("split_store", Zero, desired[t], todo[t] \ {i})
      <3>1. /\ pc'[t] = "store_sse" /\ desired'[t] = desired[t]
            /\ todo'[t] = todo[t] \ {i}
        BY <1>3, <1>5 DEF StoreSseHalf, Inv, CallInv, TypeOK
      <3> QED BY <3>1, Ops DEF CallOf, P!Calling
    <2>3. call' = [call EXCEPT ![t] =
                     P!Calling("split_store", Zero, @.desired, @.todo \ {i})]
      BY <1>1, <2>1, <2>2, CallChanges
    <2>4. P!StoreHalf(t, i)
      BY <1>1, <1>2, <1>3, <1>5, <2>3 DEF P!StoreHalf, pair, call
    <2> QED BY <2>4 DEF P!Next
  <1> QED BY <1>4, <1>5

LEMMA NextRefines == Inv /\ [Next]_vars => [P!Next]_(P!vars)
PROOF
  <1> SUFFICES ASSUME Inv, [Next]_vars
               PROVE  P!Next \/ UNCHANGED << pair, call, result >>
    BY DEF P!vars, pair, call
  <1>1. CASE UNCHANGED vars
    BY <1>1 DEF vars, pair, call, CallOf, PairOf, Low, High
  <1>2. ASSUME NEW t \in Threads, Step(t)
        PROVE  P!Next \/ UNCHANGED << pair, call, result >>
    <2>1. CASE StoreReadLow(t) \/ StoreReadHigh(t)
      <3>1. UNCHANGED << memory, desired, todo, result >>
        BY <2>1 DEF StoreReadLow, StoreReadHigh
      <3>2. \A u \in Threads \ {t} : CallOf(u)' = CallOf(u)
        BY <2>1, SameCall DEF StoreReadLow, StoreReadHigh, Inv, CallInv, TypeOK
      <3>3. CallOf(t)' = CallOf(t)
        <4>1. /\ pc[t] \in {"store_low", "store_high"}
              /\ pc'[t] \in {"store_high", "store"}
          BY <2>1 DEF StoreReadLow, StoreReadHigh, Inv, CallInv, TypeOK
        <4> QED BY <3>1, <4>1, Ops DEF CallOf
      <3> QED BY <3>1, <3>2, <3>3 DEF pair, call, PairOf, Low, High
    <2> QED
      BY <1>2, <2>1, LoadsRefine, StoresRefine, CasRefines, LoadHalfRefines,
         StoreHalfRefines DEF Step
  <1>3. Zero \in Pairs
    BY PairWord
  <1> QED BY <1>1, <1>2, <1>3, CallsRefine DEF Next

(* The primitives implement an atomic pair: the moves because packing and  *)
(* unpacking keep the halves apart, the fallbacks although they read the   *)
(* halves one by one; and the SSE moves, if they are in use, a pair whose  *)
(* halves are stored and loaded one by one.                                *)
THEOREM DoubleWordImplementsAtomicPair == Spec => ImplementsAtomicPair
  BY InitRefines, NextRefines, Invariance, PTL DEF Spec, ImplementsAtomicPair, P!Spec
=============================================================================
