----------------------------- MODULE AbaWrapper -----------------------------
(***************************************************************************)
(* ABA_Wrapper<T> (src/concurrentfw/aba_wrapper.hpp) for a pointer T: one  *)
(* shared word that modify() changes by load, compute and conditional      *)
(* store, and retries until the store succeeds.  It is the part that its   *)
(* users (Stack, ConcurrentPtr) have in common: they extend this module,   *)
(* and put the function they pass to modify() between Load and Commit.     *)
(*                                                                         *)
(* Dwcas chooses the platform, as the header does at compile time.  With a *)
(* double-word compare-and-swap the word carries a counter next to the     *)
(* data; with exclusive loads and stores it carries none, and the thread's *)
(* exclusive monitor tells whether the word was written meanwhile.         *)
(***************************************************************************)
EXTENDS Integers

CONSTANTS
  Threads,     (* the threads that share the wrapper                       *)
  Null,        (* the null pointer                                         *)
  Dwcas,       (* ABA_IS_PLATFORM_DWCAS                                    *)
  CounterMod   (* the counter counts modulo this; 2^64 or 2^32 in the code *)

ASSUME PlatformAssumption ==
  Dwcas \in BOOLEAN /\ CounterMod \in Nat /\ CounterMod > 2

VARIABLES
  word,        (* ABA_Wrapper::content: its data and its counter           *)
  cache,       (* per thread: modify()'s copy of the word                  *)
  unread,      (* per thread: the halves of the word not in the cache yet  *)
  monitor      (* the threads whose exclusive monitor is set               *)

abaVars == << word, cache, unread, monitor >>

Halves == IF Dwcas THEN {"data", "counter"} ELSE {"data"}

NoCache == [data |-> Null, counter |-> 0]

(* The counter is an unsigned integer, and wraps around.                   *)
Increment(c) == IF c = CounterMod - 1 THEN 0 ELSE c + 1

(* The constructor: the counter starts at 1; without one it reads as 0.    *)
Construct(data) ==
  /\ word = [data |-> data, counter |-> IF Dwcas THEN 1 ELSE 0]
  /\ cache = [t \in Threads |-> NoCache]
  /\ unread = [t \in Threads |-> Halves]
  /\ monitor = {}

Loaded(t) == unread[t] = {}

-----------------------------------------------------------------------------
(* The load at the head of modify().  atomic_dw_load may be one SSE read,  *)
(* which the processor need not make atomic: the halves come one by one,   *)
(* in either order.  The exclusive load is one word, and sets the monitor. *)
LoadData(t) ==
  /\ "data" \in unread[t]
  /\ cache' = [cache EXCEPT ![t].data = word.data]
  /\ unread' = [unread EXCEPT ![t] = @ \ {"data"}]
  /\ monitor' = IF Dwcas THEN monitor ELSE monitor \cup {t}
  /\ UNCHANGED word

LoadCounter(t) ==
  /\ "counter" \in unread[t]
  /\ cache' = [cache EXCEPT ![t].counter = word.counter]
  /\ unread' = [unread EXCEPT ![t] = @ \ {"counter"}]
  /\ UNCHANGED << word, monitor >>

Load(t) == LoadData(t) \/ LoadCounter(t)

(* modify() returns: its copies of the word are gone.                      *)
Leave(t) ==
  /\ cache' = [cache EXCEPT ![t] = NoCache]
  /\ unread' = [unread EXCEPT ![t] = Halves]

(* What is assumed of the counter's width: no attempt stays under way for  *)
(* a whole round of the counter.                                           *)
NotLapped ==
  \A u \in Threads :
    "counter" \notin unread[u] => Increment(word.counter) # cache[u].counter

(* Mutant of DwCas: the counter is not compared.                           *)
DwCasDataOnly(t, data) ==
  /\ Dwcas
  /\ word.data = cache[t].data
  /\ NotLapped
  /\ word' = [data |-> data, counter |-> Increment(word.counter)]
  /\ UNCHANGED monitor

(* Mutant of DwCas: the counter is never incremented.                      *)
DwCasNoIncrement(t, data) ==
  /\ Dwcas
  /\ word = cache[t]
  /\ word' = [data |-> data, counter |-> cache[t].counter]
  /\ UNCHANGED monitor

(* atomic_dw_cas finds the word as cached and stores data and counter + 1. *)
DwCas(t, data) ==
  /\ Dwcas
  /\ word = cache[t]
  /\ NotLapped
  /\ word' = [data |-> data, counter |-> Increment(cache[t].counter)]
  /\ UNCHANGED monitor

(* Mutant of ExclusiveStore: a plain store.                                *)
PlainStore(t, data) ==
  /\ ~Dwcas
  /\ word' = [word EXCEPT !.data = data]
  /\ monitor' = {}

(* The exclusive store of a thread whose monitor is still set; it clears   *)
(* the monitor of every other thread that has loaded the word.             *)
ExclusiveStore(t, data) ==
  /\ ~Dwcas
  /\ t \in monitor
  /\ word' = [word EXCEPT !.data = data]
  /\ monitor' = {}

(* The conditional store succeeds, and modify() returns true.              *)
Commit(t, data) ==
  /\ Loaded(t)
  /\ DwCas(t, data) \/ ExclusiveStore(t, data)
  /\ Leave(t)

(* Mutant of DwCasFails: the cache is not refreshed.                       *)
DwCasFailsUnseen(t) ==
  /\ Dwcas
  /\ word # cache[t]
  /\ UNCHANGED abaVars

(* atomic_dw_cas finds the word changed: the cache is what it found.       *)
DwCasFails(t) ==
  /\ Dwcas
  /\ word # cache[t]
  /\ cache' = [cache EXCEPT ![t] = word]
  /\ UNCHANGED << word, unread, monitor >>

(* Mutant of ExclusiveStoreFails: the loop does not load again.            *)
ExclusiveStoreFailsUnseen(t) ==
  /\ ~Dwcas
  /\ t \notin monitor
  /\ UNCHANGED abaVars

(* The exclusive store finds the monitor cleared: load again.              *)
ExclusiveStoreFails(t) ==
  /\ ~Dwcas
  /\ t \notin monitor
  /\ Leave(t)
  /\ UNCHANGED << word, monitor >>

(* It may also fail with no writer in sight: an interrupt, a lost line.    *)
SpuriousFailure(t) ==
  /\ ~Dwcas
  /\ Loaded(t)
  /\ t \in monitor
  /\ Leave(t)
  /\ monitor' = monitor \ {t}
  /\ UNCHANGED word

(* The conditional store fails, and the loop goes round again.             *)
Retry(t) ==
  /\ Loaded(t)
  /\ DwCasFails(t) \/ ExclusiveStoreFails(t) \/ SpuriousFailure(t)

(* The user's function returns false: modify() stores nothing and returns  *)
(* false, clearing the monitor (atomic_exclusive_abort) if there is one.   *)
Abort(t) ==
  /\ Loaded(t)
  /\ Leave(t)
  /\ monitor' = monitor \ {t}
  /\ UNCHANGED word

-----------------------------------------------------------------------------
(* get() and get_counter(): one load each.  The double-word load may tear, *)
(* but they return only one half of it; the exclusive platforms use a      *)
(* plain load here, which leaves the monitor alone, and have no counter.   *)
GetData == word.data

GetCounter == IF Dwcas THEN word.counter ELSE 0

-----------------------------------------------------------------------------
(* The types of the wrapper's variables, Data being the values of T.       *)
AbaTypeOK(Data) ==
  LET Words == [data : Data, counter : 0 .. CounterMod - 1] IN
  /\ word \in Words
  /\ cache \in [Threads -> Words]
  /\ unread \in [Threads -> SUBSET Halves]
  /\ monitor \in SUBSET Threads
=============================================================================
