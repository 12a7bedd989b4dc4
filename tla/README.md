# A TLA+ model of ConcurrentFW

ConcurrentFW is a small C++20 library for lock-free programming on x86-64 and
ARMv8: a mutex built directly on the Linux futex system call, an intrusive
lock-free stack, an atomic pointer, and the ABA-protected word that the last two
share.  This directory models its algorithms in TLA+, checks them with TLC on
small instances, and proves the main results with TLAPS for every instance.

Paths below are relative to the repository root.

## 1. Inventory

| Component | State | Operations | Talks to |
|---|---|---|---|
| `Futex` (`src/concurrentfw/futex.hpp`, `src/futex.cpp`) | one 32 bit word: 0 unlocked, 1 locked, 2 locked and marked | `lock`, `trylock`, `trylock_timeout`, `unlock`, constructors | `FutexBase` for waiting and waking |
| `FutexBase` (`src/concurrentfw/futex.hpp`) | the word; the kernel's queue of sleepers | `futex_wait`, `futex_wake`, `futex_cmp_requeue`, `futex_wake_op`, bitset calls | Linux `futex(2)` |
| `ABA_Wrapper<T>` (`src/concurrentfw/aba_wrapper.hpp`) | data, and with DWCAS a counter next to it | constructor, `get`, `get_counter`, `modify(function)` | the assembly primitives; calls back the user's function in a loop |
| `Stack` (`src/stack.cpp`, `src/concurrentfw/stack.hpp`) | an `ABA_Wrapper<void*>` to the top block; in each block, the link to the next | `push`, `pop` | `ABA_Wrapper::modify`; memory that belongs to its callers |
| `Concurrent_Ptr<T>` (`src/concurrentfw/concurrent_ptr.hpp`) | an `ABA_Wrapper<T*>` | `set`, `get`, `get_counter` | `ABA_Wrapper` |
| x86 primitives (`src/concurrentfw/atomic_asm_x86.hpp`) | none | `atomic_dw_load`, `atomic_dw_store`, `atomic_dw_cas` for 2x64 and 2x32 bit, fast (SSE) and slow (cmpxchg) | the processor |
| Arm primitives (`src/concurrentfw/atomic_asm_arm.hpp`) | the core's exclusive monitor | exclusive load, store, abort, single and pair | the processor |
| `Atomic<T>` (`src/concurrentfw/atomic.hpp`) | one value | load, store, exchange, compare-exchange, fetch operations, fences | compiler built-ins |
| `sysconf` (`src/sysconf.cpp`, `src/concurrentfw/sysconf.hpp`) | two cached constants | `cache_line`, `page_size` | libc |
| platform choice, helpers, version | none | compile-time constants and attributes | - |

What is hard here:

* **Concurrency.** Everything is called by many threads at once, with no lock
  underneath.  The futex has a window between freeing the word and waking a
  sleeper; the stack reads memory that another thread may own by then.
* **Failure and time.** A futex wait may time out, be interrupted or be rejected
  by the kernel, a wake may fail after the lock has been freed, an exclusive store
  may fail for no reason at all.
* **Staleness.** The futex goes to sleep on a value it saw earlier; `modify()`
  stores what it computed from a copy that may be many commits old (ABA).
* **Boundaries.** The ABA counter wraps around; a double-word load or store may be torn.
* **Ordering.** Memory orders are as weak as the author thought possible.
* **Lifetime.** `unlock()` still names the word to the kernel after it has freed it.
* **Encoding.** Parameters go through 12 bit fields, registers with anything else in
  them, integers of another signedness, and an `errno` that outlives the call.

What makes each component correct:

* `Futex`: one owner; a word that says whether there is one; no sleeper
  forgotten; calls that end; all of this whatever timed out or failed.
* `ABA_Wrapper`: a store succeeds only if nothing happened since the load.
* `Stack`: linearizable LIFO order, no block lost or handed out twice,
  lock-freedom.
* `Concurrent_Ptr`: an atomic register whose counter counts the sets.
* `FutexBase`: each call does what its parameters say, although several of them
  share an argument of the system call.
* x86 primitives: a pair is loaded, stored and exchanged as one, except that the SSE loads and
  stores may take the halves one by one; the slow store is refused only for somebody else's sake.
* Arm primitives: a store-exclusive exchanges exactly what its thread loaded.
* `sysconf`: one answer for all callers; an exception only for an error of one's own
  call.

## 2. Modules

| Module | Models | Role |
|---|---|---|
| `Mutex` | what `Futex` promises, without word or kernel | abstract |
| `Futex` | `Futex` and the two futex calls it makes | detailed, refines `Mutex` |
| `FutexProofs` | | theorems about `Futex` |
| `FutexOrdering` | the memory orders of `Futex` | adds happens-before to `Futex` |
| `MCFutexOrdering` | | symmetry for TLC |
| `FutexLifetime` | a lock in a counted object that its last user destroys | extends `Futex` |
| `FutexSystem` | a `Futex` that sleeps and wakes by calls of `FutexBase`, among other users of it | composes `Futex` and `FutexCalls`, refines `Futex` |
| `MCFutexSystem` | | instance values, symmetry and view for TLC |
| `FutexUseProofs` | | theorems about `FutexOrdering`, `FutexLifetime` and `FutexSystem`, over those of `FutexProofs` |
| `FutexArguments` | the calls of `FutexBase`, their parameters and the kernel's operations on words | shared by the next two |
| `FutexCalls` | what the calls of `FutexBase` promise | abstract |
| `FutexBase` | the six calls, the arguments of `futex(2)`, the kernel's queue | detailed, refines `FutexCalls` |
| `MCFutexBase` | | instance values and symmetry for TLC |
| `FutexBaseProofs` | | theorems about `FutexBase` |
| `AbaWrapper` | the steps of `ABA_Wrapper::modify` on both platforms | part of `Stack` and `ConcurrentPtr` |
| `LifoStack` | what `Stack` promises | abstract |
| `Stack` | `Stack::push`, `Stack::pop`, block memory, owners | detailed, refines `LifoStack` |
| `MCStack` | | symmetry for TLC |
| `StackReclaim` | owners that free their blocks | extends `Stack` |
| `StackProofs` | | theorems about `Stack` and `StackReclaim` |
| `AtomicRegister` | what `Concurrent_Ptr` promises | abstract |
| `ConcurrentPtr` | `set`, `get`, `get_counter` over `AbaWrapper` | detailed, refines `AtomicRegister` |
| `MCConcurrentPtr` | | symmetry for TLC |
| `ConcurrentPtrProofs` | | theorems about `ConcurrentPtr` |
| `AtomicPair` | what the double-word primitives promise | abstract |
| `DoubleWord` | the x86 load, store and compare-and-swap | detailed, refines `AtomicPair` |
| `MCDoubleWord` | | symmetry for TLC |
| `DoubleWordProofs` | | theorems about `DoubleWord` |
| `ExclusivePair` | Arm's exclusive load, store and abort of a pair | stands alone |
| `ExclusivePairProofs` | | theorems about `ExclusivePair` |
| `Sysconf` | `sysconf<T>()` and a static initialized by it | stands alone |
| `SysconfProofs` | | theorems about `Sysconf` |

### Futex

One action is one access to the word or one system call; local computation
belongs to the step before it.  `value` is the word; `pc` is the next access of
each thread; `waiting` says whether the thread is in `lock()` or
`trylock_timeout()`; `ret` is how its last acquiring call ended.  `holding` and
`wakeFailed` are history variables.

* `Lock`, `Trylock` and `TrylockTimeout` are the first `compare_exchange_strong` of
  the three calls.  If it fails, `EnterWait` goes on to `wait()` or
  `wait_timeout()`, skipping the `exchange` when the word was already 2.
* `Exchange` is `value.exchange(LOCKED_WAITERS)`, `FutexWait` the FUTEX_WAIT call
  with its atomic comparison (EAGAIN goes round the loop).  A sleeper leaves by
  `FutexWake` of another thread, by `Interrupted` (EINTR or a spurious return) or by
  `TimedOut`.
* `Unlock` is the `fetch_sub`; with a marked word the thread goes on to `Store` and
  `FutexWake`, the two steps of `wake()`.  A thread at `Store` still counts as inside
  the lock (`Owners`), as the comment in `wake()` says.
* `FutexWaitFails` and `FutexWakeFails` are the two places that throw.

The kernel is modelled from how the code uses it: comparison and enqueueing of
FUTEX_WAIT are one step, FUTEX_WAKE(1) picks any sleeper.

The callers keep the class's contract: who got the lock unlocks it, and an owner
may call `trylock` and `trylock_timeout` (as `src/tests/test_futex.cpp` does) but
not `lock`.

### FutexOrdering

`Futex` takes the accesses to the word in the order in which they modify it; for one word
there always is such an order.  What a weaker memory order may break is the data that the
lock protects.  `FutexOrdering` extends each step of `Futex` by what its memory order does:
`current` are the threads that know all writes to the data so far, `carries` says whether
an acquire that reads the word gets to know them, and `head` is the thread whose release
heads the release sequence.  An owner writes to the data before it unlocks, so after
`Release` it alone is current.

In a slow `unlock()` the word is freed not by the `fetch_sub` with release but by the relaxed
store of `wake()`.  That the next owner is ordered after it depends on whether a store
extends the release sequence of its own thread.  C++11 says so, and the `__atomic` built-ins
that `atomic.hpp` uses follow the C++11 model; C++20 has dropped the rule.  The constant
`StoresExtend` is this choice.  With `TRUE` the property holds; with `FALSE` TLC finds a
slow unlock after which the next owner is not current, so the code would need a release
store there if `Atomic` were ever rebuilt on `std::atomic` of C++20.

### FutexLifetime

The destructor of `Futex` does nothing, and `wake()` calls FUTEX_WAKE after it has freed
the word.  `FutexLifetime` adds the client for which this is hardest: the lock sits in an
object whose references it protects.  A thread gives up its reference in its last critical
section (`GiveUpReference`, which is an `Unlock`); who gave up the last one destroys the
object as soon as its own `unlock()` has returned (`Destroy`), whatever the others are still
doing.  `UntouchedOnceDestroyed` says what is guaranteed then, and what is not: nobody sleeps
on the word and nobody will read or write it, but another thread's `unlock()` may still hand
its address to FUTEX_WAKE.

### FutexSystem

`Futex` says at once what comes of `futex_wait()` and `futex_wake()`: a thread is asleep, a sleeper
goes on.  `FutexSystem` takes these two steps apart.  `SysWait` and `SysWake` are the calls with the
parameters the source gives them (`WaitCall`, `WakeCall`), and what they do is what `FutexCalls`
promises (`K`): who sleeps is in the kernel's `queue`, and all that comes back is a result and an
`errno`, which `AfterWait` tells apart as the loops of `wait()` and `wait_timeout()` do.  In the same
queue the threads sleep on other words, and move and wake each other there (`CallElsewhere`): the
word of a `Futex` is private to `FutexBase`, so nobody else can name it.  That this is the
`Futex` of the other modules is `ImplementsFutex`; with it the chain is complete: the six
arguments of `futex(2)` (`FutexBase`) give the promises of `FutexCalls`, these give `Futex`,
and `Futex` gives `Mutex`.  `FutexWaitFails` and `FutexWakeFails`, where the kernel refuses for reasons
of its own, stay as they are.

### FutexBase

`FutexArguments` has the parameters: `int` and `uint32_t` as numbers of `WordMod` values, and the
arguments of FUTEX_WAKE_OP, which are `uint16_t` but packed into 12 bits and taken for signed there
(`ArgMod` is 2^12, a `uint16_t` has 16 times as many values).  The callers may pass any number of
these types.  `Meaning` says what becomes of an operation: the lower 12 bits of each argument, as a
signed number; 4095 is -1, and so is 65535.  `WordBits` is 32, both the width of an `int` and what
the kernel masks the number of a bit by (`& 31`).  `FutexCalls` says what each call does in terms of
its own parameters: whom it wakes or moves, what it does to a word, what it answers.  It knows of no
registers.  Its `Asked` is the rule for counts: FUTEX_WAKE and FUTEX_WAKE_OP wake one thread
when they are asked for less, and they take `wakeups2`, a `uint32_t`, for an `int`, so that from
2^31 on it means one as well.

`FutexBase` does it the way the code does.  Each wrapper (`futex_wait` ... `futex_wake_bitset`)
is one `Syscall` with six arguments, of which the fourth is a timeout or a count and the sixth an
expected value, a bitset or the 32 bits that `Encode` packs; each has the casts of the source
(`Int32`).  The kernel (`KernelWait`, `KernelWake`, `KernelCmpRequeue`, `KernelWakeOp`,
`Decode`) takes them apart again and finds its sleepers by address and by the private flag.  It is
external, and modelled by its rules: the fourth argument is an `int` where it is a count, an empty
bitset is EINVAL, and so are a negative count or limit of FUTEX_CMP_REQUEUE, a changed word is EAGAIN,
a wake-up counts after the fact and so wakes one at least (`AtLeastOne`), FUTEX_WAKE_OP has signed
arguments.  `last` is the history of the latest call
and its answer, so that the refinement compares answers too.  A system call is one step; signals
and timeouts (`GiveUp`) and writes to the words (`Store`) come between.

### AbaWrapper and Stack

`AbaWrapper` holds the shared `word`, and per thread the `cache` that `modify()`
works on, the halves of the word that are still `unread`, and whether its exclusive
`monitor` is set.  `Dwcas` chooses the platform as `if constexpr` does.

* The two halves of a double-word load are read one by one in either order, since
  `CMakeLists.txt` doubts that the SSE load is atomic without AVX.  The runs and the
  proofs therefore say: `modify()` is right *even if it is not*.
* `Commit` is the successful conditional store, `Retry` the failed one: with DWCAS
  it refreshes the cache and runs the function again, with LL/SC it loads again.
  `SpuriousFailure` is the exclusive store that fails without a writer.
* The counter counts modulo `CounterMod`.  `NotLapped` is the one assumption about
  its width: no attempt stays under way for a whole round (2^64 commits, or 2^32
  where the counter has 32 bit).

`Stack` puts the functions of `push()` and `pop()` between load and commit: `Link`
writes the cached top into the block, `ReadLink` reads the link out of the cached
top, which may be another thread's block by now, `ReturnNull` sees no top.  `next` is
the first word of each block; `UseBlock` is an owner that writes into its block at any
time, junk or a pointer to any block (`Writes`), as a push onto another stack does;
`HandOver` gives a block to another thread without this stack, as the workers of
`src/tests/test_stack.cpp` do by way of other stacks.  `holds` and `items` are history variables: who owns which block, and
the stack as a sequence.  `push(nullptr)` throws before it touches anything and is
left out.

The refinement of `LifoStack` maps a `pop()` that has read a null top to a call
that is bound to return null, so that each call takes effect at one instant.

### StackReclaim

`pop()` reads the first word of the top block it has seen (`src/stack.cpp:49`), and that block may
belong to another thread by then, or to the allocator.  The class has no rule for this; the tests
(`src/tests/test_stack.cpp:98`) free blocks only after all threads that pop have been joined.
`StackReclaim` states a rule of its own, one block at a time, of which the tests' way is the
simplest case: an owner may `Free` a block when every `pop()` that was under way at the moment it was
popped has returned (`grace`), and the allocator may give it to anyone again (`HandOver`,
`Allocate`).  `NoUseAfterFree` says that this is enough; its mutant, an owner that
frees a block as soon as `pop()` has returned it, is a use after free that the class does not prevent.

### ConcurrentPtr

`ConcurrentPtr` extends `AbaWrapper` too; the function of `set()` ignores the old
pointer, so `SetCommit` and `SetRetry` follow the load directly.  `ReturnHalf` is
`get()` or `get_counter()`: one load, of which one half is returned, so a torn load does
not matter there.  The history variable `behind` records, for each call, which halves
it had read when another `set()` changed the word.  It states what `modify()` is for,
independently of what it computes: `StoresJudgedRight` says that a store succeeds only if
no store came in between, and fails only if one did.  The first half rules out ABA, the
second is the step that makes the loop lock-free.

### DoubleWord

`memory` is the number that the two halves spell, `expected` and `desired` are the
register pairs of `cmpxchg`.  The preprocessor chooses the form of load and store for each
translation unit; each call may take any of the `Forms` in use, so that they meet on one word:

* `movq`: the 2 x 32 bit functions on x86-64 move the word between memory and one 64 bit register,
  and pack and unpack it with `shlq` and `shldq` (`Pack`, `Unpack`).  The upper halves of the
  registers may hold anything (`RegistersWith`, and any `rdx` in `LoadByMove`).
* `sse`: the 2 x 64 bit functions where SSE is on, which is what `src/CMakeLists.txt` builds.  A
  `movdqa` is one access on processors with AVX; `src/CMakeLists.txt:51-52` doubts it of others.
  So `LoadSseHalf` and `StoreSseHalf` take the two halves in either order, with or without somebody
  in between (`todo`).
* `cmpxchg`: the fallback.  The load compares with whatever is in the registers, the
  store reads the halves one by one (`StoreReadLow`, `StoreReadHigh`) and loops
  (`StoreByCmpXchg`).  This is also the i686 form of the 2 x 32 bit functions.

`AtomicPair` promises one instant for each load, store and exchange, and one instant for each half
where `Splits` allows it.  Two history variables say more: `overtaken` are the threads in the fallback
store for which the word has changed since they looked at it, and `given` are the pairs that
were ever given to be stored.  With them `RefusedOnlyIfOvertaken` says that the fallback store
has no failures of its own making, and `NothingTorn` that whatever is found was somebody's pair.

**A finding.** The header says of both SSE moves "128 bit aligned SSE read (write), atomic", and
`src/CMakeLists.txt` turns them on for every processor from x86-64-v2, where it says
"probably needs AVX to be atomic".  The run `pair_sse` shows what the difference is: between the two
halves of a store another thread's compare-and-swap finds a pair that nobody stored.  The library itself takes
no harm: `ABA_Wrapper` stores this way only in its constructor
(`src/concurrentfw/aba_wrapper.hpp:85`), before other threads have the word, and its loads may
be torn, as `AbaWrapper` assumes.  Who calls `atomic_dw_store` directly has to know.  Without
the SSE form `NothingTorn` is a theorem (`NothingTornWithoutSse`).

### ExclusivePair

The pair functions for Arm, which callers may use in any order with any values.  `monitor` are
the threads whose exclusive monitor is set; any successful store clears it for all, and `Abort`
(`clrex`) and `StoreFails` for one.  On AArch64 the two words come one by one (`LoadFirst`,
`LoadSecond`): `ldaxp` of two 64 bit words is atomic only if the store that follows succeeds.  On
32 bit Arm they are the halves of one 64 bit number (`LoadRegisterPair`, `Pack`, `Unpack`).  The
history variables `loaded` and `stored` carry what a caller believes to have exchanged.

### Sysconf

One static, the name it asks for, and the threads that use it or call `sysconf<T>()` themselves.
`Enter` is the guard the compiler puts around the initialization: "unset", "busy" while one thread
runs it and the others wait, "set" after it returned, and "unset" again after it threw (`Throw`).
`ResetErrno`, `Ask` and the two ends are the lines of the template; `errno` is per thread
and starts each call with anything in it.  `Ask` is `::sysconf()`: an error may befall any call; otherwise
the answer is the system's limit, or -1 with `errno` untouched where it has none.

## 3. Runs

| Run | Instance | Shows |
|---|---|---|
| `futex_safety` | 4 threads, symmetric, `StoresExtend` | types, mutual exclusion, the word tells whether there is an owner, no forgotten sleeper; every owner sees what earlier owners wrote |
| `futex_lifetime` | 3 threads, fair | every step is a step of `Mutex` or a stutter; when callers stop, every call ends and the lock is free; nobody touches a destroyed lock |
| `futex_base` | 3 threads, 2 words, symmetric, arguments of 3 bits | every call of `FutexBase` does and answers what its parameters say |
| `futex_system` | 3 threads, 1 other word, symmetric, arguments of 3 bits | the kernel's queue holds the sleepers of the `Futex` with their timeouts; results and `errno` make it the `Futex` of the other runs |
| `stack_dwcas` | 3 threads, 2 blocks, counter mod 4 | chain intact, blocks conserved, no stale commit, linearizable |
| `stack_llsc` | 3 threads, 2 blocks, owners write pointers too, fair | the same over exclusive loads and stores; calls keep completing unless stores fail spuriously for ever |
| `stack_reclaim` | 2 threads, 2 blocks, counter mod 5, fair | freed blocks are not touched; calls keep completing |
| `ptr_dwcas` | 3 threads, 2 pointer values, counter mod 3 | stores judged right, atomic register with a count of sets |
| `pair` | 2 threads, halves of 2 values, all three forms, fair | moves and fallbacks on one word implement `AtomicPair`; the fallback store is refused only if overtaken, and leaves its loop |
| `pair_sse` | 2 threads, halves of 2 values, SSE only | *violated*: `NothingTorn`, the finding above |
| `exclusive_pair` | 3 threads, words of 3 values | a set monitor vouches for what was read; a store that returns true exchanged what was loaded |
| `sysconf` | 3 threads, 2 errors, a limit or none, fair | one answer, no exception without an error of one's own, every call ends |

**Bounds.** The futex has no counters, its state space is finite for any number of
threads.  Three threads give an owner, a sleeper and a thread that barges in; the
fourth gives two sleepers besides a woken thread, which is what a wake-up that is
not passed on needs to go unnoticed.  The classic ABA pattern needs one stale thread and
another that pops two blocks and pushes one back: three commits, which a counter
modulo 4 admits before it would lap the stale thread, and it wraps many times in
every run.  For `Concurrent_Ptr` two commits make an ABA (the pointer changes and changes
back), which a counter modulo 3 admits.  Halves of two values give double words of four, so
that a shift by one digit too few or too many shows, and two threads give the fallback store a
torn read with a store or an exchange in between; the proofs are for all widths.
`Concurrent_Ptr` over exclusive loads and stores has no run of its own: its theorems hold for both
platforms, and `stack_llsc` checks the same steps of `AbaWrapper`.

For `FutexBase`, arguments of 3 bits have a sign that a narrower mask would cut off, and words
of 14 bits are wide enough for the encoding.  `Values` bounds the words (`KernelWakeOp` is
not taken where it would leave them), the counts are negative, none, one and more than one, the
bitsets empty, one bit and the sign bit, the limits (and second counts) none, one and the first that is
negative as an `int`.  Every operation and every comparison occurs, with arguments of either sign, a
negative number of a bit, and numbers beyond the bits that are used.  Three threads give a caller and two
sleepers, of which one is woken and one moved.  `View` leaves out `last`, which no step reads;
`ImplementsFutexCalls` is still judged on every step, with the answer it gives.

`futex_system` has fewer parameters, since `futex_base` has them all: one value for each bitset,
count, limit and operation, and the three values of a futex word.  Three threads give a waker, a sleeper
on the word and one on the other.  Its `View` leaves out `last`, which no step reads.
A use after free takes two threads, one that has seen the top and one that pops and frees it.

**Deadlock** is checked in every run but `futex_lifetime`, where the system stops by design
once the lock is destroyed.

**Fairness.** `futex_lifetime` assumes weak fairness of `LifeAdvance(t)`, for each thread:
the thread is scheduled, its timer expires, and it ends its critical section, whether or not that is
its last one.  Threads that never give up their reference are among its behaviours, so its
promises hold of a lock that nobody destroys.
Nothing is assumed of who starts calls, which sleeper is woken, or of signals and
errors.  The property lets callers that never stop, a `wake()` that threw, and
signals that never stop void the promise; the last is needed because every EINTR
starts the wait of `trylock_timeout()` again with the full timeout
(`src/futex.cpp:69`).  `stack_llsc` assumes weak fairness of `Step(t)` and `stack_reclaim` of `Proceed(t)`: a
thread inside a call is scheduled.  Spurious failures are not assumed to end;
the property excepts executions where they never do.  `pair` assumes the same;
its property excepts executions in which the word keeps changing.  `sysconf` assumes weak fairness of
every thread that is in a call and not held up by the guard; its property excepts executions in which
`::sysconf()` goes on failing, since each failure may let another thread in first.

Each property is accompanied by a mutant of the code it is about (the definitions
commented "Mutant of"), under which TLC finds it violated.

## 4. Proofs

All theorems hold for any set of threads (and blocks), any `CounterMod` > 2 and both platforms,
any width and mixture of forms of a double word, and any parameters of the futex calls; they assume only that the
model values are different and the numbers in range (`NoThreadAssumption`, `PointerAssumption`,
`TargetAssumption`, `PlatformAssumption`, `WidthAssumption`, `FormsAssumption`, `HalfAssumption`,
`RuleAssumption`, `ArgAssumption`, `BitsAssumption`, `CallsAssumption`, `WordAssumption`, `SysconfAssumption`).  `WordAssumption` also says
that the bitset of all bits overlaps itself: true of every `ArgMod`, but a fact about the
recursive function `And`, whose value the prover cannot compute; TLC evaluates it.  It
also says that there are finitely many threads, without which the kernel could not count its sleepers.

**`FutexProofs`.** `Inv` = `TypeOK`, `MutualExclusion`, `WordTracksOwner` and
`CallStructure`.  Exclusion alone is not inductive: `unlock()` must find the word at
1 or 2, which is `WordTracksOwner`, and the store of `wake()` must free a lock that
nobody holds any more, which is `CallStructure`.  `NoLostWakeup` is inductive relative
to `Inv`: the case that matters is `Unlock` of an unmarked word, where a sleeper can exist
only if a thread that is awake will mark or take the word.  `FutexImplementsMutex`
maps the owner to the one element of `Owners`.  `NobodySleepsOnFreeLock` is the safety half of
`CallsDrain`: a free lock with a sleeper has somebody about to act.

**`FutexUseProofs`.** Three parts, each of which starts from the `Inv` of `FutexProofs`.  The steps of
`FutexOrdering` and `FutexLifetime` are steps of `Futex` by definition (`OrderedStepIsStep`,
`LifeStepIsStep`); those of `FutexSystem` are so only because the queue and the `errno` of the calls
say the right thing, which is the theorem `SystemImplementsFutex`.

* `FutexOrdering` adds `WordCarries`: a free word carries all writes, and so
  does one whose owner is about to free it, who is then the head of the release sequence.
  `CriticalSectionsOrdered` assumes `StoresExtend`.
* `FutexLifetime` adds that a thread without a
  reference is idle or on its way out of `unlock()` (`Released`), and that once nobody has one, only
  the destroyer can still be at the store of `wake()` (`LastOneOut`); the latter is where mutual
  exclusion is needed.
* `FutexSystem` adds `QueueInv`: who is asleep in `Futex` is in the queue as `WaitCall` put it there,
  with all bits in its mask, and everybody else in the queue is on another word.  So FUTEX_WAKE
  finds exactly the sleepers, picks one if there is one (`OneOf`), and its result is never
  negative; EAGAIN comes exactly when the word is not marked, and ETIMEDOUT never to
  `lock()`.  Calls on other words neither take sleepers away nor bring any
  (`CallElsewhereKeepsQueueInv`).  `SystemUsesFutexCalls` is the other direction of the
  composition: all that happens to words and queue is calls of `FutexBase`.

**`FutexBaseProofs`.** The arithmetic first: `CastAndBack` takes a `uint32_t` through an `int`,
`OperationSurvives` an operation through `Encode`, the `int` and `Decode`, which leave its `Meaning`,
for any `uint16_t` arguments and any even `ArgMod`, and `CountsAsAsked` any count through the kernel's
`int`.
`Inv` adds to the types that every sleeper has a private key, so that an address is enough to find it.
Then each call is a step of `FutexCalls`.

**`StackProofs`.** `Inv` = `TypeOK`, `ChainIntact`, `OnePlace` (each block in one
place) and `CallKnows`.  Its heart is the notion `Fresh(t)`: the conditional store
of `t` would still succeed.  While `t` is fresh, the link it has read is the link of
the top block, because the top block belongs to nobody and owners write only into
their own; and a commit of another thread ends freshness, because it clears the
monitors or moves the counter to a value that no attempt has cached (`NotLapped`).
From it follow that the chain is intact, that no stale store succeeds
(`NoCommitIsStale`, the ABA theorem), and that every step is a step of `LifoStack`.
For `StackReclaim`, whose steps are steps of `Stack` by definition (`ReclaimStepIsStep`), all of
this carries over, and `ReclaimInv` adds `GraceCovers`: a
block that a `pop()` has in its cache is on the stack, or that `pop()` is in the block's
`grace`.  This is inductive because a load sees the top, which is on the stack, and because the step that
takes a block off the stack starts its grace with everyone who may have seen it.

**`ConcurrentPtrProofs`.** `Inv` = `TypeOK`, a counter that is 0 where there is none, and
`Knows(t)`: a half of the cache that no store came behind equals the word's, a counter that
one came behind differs (`NotLapped`), and the monitor is set exactly while the loaded word
is untouched.  `AttemptsJudgedRight` reads off it, and `ConcurrentPtrImplementsRegister`
follows as `SetCommit` increments the counter in force.

**`DoubleWordProofs`.** The arithmetic first: `UnpackRight` and `PackRight` show that the
shifts return the halves for every width and all register contents.  `Inv` adds to the types that
registers are empty outside their calls (`CallInv`), that who is in the fallback store and not
`overtaken` knows what is in the word (`LooksInv`), and that without SSE stores the word holds a
`given` pair (`GivenInv`).  `RefusalsHaveACause` reads off the second, `NothingTornWithoutSse` the third.
Then every step is a step of `AtomicPair`, the SSE halves those of its split loads and stores, or
a stutter.

**`ExclusivePairProofs`.** The arithmetic of 32 bit Arm first: `WordsSurviveNumber` says that two words
fit the double-width number they are moved as and come out of it in their order.  `Inv` adds to the
types `MonitorMeansCurrent`, and that a load under way has one word left to read: if the monitor
is still set when the second word comes, the first one is still what is in memory, so
the pair is (`WordByWord`), and a store that succeeds exchanges it.

**`SysconfProofs`.** `Answered` follows `errno`: it is zero when `::sysconf()` is asked, so what
is found after it tells an error from an indeterminate limit.

**Only model-checked.** `CallsDrain`, `LockFree`, `StoreGetsThrough` and `CallsEnd` are liveness
under fairness, which the prover does not handle.  Every other property of the passing runs is the
statement of a theorem.  What the recursive function `And` computes is evaluated by TLC only; the
proofs about `FutexBase` hold whatever it is.

## 5. Not modelled

* Memory orders of the stack and of `Concurrent_Ptr`: their primitives are locked
  instructions on x86 and acquire/release exclusives on Arm, and are taken as sequentially
  consistent.  Reads of stale values in general: only what happens before what, for the futex.
* How a program finds out that the `pop()` calls of a time are over (`grace`): the library has no
  means for it.  What a program without one may do is free blocks after its threads have stopped, as
  the tests do, which is one way to satisfy the rule.
* What the kernel does with a FUTEX_WAKE of an address that is no lock any more.
* The other members of `Atomic<T>` and the fences: each hands its arguments to one compiler
  built-in and nothing in the library calls them.
* The 32 bit Arm constraint that the registers of a pair be consecutive (a TODO in
  `atomic_asm_arm.hpp`): the assembler refuses such code, it does not run.
* The test programs; what their workers do is among what the callers in `Futex` and `Stack` may do.
* Version constants and build files.

## 6. Plan

Every class of the library is modelled.  What could follow:

1. The safety core of lock-freedom for `Stack`, as `StoresJudgedRight` is for `Concurrent_Ptr`: an
   attempt fails only if another call took effect since it loaded the word.
2. The workers of `src/tests/test_futex.cpp` composed with `Futex`.
