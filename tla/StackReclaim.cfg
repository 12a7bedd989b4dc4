\* x86 under fair scheduling: owners free the blocks they have popped.
CONSTANTS
  Threads = {t1, t2}
  Blocks = {b1, b2}
  Null = Null
  Junk = Junk
  Writes = {Junk}
  Dwcas = TRUE
  CounterMod = 5
SPECIFICATION ReclaimFairSpec
INVARIANT NoUseAfterFree
PROPERTY LockFree
