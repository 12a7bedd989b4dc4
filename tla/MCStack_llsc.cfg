\* Arm: exclusive loads and stores, which may fail for no reason, under fair
\* scheduling.
CONSTANTS
  Threads = {t1, t2, t3}
  Blocks = {b1, b2}
  Null = Null
  Junk = Junk
  Writes = {b1, b2, Null, Junk}
  Dwcas = FALSE
  CounterMod = 3
SPECIFICATION FairSpec
INVARIANT ChainIntact
INVARIANT BlocksConserved
PROPERTY ImplementsLifoStack
PROPERTY LockFree
