\* x86: double-word compare-and-swap with a counter that wraps.
CONSTANTS
  Threads = {t1, t2, t3}
  Blocks = {b1, b2}
  Null = Null
  Junk = Junk
  Writes = {Junk}
  Dwcas = TRUE
  CounterMod = 4
SYMMETRY Symmetry
SPECIFICATION Spec
INVARIANT TypeOK
INVARIANT ChainIntact
INVARIANT BlocksConserved
PROPERTY NoStaleCommit
PROPERTY ImplementsLifoStack
