\* Three threads on two futexes: all calls of FutexBase.
CONSTANTS
  ArgMod = 8
  WordBits = 14
  Threads = {t1, t2, t3}
  Words = {w1, w2}
  Values <- MCValues
  Masks <- MCMasks
  Counts <- MCCounts
  Limits <- MCLimits
  Operations <- MCOperations
SYMMETRY Symmetry
VIEW View
SPECIFICATION Spec
INVARIANT TypeOK
PROPERTY ImplementsFutexCalls
