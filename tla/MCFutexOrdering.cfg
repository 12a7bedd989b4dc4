\* Four threads on one futex: every interleaving of the three acquiring calls,
\* unlock(), signals, timeouts and failing system calls, with the memory orders
\* of the code and the release sequences of C++11.
CONSTANTS
  Threads = {t1, t2, t3, t4}
  NoThread = NoThread
  StoresExtend = TRUE
SYMMETRY Symmetry
SPECIFICATION OrderedSpec
INVARIANT TypeOK
INVARIANT MutualExclusion
INVARIANT WordTracksOwner
INVARIANT NoLostWakeup
INVARIANT OwnersAreCurrent
