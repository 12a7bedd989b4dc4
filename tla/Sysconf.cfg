\* Three threads, two errors, a size_t of three values; a system with a limit
\* and one without.
CONSTANTS
  Threads = {t1, t2, t3}
  SizeMod = 3
  Errors = {1, 2}
  Limits = {1}
SPECIFICATION FairSpec
INVARIANT OneAnswer
INVARIANT ThrowsOnlyItsError
PROPERTY CallsEnd
