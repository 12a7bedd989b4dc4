\* Three threads share an object that contains the futex, under fair scheduling:
\* its calls are those of the abstract lock and come to an end, whether or not
\* threads give up their references.
CONSTANTS
  Threads = {t1, t2, t3}
  NoThread = NoThread
SPECIFICATION LifeFairSpec
INVARIANT UntouchedOnceDestroyed
PROPERTY ImplementsMutex
PROPERTY CallsDrain
CHECK_DEADLOCK FALSE
