\* Three threads, two words of three values each.
CONSTANTS
  Threads = {t1, t2, t3}
  Half = 3
SPECIFICATION Spec
INVARIANT MonitorMeansCurrent
PROPERTY ExchangesWhatWasLoaded
