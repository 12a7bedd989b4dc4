\* Two threads under fair scheduling, each call by any of the forms.
CONSTANTS
  Threads = {t1, t2}
  Half = 2
  Forms = {"movq", "sse", "cmpxchg"}
SPECIFICATION FairSpec
PROPERTY ImplementsAtomicPair
PROPERTY RefusedOnlyIfOvertaken
PROPERTY StoreGetsThrough
