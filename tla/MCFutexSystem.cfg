\* Three threads share a Futex and call FutexBase on another word.
CONSTANTS
  ArgMod = 8
  WordBits = 14
  Threads = {t1, t2, t3}
  NoThread = NoThread
  Word = w1
  Words = {w1, w2}
  Values = {0, 1, 2}
  Masks = {1}
  Counts = {1}
  Limits = {1}
  Operations <- MCOperations
SYMMETRY Symmetry
VIEW View
SPECIFICATION SystemSpec
INVARIANT QueueTellsSleepers
PROPERTY ImplementsFutex
