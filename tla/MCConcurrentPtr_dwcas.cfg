\* x86: a counter that wraps, and loads that may tear.
CONSTANTS
  Threads = {t1, t2, t3}
  Targets = {p1}
  Null = Null
  Dwcas = TRUE
  CounterMod = 3
SYMMETRY Symmetry
SPECIFICATION Spec
PROPERTY StoresJudgedRight
PROPERTY ImplementsRegister
