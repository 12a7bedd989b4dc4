\* Two threads that load and store by SSE, as CMakeLists.txt builds them.
CONSTANTS
  Threads = {t1, t2}
  Half = 2
  Forms = {"sse"}
SYMMETRY Symmetry
SPECIFICATION Spec
PROPERTY NothingTorn
