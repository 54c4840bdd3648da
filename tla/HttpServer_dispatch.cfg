\* Linux reuses the number as soon as it is closed; two sub loops.
CONSTANTS
  numThreads = 2
  Conns = {c1, c2, c3}
  NoConn = none
  Listen = listen
  maxFd = 2
SPECIFICATION Spec
SYMMETRY ConnSymmetry
INVARIANT ChannelAliveDuringDispatch
\* The clients may have no more connections to open.
CHECK_DEADLOCK FALSE
