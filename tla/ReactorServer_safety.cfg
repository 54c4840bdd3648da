\* Linux reuses the number as soon as it is closed; two sub loops.
CONSTANTS
  numThreads = 2
  Conns = {c1, c2, c3, c4}
  NoConn = none
  Listen = listen
  maxFd = 3
SPECIFICATION Spec
SYMMETRY ConnSymmetry
INVARIANTS ReactorTypeOK ChannelAliveWhenUsed NoDanglingEvent OpenFdIsServed EntriesAreOpen
PROPERTY ImplementsLife
\* The clients may have no more connections to open.
CHECK_DEADLOCK FALSE
