\* Two sub loops; a number is free again as soon as it is closed.
CONSTANTS
  numThreads = 2
  Conns = {c1, c2, c3}
  NoConn = none
  Listen = listen
  maxFd = 2
SPECIFICATION FairSpec
INVARIANTS TypeOK DanglesOnlyIfReused OpenFdIsServed
PROPERTIES ImplementsLife LifeGoesOn
\* The clients may have no more connections to open.
CHECK_DEADLOCK FALSE
