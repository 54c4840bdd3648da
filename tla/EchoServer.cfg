\* More connections than descriptors, clients that may send or stay silent.
CONSTANTS
  Conns = {c1, c2, c3}
  NoConn = none
  Listen = listen
  maxFd = 2
  MaxSends = 1
SPECIFICATION FairSpec
INVARIANTS TypeOK PointersAreOwned
PROPERTIES SenderIsAnswered WaitingIsAccepted LeavingFreesFd
\* The clients may have nothing more to send.
CHECK_DEADLOCK FALSE
