\* Two clients that send up to two pieces each, of one read() or more, or leave.
CONSTANTS
  Conns = {c1, c2}
  NoConn = none
  ReadSize = 2
  MaxSends = 2
  MaxPiece = 3
SPECIFICATION FairSpec
INVARIANTS TypeOK OnlyDividedOrLongAreCut
PROPERTY QueueMoves
\* The clients may have nothing more to do, or SIGPIPE has ended the server.
CHECK_DEADLOCK FALSE
