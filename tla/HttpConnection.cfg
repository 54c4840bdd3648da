\* Requests of every kind, from a client that waits for its answers or not.
CONSTANTS
  Kinds = {"keep", "close", "badLine", "badHeader", "large"}
  MaxRequests = 2
  Pipelining = TRUE
  ClientLeaves = TRUE
  kMaxRequestSize = 3
  SndBuf = 1
SPECIFICATION FairSpec
INVARIANTS TypeOK EpolloutWhileUnfinished ResponsesWhole OneResponsePerRequest ReadyForNextRequest PoliteCloseIsKept OnlyRefusalsAreLost
PROPERTY EveryRequestAnswered
\* The client may have nothing more to send, or the connection is closed.
CHECK_DEADLOCK FALSE
