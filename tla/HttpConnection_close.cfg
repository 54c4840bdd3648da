\* A malformed request sent before the last response has been read.
CONSTANTS
  Kinds = {"keep", "badHeader"}
  MaxRequests = 2
  Pipelining = TRUE
  ClientLeaves = FALSE
  kMaxRequestSize = 3
  SndBuf = 2
SPECIFICATION Spec
INVARIANT ClosesAfterCloseResponse
\* The client may have nothing more to send, or the connection is closed.
CHECK_DEADLOCK FALSE
