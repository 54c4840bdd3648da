\* Up to three headers where two keys are allowed; a read may be larger than
\* what fits the parser's buffer.
CONSTANTS
  Texts = {"HTTP/1.1", "HTTP/1.0", "close", "keep-alive", "length0", "length2",
           "badLength", "host", "garbage"}
  MaxLines = 4
  MaxPayload = 4
  MaxUnread = 6
  kMaxRequestSize = 5
  kMaxHeaderCount = 2
SPECIFICATION Spec
INVARIANTS TypeOK ParsedAsSent RefusedForAReason
