----------------------------- MODULE HttpRequest -----------------------------
(***************************************************************************)
(* The incremental parser, epoll-http-server/src/HttpRequest.{h,cpp}, fed  *)
(* by the reads of one connection.                                         *)
(*                                                                         *)
(* The unit of data is a token: the text of a line (what parseRequestLine  *)
(* and parseHeader look into), a CR, or an LF.  The client sends a head of *)
(* lines and then a payload; a read hands the parser any number of the     *)
(* tokens it has not read yet, so a line, its CR LF or the body may be cut *)
(* anywhere.  The client does not begin the head of the next request       *)
(* before reset(), but it may have sent more than the body it announced:   *)
(* what of that is read after reset() comes before the next request line.  *)
(***************************************************************************)
EXTENDS Naturals, Sequences, FiniteSets

CONSTANTS
  Texts,            \* texts of lines the client may send, see TextAssumption
  MaxLines,         \* BOUND: lines of a head
  MaxPayload,       \* BOUND: tokens after a head
  MaxUnread,        \* BOUND: tokens sent and not read yet
  kMaxRequestSize,  \* tokens the parser buffers
  kMaxHeaderCount

(* Request lines of the two versions, headers by key (and value), a header *)
(* with an invalid length, and a text that is neither.                     *)
RequestLines == {"HTTP/1.1", "HTTP/1.0"}
LengthOf == [length0 |-> 0, length1 |-> 1, length2 |-> 2]
ValidHeaders == DOMAIN LengthOf \cup {"close", "keep-alive", "host"}

ASSUME TextAssumption ==
  Texts \subseteq RequestLines \cup ValidHeaders \cup {"badLength", "garbage"}

ASSUME LimitAssumption ==
  {MaxLines, MaxPayload, MaxUnread, kMaxRequestSize, kMaxHeaderCount} \subseteq Nat

VARIABLES
  stray,     \* HISTORY: tokens sent behind the request before, not read then
  lines,     \* HISTORY: the texts of the lines of the head sent so far
  headEnded, \* HISTORY: has the empty line been sent?
  payload,   \* HISTORY: the tokens sent after it
  nread,     \* HISTORY: how many of all these tokens the parser was given
  request    \* the parser; ok is what the last parse() returned

vars == <<stray, lines, headEnded, payload, nread, request>>

Tokens == Texts \cup {"cr", "lf"}

----------------------------------------------------------------------------
NewRequest == [state |-> "kExpectRequestLine", buf |-> <<>>, version |-> "",
               headers |-> <<>>, body |-> <<>>, contentLength |-> 0, ok |-> TRUE]

Key(text) ==
  CASE text \in {"close", "keep-alive"} -> "connection"
    [] text \in DOMAIN LengthOf \cup {"badLength"} -> "content-length"
    [] OTHER -> text

(* parseRequestLine on the tokens of a line: the version is what follows   *)
(* the last space; what precedes the first one is the method, whatever it  *)
(* is, so a lone CR or LF in front of the request line goes into it.       *)
ParseRequestLine(p, line) ==
  IF line # <<>> /\ line[Len(line)] \in RequestLines
  THEN [p EXCEPT !.version = line[Len(line)], !.state = "kExpectHeaders"]
  ELSE [p EXCEPT !.ok = FALSE]

(* parseHeader: the last header of a key wins; then the count of headers,  *)
(* which is a count of keys.                                               *)
ParseHeader(p, text) ==
  LET keys    == DOMAIN p.headers \cup {Key(text)}
      headers == [k \in keys |-> IF k = Key(text) THEN text ELSE p.headers[k]]
  IN IF text \notin ValidHeaders
     THEN [p EXCEPT !.ok = FALSE]
     ELSE [p EXCEPT
            !.headers = headers,
            !.contentLength = IF text \in DOMAIN LengthOf THEN LengthOf[text] ELSE @,
            !.ok = Cardinality(keys) <= kMaxHeaderCount]

(* buf_.find("\r\n"): the positions of a CR that an LF follows.            *)
LineEnds(buf) == {i \in 1 .. Len(buf) - 1 : buf[i] = "cr" /\ buf[i + 1] = "lf"}

(* One line is taken off the buffer and parsed.                            *)
ParseLine(p) ==
  LET pos  == CHOOSE i \in LineEnds(p.buf) : \A j \in LineEnds(p.buf) : i <= j
      line == SubSeq(p.buf, 1, pos - 1)
      rest == [p EXCEPT !.buf = SubSeq(@, pos + 2, Len(@))]
  IN CASE p.state = "kExpectRequestLine" -> ParseRequestLine(rest, line)
       [] p.state = "kExpectHeaders" /\ line # <<>> -> ParseHeader(rest, Head(line))
       [] OTHER -> [rest EXCEPT !.state =
                      IF p.contentLength > 0 THEN "kExpectBody" ELSE "kGotAll"]

(* case kExpectBody.                                                       *)
TakeBody(p) ==
  IF Len(p.buf) < p.contentLength
  THEN p
  ELSE [p EXCEPT !.body = SubSeq(p.buf, 1, p.contentLength),
                 !.buf = SubSeq(p.buf, p.contentLength + 1, Len(p.buf)),
                 !.state = "kGotAll"]

(* A turn of the while loop of parse(); one that returns changes nothing   *)
(* more.                                                                   *)
Turn(p) ==
  CASE ~p.ok \/ p.state = "kGotAll" -> p
    [] p.ok /\ p.state = "kExpectBody" -> TakeBody(p)
    [] OTHER -> IF LineEnds(p.buf) = {} THEN p ELSE ParseLine(p)

(* The loop: after[n] is the parser after n turns.  A turn that does not   *)
(* return takes a token or more off the buffer.                            *)
ParseLoop(p) ==
  LET after[n \in Nat] == IF n = 0 THEN p ELSE Turn(after[n - 1])
  IN  after[Len(p.buf)]

FedWithoutLimit(p, data) ==      \* seeded fault: the size test is missing
  ParseLoop([p EXCEPT !.buf = @ \o data])

FedWithTightLimit(p, data) ==    \* seeded fault: >= for >
  IF Len(p.buf) + Len(data) >= kMaxRequestSize
  THEN [p EXCEPT !.ok = FALSE]
  ELSE ParseLoop([p EXCEPT !.buf = @ \o data])

(* parse(data, len).                                                       *)
Fed(p, data) ==
  IF Len(p.buf) + Len(data) > kMaxRequestSize
  THEN [p EXCEPT !.ok = FALSE]
  ELSE ParseLoop([p EXCEPT !.buf = @ \o data])

(* keepAlive(); getHeader gives "" for a key that is not there.            *)
KeepAlive(p) ==
  LET conn == IF "connection" \in DOMAIN p.headers THEN p.headers["connection"] ELSE ""
  IN IF p.version = "HTTP/1.1" THEN conn # "close" ELSE conn = "keep-alive"

----------------------------------------------------------------------------
(* The client.                                                             *)
StreamOf(head, ended, rest) ==
  [i \in 1 .. 3 * Len(head) |->
     CASE i % 3 = 1 -> head[(i + 2) \div 3]
       [] i % 3 = 2 -> "cr"
       [] OTHER -> "lf"]
    \o (IF ended THEN <<"cr", "lf">> ELSE <<>>)
    \o rest

Sent == StreamOf(lines, headEnded, payload)
Stream == stray \o Sent

Room(n) == Len(Stream) - nread + n <= MaxUnread

SendLine(text) ==
  /\ ~headEnded
  /\ Room(3)
  /\ Len(lines) < MaxLines
  /\ lines' = Append(lines, text)
  /\ UNCHANGED <<stray, headEnded, payload, nread, request>>

EndHead ==
  /\ ~headEnded
  /\ Room(2)
  /\ headEnded' = TRUE
  /\ UNCHANGED <<stray, lines, payload, nread, request>>

SendPayload(token) ==
  /\ headEnded
  /\ Room(1)
  /\ Len(payload) < MaxPayload
  /\ payload' = Append(payload, token)
  /\ UNCHANGED <<stray, lines, headEnded, nread, request>>

Init ==
  /\ stray = <<>>
  /\ lines = <<>>
  /\ headEnded = FALSE
  /\ payload = <<>>
  /\ nread = 0
  /\ request = NewRequest

(* onRead has read n tokens.  It does not call parse() again on a request  *)
(* that was refused, but does on one that is complete and not yet reset.   *)
Parse(n) ==
  /\ request.ok
  /\ request' = Fed(request, SubSeq(Stream, nread + 1, nread + n))
  /\ nread' = nread + n
  /\ UNCHANGED <<stray, lines, headEnded, payload>>

(* A complete request is answered and the next one begins, with what has   *)
(* not been read of the stream.                                            *)
NextRequest ==
  /\ request.ok
  /\ request.state = "kGotAll"
  /\ stray' = SubSeq(Stream, nread + 1, Len(Stream))
  /\ lines' = <<>>
  /\ headEnded' = FALSE
  /\ payload' = <<>>
  /\ nread' = 0

ResetKeepingLength ==            \* seeded fault: contentLength_ is kept
  /\ NextRequest
  /\ request' = [NewRequest EXCEPT !.contentLength = request.contentLength]

(* reset(), when the response has been sent: what is left in the buffer is *)
(* thrown away.                                                            *)
Reset ==
  /\ NextRequest
  /\ request' = NewRequest

(* The connection is closed, because the request was refused or the client *)
(* left; the next connection has a parser of its own.                      *)
NewConnection ==
  /\ stray' = <<>>
  /\ lines' = <<>>
  /\ headEnded' = FALSE
  /\ payload' = <<>>
  /\ nread' = 0
  /\ request' = NewRequest

Next ==
  \/ \E text \in Texts : SendLine(text)
  \/ EndHead
  \/ \E token \in {"cr", "lf"} : SendPayload(token)
  \/ \E n \in 1 .. Len(Stream) - nread : Parse(n)
  \/ Reset
  \/ NewConnection

Spec == Init /\ [][Next]_vars

----------------------------------------------------------------------------
(* What was sent, read as a request without a parser: the lines of which   *)
(* all three tokens have been read, the headers among them, whether the    *)
(* head has been read, and how much of the payload.                        *)
SmallerOf(a, b) == IF a < b THEN a ELSE b
SentRead == IF nread < Len(stray) THEN 0 ELSE nread - Len(stray)
Received == SubSeq(lines, 1, SmallerOf(SentRead \div 3, Len(lines)))
Headers == IF Received = <<>> THEN <<>> ELSE Tail(Received)
HeadRead == headEnded /\ SentRead >= 3 * Len(lines) + 2
PayloadRead == SubSeq(payload, 1, SentRead - (3 * Len(lines) + 2))

(* The last header with a key, or default.                                 *)
LastOf(key, default) ==
  LET found == {i \in DOMAIN Headers : Key(Headers[i]) = key}
  IN IF found = {} THEN default
     ELSE Headers[CHOOSE i \in found : \A j \in found : j <= i]

BodyLength == LengthOf[LastOf("content-length", "length0")]

(* A line that does not parse, too many different headers, or a line with  *)
(* no text in place of the request line.                                   *)
Malformed ==
  \/ \E i \in LineEnds(stray) : i + 1 <= nread
  \/ Received # <<>> /\ Head(Received) \notin RequestLines
  \/ \E i \in DOMAIN Headers : Headers[i] \notin ValidHeaders
  \/ Cardinality({Key(Headers[i]) : i \in DOMAIN Headers}) > kMaxHeaderCount
  \/ HeadRead /\ lines = <<>>

Complete == HeadRead /\ Len(PayloadRead) >= BodyLength

SentKeepAlive ==
  IF Head(Received) = "HTTP/1.1" THEN LastOf("connection", "") # "close"
                                 ELSE LastOf("connection", "") = "keep-alive"

(* Types, and the buffer never exceeds kMaxRequestSize however much the    *)
(* client sends (HttpRequest.cpp:28-31).                                   *)
TypeOK ==
  /\ stray \in Seq({"cr", "lf"})
  /\ lines \in Seq(Texts)
  /\ headEnded \in BOOLEAN
  /\ payload \in Seq({"cr", "lf"})
  /\ nread \in 0 .. Len(Stream)
  /\ request.state \in {"kExpectRequestLine", "kExpectHeaders", "kExpectBody", "kGotAll"}
  /\ request.buf \in Seq(Tokens)
  /\ Len(request.buf) <= kMaxRequestSize
  /\ request.contentLength \in Nat
  /\ request.ok \in BOOLEAN

(* "one read may return half a message; call parse until gotAll() is true" *)
(* (HttpRequest.cpp:24-26): a request that is not refused is parsed into   *)
(* what was sent, however the reads cut it and whatever the request before *)
(* it was.  It is complete exactly when its last token has been read, and  *)
(* what follows it is left in the buffer.                                  *)
ParsedAsSent ==
  request.ok =>
    /\ ~Malformed
    /\ request.state = "kGotAll" <=> Complete
    /\ Complete =>
         /\ request.body = SubSeq(PayloadRead, 1, BodyLength)
         /\ request.buf = SubSeq(PayloadRead, BodyLength + 1, Len(PayloadRead))
         /\ KeepAlive(request) = SentKeepAlive
    /\ \A i \in DOMAIN Headers :
         request.headers[Key(Headers[i])] = LastOf(Key(Headers[i]), "")

(* parse() refuses a request only because it is malformed or because more  *)
(* than kMaxRequestSize has been read: never a well-formed short one that  *)
(* arrived in an unlucky way (HttpRequest.cpp:28-31, 60-61).               *)
RefusedForAReason == ~request.ok => Malformed \/ nread > kMaxRequestSize
=============================================================================
