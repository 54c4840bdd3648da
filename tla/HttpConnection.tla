--------------------------- MODULE HttpConnection ---------------------------
(***************************************************************************)
(* The bytes of one HttpServer connection: Channel::handleEvent, onRead,   *)
(* onWrite and sendResponse (epoll-http-server/src/HttpServer.cpp), with   *)
(* the request parser, the kernel's socket buffers and the client.         *)
(*                                                                         *)
(* All handlers of a connection run on one thread, so each is one action.  *)
(* A request is two units of data, its request line with the headers up to *)
(* Connection and the rest of the headers, and for a large one the body.   *)
(* A response is two units, the short 400 one.                             *)
(* Reads and arrivals stop at any unit, and a write takes the units the    *)
(* socket's send buffer has room for, until the client reads them.         *)
(***************************************************************************)
EXTENDS Naturals, Sequences, FiniteSets, SequencesExt

CONSTANTS
  Kinds,           \* the requests the client may send, see KindAssumption
  MaxRequests,     \* BOUND: requests the client sends
  Pipelining,      \* may there be one that does not wait for its answers?
  ClientLeaves,    \* may it shut its side down, or reset the connection?
  kMaxRequestSize, \* units of data the parser buffers
  SndBuf           \* units of data the socket's send buffer holds

(* "keep" and "close" are well formed HTTP/1.1 requests, the second with   *)
(* Connection: close, and parse() accepts them.  The request line of       *)
(* "badLine" does not parse; nor does a header in the second unit of       *)
(* "badHeader", or it is one too many.  "large" is well formed, with a     *)
(* body longer than kMaxRequestSize.                                       *)
ASSUME KindAssumption ==
  Kinds \subseteq {"keep", "close", "badLine", "badHeader", "large"}

ASSUME ConnectionAssumption ==
  /\ MaxRequests \in Nat
  /\ kMaxRequestSize \in Nat \ {0}
  /\ SndBuf \in Nat \ {0}
  /\ Pipelining \in BOOLEAN
  /\ ClientLeaves \in BOOLEAN

VARIABLES
  polite,      \* the client sends no request before the last was answered
  kinds,       \* the client: the kinds of the requests it has begun
  left,        \* the client: units of the last one that are not sent yet
  client,      \* "open", "half" (has sent FIN), "reset" (has sent RST), or
               \* "gone" (reset, and a read has returned the error)
  inbox,       \* the kernel: units that arrived and have not been read
  sent,        \* HISTORY: units of responses handed to the kernel, in order
  unread,      \* how many of them the client has not read yet
  state_,      \* the parser's state
  buf_,        \* the parser's buffer
  reqKeepAlive,\* what request.keepAlive() returns
  responses,   \* HISTORY: responses generated, by their keepAlive_
  writeBuf,    \* what is left of the response being written
  writing,     \* EPOLLOUT is enabled
  closing,     \* removeConnection has run
  killed       \* SIGPIPE has ended the process

server == <<state_, buf_, reqKeepAlive, responses, writeBuf, writing, closing,
            killed>>
vars == <<polite, kinds, left, client, inbox, sent, unread, server>>

State == {"kExpectRequestLine", "kExpectHeaders", "kExpectBody", "kGotAll"}

(* Part 3 is what is left of a unit after a line of it did not parse, part *)
(* 4 a unit of a body: a line that is no request line and no header.       *)
InUnit == [kind : Kinds, part : {1, 2, 3, 4}]
OutUnit == [response : Nat \ {0}, last : BOOLEAN]

(* The Content-Length of a large request, in units.                        *)
BodyLength == kMaxRequestSize + 1

Units(kind) == IF kind = "large" THEN BodyLength + 2 ELSE 2

Unit(kind, i) == [kind |-> kind, part |-> IF i <= 2 THEN i ELSE 4]

Init ==
  /\ polite \in {TRUE, ~Pipelining}
  /\ kinds = <<>>
  /\ left = 0
  /\ client = "open"
  /\ inbox = <<>>
  /\ sent = <<>>
  /\ unread = 0
  /\ state_ = "kExpectRequestLine"
  /\ buf_ = <<>>
  /\ reqKeepAlive = FALSE
  /\ responses = <<>>
  /\ writeBuf = <<>>
  /\ writing = FALSE
  /\ closing = FALSE
  /\ killed = FALSE

----------------------------------------------------------------------------
(* The client.  It has seen an answer when it has read its last unit.      *)
Answered == Cardinality({i \in 1 .. Len(sent) - unread : sent[i].last})

BeginRequest(kind) ==
  /\ client = "open"
  /\ left = 0
  /\ Len(kinds) < MaxRequests
  /\ polite => Answered = Len(kinds)
  /\ kinds' = Append(kinds, kind)
  /\ left' = Units(kind) - 1
  /\ inbox' = Append(inbox, Unit(kind, 1))
  /\ UNCHANGED <<polite, client, sent, unread, server>>

SendMore ==
  /\ client = "open"
  /\ left > 0
  /\ left' = left - 1
  /\ LET kind == Last(kinds)
     IN inbox' = Append(inbox, Unit(kind, Units(kind) - left + 1))
  /\ UNCHANGED <<polite, kinds, client, sent, unread, server>>

(* The connection is reset: what the kernel still held is thrown away.     *)
ResetByClient ==
  /\ ClientLeaves
  /\ client \in {"open", "half"}
  /\ client' = "reset"
  /\ inbox' = <<>>

(* shutdown(SHUT_WR) or close(), or a reset.                               *)
Leave ==
  /\ \/ /\ ClientLeaves
        /\ client = "open"
        /\ client' = "half"
        /\ UNCHANGED inbox
     \/ ResetByClient
  /\ UNCHANGED <<polite, kinds, left, sent, unread, server>>

ClientReads ==
  /\ client \notin {"reset", "gone"}
  /\ unread > 0
  /\ unread' = unread - 1
  /\ UNCHANGED <<polite, kinds, left, client, inbox, sent, server>>

(* The kernel answers input that nobody will read, because the descriptor  *)
(* was closed before it was read or before it came, by resetting the       *)
(* connection.  What the client has not read yet may then be lost.         *)
Aborted == closing /\ inbox # <<>>

LoseAnswer ==
  /\ Aborted
  /\ unread > 0
  /\ unread' = 0
  /\ sent' = SubSeq(sent, 1, Len(sent) - unread)
  /\ UNCHANGED <<polite, kinds, left, client, inbox, server>>

----------------------------------------------------------------------------
(* One turn of the loop of HttpRequest::parse, on the first unit of the    *)
(* buffer, or on a whole body.  A failure leaves the lines after the       *)
(* offending one there; after a failure or a complete request nothing more *)
(* is looked at.                                                           *)
ParseUnit(p) ==
  LET u        == Head(p.buf)
      taken    == [p EXCEPT !.buf = Tail(@)]
      fail     == [taken EXCEPT !.failed = TRUE]
      failRest == [p EXCEPT !.failed = TRUE,
                            !.buf = <<[u EXCEPT !.part = 3]>> \o Tail(@)]
      looks(state) == ~p.failed /\ p.buf # <<>> /\ p.state = state
  IN CASE p.failed \/ p.buf = <<>> \/ p.state = "kGotAll" -> p
       [] looks("kExpectRequestLine") ->
            IF u.part = 1 /\ u.kind # "badLine"
            THEN [taken EXCEPT !.state = "kExpectHeaders",
                               !.keepAlive = u.kind # "close"]
            ELSE IF u.part >= 3 THEN fail ELSE failRest
       [] looks("kExpectHeaders") ->
            IF u.part \in {1, 4} THEN fail
            ELSE IF u.part = 2 /\ u.kind = "badHeader" THEN failRest
            ELSE [taken EXCEPT !.state = IF u.kind = "large" THEN "kExpectBody"
                                         ELSE "kGotAll"]
       [] looks("kExpectBody") ->
            IF Len(p.buf) < BodyLength THEN p
            ELSE [p EXCEPT !.buf = SubSeq(@, BodyLength + 1, Len(@)),
                           !.state = "kGotAll"]

(* The loop ends with the second unit, or with the body, at the latest.    *)
ParseBuffer(p) == ParseUnit(ParseUnit(ParseUnit(p)))

Received(data) ==
  [state |-> state_, buf |-> buf_ \o data, keepAlive |-> reqKeepAlive,
   failed |-> FALSE]

ParseWithoutLimit(data) ==       \* seeded fault: the length test is missing
  ParseBuffer(Received(data))

(* parse(data, len): refuses the data when the buffer would be too long.   *)
Parse(data) ==
  IF Len(buf_) + Len(data) > kMaxRequestSize
  THEN [Received(<<>>) EXCEPT !.failed = TRUE]
  ELSE ParseBuffer(Received(data))

Request(p) ==
  /\ state_' = p.state
  /\ buf_' = p.buf
  /\ reqKeepAlive' = p.keepAlive

ResetKeepingState ==             \* seeded fault: state_ is not reset
  Request([state |-> state_, buf |-> <<>>, keepAlive |-> FALSE])

(* HttpRequest::reset(): the buffer is cleared too.                        *)
Reset == Request([state |-> "kExpectRequestLine", buf |-> <<>>,
                  keepAlive |-> FALSE])

(* removeConnection: disableAll and close.                                 *)
RemoveConnection ==
  /\ closing' = TRUE
  /\ writing' = FALSE

(* write() on a connection the client has reset fails, or raises SIGPIPE   *)
(* (the first write after the reset may still get ECONNRESET, a later one, *)
(* or one after the client's FIN, gets EPIPE and the signal).              *)
ClientReset == client \in {"reset", "gone"}

WriteFails ==
  /\ ClientReset'
  /\ \/ RemoveConnection /\ UNCHANGED killed
     \/ killed' = TRUE /\ UNCHANGED <<closing, writing>>
  /\ UNCHANGED <<sent, unread, writeBuf>>

Room == SndBuf - unread

Fits(units) == Len(units) <= Room

(* write() of what fits; EAGAIN is the case that nothing does.             *)
Write(units) ==
  /\ ~ClientReset'
  /\ LET n == IF Fits(units) THEN Len(units) ELSE Room
     IN /\ sent' = sent \o SubSeq(units, 1, n)
        /\ unread' = unread + n
  /\ UNCHANGED killed

RestForgettingWriteSent(units) == units   \* seeded fault: resent from the start

RestLost(units) == <<>>          \* seeded fault: writeBuf is not filled

Rest(units) == SubSeq(units, Room + 1, Len(units))

(* toMessage(): the units of the next response; a 400 one is short.        *)
Message(status) ==
  LET id  == Len(responses) + 1
      end == [response |-> id, last |-> TRUE]
  IN IF status = 400 THEN <<end>>
     ELSE <<[response |-> id, last |-> FALSE], end>>

(* sendResponse, with p the request as parse left it.                      *)
SendResponse(p, status, keepAlive) ==
  LET msg == Message(status)
  IN /\ responses' = Append(responses, keepAlive)
     /\ \/ WriteFails /\ Request(p)
        \/ /\ Write(msg)
           /\ ~Fits(msg)
           /\ writeBuf' = Rest(msg)
           /\ writing' = TRUE
           /\ Request(p)
           /\ UNCHANGED closing
        \/ /\ Write(msg)
           /\ Fits(msg)
           /\ keepAlive
           /\ Reset
           /\ UNCHANGED <<writeBuf, writing, closing>>
        \/ /\ Write(msg)
           /\ Fits(msg)
           /\ ~keepAlive
           /\ RemoveConnection
           /\ Request(p)
           /\ UNCHANGED writeBuf

----------------------------------------------------------------------------
Serving == ~closing /\ ~killed

(* onRead with n > 0: any number of the units that are there.  The client  *)
(* may reset the connection before the response is written.                *)
OnRead ==
  /\ Serving
  /\ \E n \in 1 .. Len(inbox) :
       LET p == Parse(SubSeq(inbox, 1, n))
       IN /\ \/ /\ inbox' = SubSeq(inbox, n + 1, Len(inbox))
                /\ UNCHANGED client
             \/ ResetByClient
          /\ \/ p.failed /\ SendResponse(p, 400, FALSE)
             \/ /\ ~p.failed
                /\ p.state = "kGotAll"
                /\ SendResponse(p, 200, p.keepAlive)
             \/ /\ ~p.failed
                /\ p.state # "kGotAll"
                /\ Request(p)
                /\ UNCHANGED <<sent, unread, responses, writeBuf, writing,
                               closing, killed>>
  /\ UNCHANGED <<polite, kinds, left>>

(* onRead with n = 0: the client has shut its side down.                   *)
OnReadEnd ==
  /\ Serving
  /\ inbox = <<>>
  /\ client \in {"half", "gone"}
  /\ RemoveConnection
  /\ UNCHANGED <<polite, kinds, left, client, inbox, sent, unread, state_, buf_,
                 reqKeepAlive, responses, writeBuf, killed>>

(* onRead with n < 0: the error of a reset is returned once, and ignored.  *)
OnReadError ==
  /\ Serving
  /\ client = "reset"
  /\ client' = "gone"
  /\ UNCHANGED <<polite, kinds, left, inbox, sent, unread, server>>

OnWriteKeepingEpollout ==        \* seeded fault: disableWriting is missing
  /\ Serving
  /\ writing
  /\ UNCHANGED client
  /\ Room > 0
  /\ Write(writeBuf)
  /\ writeBuf' = Rest(writeBuf)
  /\ IF Fits(writeBuf) THEN Reset ELSE UNCHANGED <<state_, buf_, reqKeepAlive>>
  /\ UNCHANGED <<polite, kinds, left, inbox, responses, writing, closing>>

OnWriteWithoutReset ==           \* seeded fault: request.reset() is missing
  /\ Serving
  /\ writing
  /\ UNCHANGED client
  /\ Room > 0
  /\ Write(writeBuf)
  /\ writeBuf' = Rest(writeBuf)
  /\ IF ~Fits(writeBuf) THEN UNCHANGED <<writing, closing>>
     ELSE IF reqKeepAlive THEN writing' = FALSE /\ UNCHANGED closing
     ELSE RemoveConnection
  /\ UNCHANGED <<polite, kinds, left, inbox, responses, state_, buf_, reqKeepAlive>>

(* onWrite, when EPOLLOUT says there is room: as much of the rest as fits; *)
(* at the end of it request.keepAlive() decides whether the connection     *)
(* stays open.                                                             *)
OnWrite ==
  /\ Serving
  /\ writing
  /\ UNCHANGED client
  /\ \/ WriteFails /\ UNCHANGED <<state_, buf_, reqKeepAlive>>
     \/ /\ Room > 0
        /\ Write(writeBuf)
        /\ writeBuf' = Rest(writeBuf)
        /\ \/ /\ ~Fits(writeBuf)
              /\ UNCHANGED <<writing, closing, state_, buf_, reqKeepAlive>>
           \/ /\ Fits(writeBuf)
              /\ reqKeepAlive
              /\ writing' = FALSE
              /\ Reset
              /\ UNCHANGED closing
           \/ /\ Fits(writeBuf)
              /\ ~reqKeepAlive
              /\ RemoveConnection
              /\ UNCHANGED <<state_, buf_, reqKeepAlive>>
  /\ UNCHANGED <<polite, kinds, left, inbox, responses>>

----------------------------------------------------------------------------
Client ==
  \/ \E kind \in Kinds : BeginRequest(kind)
  \/ SendMore \/ Leave \/ ClientReads \/ LoseAnswer

Handler == OnRead \/ OnReadEnd \/ OnReadError \/ OnWrite

Next == Client \/ Handler

Spec == Init /\ [][Next]_vars

(* The loop dispatches pending events (they are level triggered), and the  *)
(* client finishes a request it has begun and reads its answers.           *)
FairSpec ==
  /\ Spec
  /\ WF_vars(OnRead)
  /\ WF_vars(OnReadEnd \/ OnReadError)
  /\ WF_vars(OnWrite)
  /\ WF_vars(SendMore)
  /\ WF_vars(ClientReads)

----------------------------------------------------------------------------
(* Types, and the parser's buffer never exceeds kMaxRequestSize, whatever  *)
(* the client sends (HttpRequest.cpp:28-31).                               *)
TypeOK ==
  /\ polite \in BOOLEAN
  /\ kinds \in Seq(Kinds)
  /\ left \in Nat
  /\ client \in {"open", "half", "reset", "gone"}
  /\ inbox \in Seq(InUnit)
  /\ sent \in Seq(OutUnit)
  /\ unread \in 0 .. SndBuf
  /\ state_ \in State
  /\ buf_ \in Seq(InUnit)
  /\ Len(buf_) <= kMaxRequestSize
  /\ reqKeepAlive \in BOOLEAN
  /\ responses \in Seq(BOOLEAN)
  /\ writeBuf \in Seq(OutUnit)
  /\ writing \in BOOLEAN
  /\ closing \in BOOLEAN
  /\ killed \in BOOLEAN

(* EPOLLOUT is enabled exactly while a response is unfinished: it is never *)
(* left on with nothing to write (the level-triggered loop would spin) or  *)
(* off with a rest to write (the client would wait for ever).              *)
EpolloutWhileUnfinished == ~closing => (writing <=> writeBuf # <<>>)

(* A client that waits for its answers gets each response whole: none      *)
(* begins before the one before it is finished, no rest is lost, no part   *)
(* is sent twice, and the last one is cut off only if the client has left  *)
(* (README.md:179: graceful shutdown is not implemented).                  *)
ResponsesWhole ==
  polite =>
    /\ \A i \in 1 .. Len(sent) - 1 :
         /\ sent[i] # sent[i + 1]
         /\ sent[i].last <=> sent[i + 1].response # sent[i].response
    /\ closing /\ sent # <<>> /\ ~Last(sent).last => client # "open"

(* ... no request answered twice, and none before it is complete unless    *)
(* the answer closes the connection (parse state is reset in between).     *)
OneResponsePerRequest ==
  polite =>
    /\ Len(responses) <= Len(kinds)
    /\ left > 0 /\ Serving => Len(responses) < Len(kinds)

(* A connection with nothing left to write is ready to parse the next      *)
(* request from its first line, never still in the state of the last one.  *)
ReadyForNextRequest == Serving /\ writeBuf = <<>> => state_ # "kGotAll"

(* "keep-alive: read the next request, otherwise close" (HttpServer.cpp:   *)
(* 133): a response that carried Connection: close is the last one, and    *)
(* when all of it has been sent the connection is closed.                  *)
ClosesAfterCloseResponse ==
  \A i \in DOMAIN sent :
    sent[i].last /\ ~responses[sent[i].response] => closing

(* ... which holds for a client that waits for its answers.                *)
PoliteCloseIsKept == polite => ClosesAfterCloseResponse

(* Only a refusal can be lost in a reset: the answer to a request that     *)
(* parse() accepts is sent when all of it has been read, so that close()   *)
(* leaves nothing unread behind.  A refusal may leave input unread: of a   *)
(* malformed request or of one that is too long (HttpRequest.cpp:29-31,    *)
(* HttpServer.cpp:81-104, 188).                                            *)
OnlyRefusalsAreLost ==
  polite /\ Aborted /\ unread > 0 =>
    Last(kinds) \in {"badLine", "badHeader", "large"}

(* Every request of a client that reads and waits is answered, or its      *)
(* connection is closed (or SIGPIPE has ended the process).                *)
EveryRequestAnswered ==
  \A n \in 1 .. MaxRequests :
    polite /\ Len(kinds) = n ~> (Answered >= n \/ ~Serving)
=============================================================================
