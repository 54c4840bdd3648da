----------------------- MODULE HttpConnection_proofs -----------------------
(***************************************************************************)
(* Theorems about HttpConnection for any number of requests and any sizes  *)
(* of the buffers, from a client that may send ahead, or leave, or both.   *)
(***************************************************************************)
EXTENDS HttpConnection, FiniteSetTheorems, SequenceTheorems, TLAPS

----------------------------------------------------------------------------
(* The inductive invariant, part by part.  First what holds whatever the   *)
(* client does.                                                            *)

(* The last request is not all sent.                                       *)
Sending == left > 0

BoundInv ==
  /\ Len(kinds) <= MaxRequests
  /\ Sending => kinds # <<>> /\ left < Units(Last(kinds))
  /\ unread <= Len(sent)

AnyClientInv ==
  TypeOK /\ BoundInv /\ EpolloutWhileUnfinished /\ ReadyForNextRequest

(* Then what holds for a client that waits for its answers.  The units     *)
(* that were sent are those of one response after the other, of at most n, *)
(* so that the responses it has read are counted by the last unit it has   *)
(* read.                                                                   *)
InOrder(s, n) ==
  /\ \A i \in 1 .. Len(s) : s[i].response <= n
  /\ s # <<>> => s[1].response = 1
  /\ \A i \in 1 .. Len(s) - 1 :
       IF s[i].last
       THEN s[i + 1].response = s[i].response + 1
       ELSE s[i + 1] = [response |-> s[i].response, last |-> TRUE]

Lasts(s, k) == {i \in 1 .. k : s[i].last}

Counted(s) ==
  \A k \in 1 .. Len(s) :
    Cardinality(Lasts(s, k)) =
      IF s[k].last THEN s[k].response ELSE s[k].response - 1

StreamInv == InOrder(sent, Len(responses)) /\ Counted(sent)

(* ... and those of a response that is not kept alive end the connection.  *)
Kept(s, r) == \A i \in 1 .. Len(s) : s[i].last => r[s[i].response]

KeepInv == ~closing => Kept(sent, responses)

(* As long as the connection is served, it is in one of three phases.      *)
AllSent ==
  /\ writeBuf = <<>>
  /\ IF sent = <<>> THEN responses = <<>>
     ELSE Last(sent) = [response |-> Len(responses), last |-> TRUE]

Idle ==
  /\ AllSent
  /\ Len(responses) = Len(kinds)
  /\ ~Sending
  /\ buf_ = <<>>
  /\ inbox = <<>>
  /\ state_ = "kExpectRequestLine"

Half(n) == [kind |-> Last(kinds), part |-> n]

Expected ==
  IF ClientReset THEN <<>>
  ELSE IF state_ = "kExpectRequestLine"
       THEN IF Sending THEN <<Half(1)>> ELSE <<Half(1), Half(2)>>
       ELSE IF Sending THEN <<>> ELSE <<Half(2)>>

(* A request of two units is parsed unit by unit: nothing of it waits in   *)
(* the parser's buffer.                                                    *)
SmallInRequest ==
  /\ buf_ = <<>>
  /\ inbox = Expected
  /\ \/ state_ = "kExpectRequestLine"
     \/ /\ state_ = "kExpectHeaders"
        /\ Last(kinds) # "badLine"
        /\ reqKeepAlive = (Last(kinds) # "close")

(* One with a long body never becomes complete.                            *)
OfLarge(s) == \A i \in 1 .. Len(s) : s[i].kind = "large"

LargeInRequest ==
  /\ OfLarge(buf_)
  /\ OfLarge(inbox)
  /\ state_ # "kGotAll"

InRequest ==
  /\ AllSent
  /\ Len(kinds) = Len(responses) + 1
  /\ unread = 0
  /\ IF Last(kinds) = "large" THEN LargeInRequest ELSE SmallInRequest

Responding ==
  /\ Len(responses) = Len(kinds)
  /\ ~Sending
  /\ inbox = <<>>
  /\ state_ = "kGotAll"
  /\ buf_ = <<>>
  /\ writeBuf = <<[response |-> Len(responses), last |-> TRUE]>>
  /\ sent # <<>>
  /\ Last(sent) = [response |-> Len(responses), last |-> FALSE]
  /\ responses[Len(responses)] = reqKeepAlive

ServingInv == Serving => Idle \/ InRequest \/ Responding

(* After that, only the refusal of a request that was cut short can still  *)
(* be unread when more input comes.                                        *)
Refused == {"badLine", "badHeader", "large"}

StoppedInv ==
  ~Serving =>
    /\ Len(responses) <= Len(kinds)
    /\ killed => ClientReset
    /\ client = "open" /\ sent # <<>> => Last(sent).last
    /\ client = "open" /\ unread > 0 =>
         Last(sent) = [response |-> Len(responses), last |-> TRUE]
    /\ unread > 0 /\ (Sending \/ inbox # <<>>) =>
         /\ Last(kinds) \in Refused
         /\ client = "open" =>
              /\ unread = 1
              /\ Len(sent) > 1 => sent[Len(sent) - 1].last

PoliteInv == StreamInv /\ KeepInv /\ ServingInv /\ StoppedInv

ConnInv == AnyClientInv /\ (polite => PoliteInv)

----------------------------------------------------------------------------
(* The parser.                                                             *)
ParserState ==
  [state     : State,
   buf       : Seq(InUnit),
   keepAlive : BOOLEAN,
   failed    : BOOLEAN]

LEMMA ParserSetType ==
  ASSUME NEW p \in ParserState, NEW buf \in Seq(InUnit), Len(buf) <= Len(p.buf),
         NEW b \in BOOLEAN, NEW q,
         \/ q = [p EXCEPT !.buf = buf, !.failed = TRUE]
         \/ q = [p EXCEPT !.buf = buf, !.state = "kGotAll"]
         \/ q = [p EXCEPT !.buf = buf, !.state = "kExpectBody"]
         \/ q = [p EXCEPT !.buf = buf, !.state = "kExpectHeaders",
                          !.keepAlive = b]
  PROVE  q \in ParserState /\ Len(q.buf) <= Len(p.buf)
BY DEF ParserState, State

(* A turn of the parser's loop consumes a unit or leaves the buffer as     *)
(* long as it is.                                                          *)
LEMMA ParseUnitType ==
  ASSUME NEW p \in ParserState
  PROVE  ParseUnit(p) \in ParserState /\ Len(ParseUnit(p).buf) <= Len(p.buf)
<1>1. CASE p.failed \/ p.state = "kGotAll" \/ p.buf = <<>>
  BY <1>1 DEF ParseUnit, ParserState
<1>2. CASE ~p.failed /\ p.buf # <<>> /\ p.state # "kGotAll"
  <2> DEFINE u == Head(p.buf)
             tail == Tail(p.buf)
             rest == <<[u EXCEPT !.part = 3]>> \o tail
             b == u.kind # "close"
             body == SubSeq(p.buf, BodyLength + 1, Len(p.buf))
             q == ParseUnit(p)
  <2>1. u \in InUnit /\ tail \in Seq(InUnit) /\ Len(tail) <= Len(p.buf)
        /\ Len(tail) = Len(p.buf) - 1
    BY <1>2 DEF ParserState
  <2>2. [u EXCEPT !.part = 3] \in InUnit
    BY <2>1 DEF InUnit
  <2>3. rest \in Seq(InUnit) /\ Len(rest) <= Len(p.buf)
    BY <2>1, <2>2 DEF ParserState
  <2>4. body \in Seq(InUnit) /\ Len(body) <= Len(p.buf)
    <3>1. BodyLength + 1 \in Nat /\ BodyLength + 1 > 0
      BY ConnectionAssumption DEF BodyLength
    <3>2. p.buf \in Seq(InUnit) /\ Len(p.buf) \in Nat
      BY DEF ParserState
    <3>3. \A m \in Nat \ {0} : LET s == SubSeq(p.buf, m, Len(p.buf))
                              IN s \in Seq(InUnit) /\ Len(s) <= Len(p.buf)
      BY <3>2
    <3>4. QED
      BY <3>1, <3>3
  <2>5. \/ q = p
        \/ q = [p EXCEPT !.buf = tail, !.failed = TRUE]
        \/ q = [p EXCEPT !.buf = rest, !.failed = TRUE]
        \/ q = [p EXCEPT !.buf = tail, !.state = "kGotAll"]
        \/ q = [p EXCEPT !.buf = tail, !.state = "kExpectBody"]
        \/ q = [p EXCEPT !.buf = body, !.state = "kGotAll"]
        \/ q = [p EXCEPT !.buf = tail, !.state = "kExpectHeaders",
                         !.keepAlive = b]
    BY <1>2 DEF ParseUnit, ParserState, State
  <2>6. b \in BOOLEAN
    OBVIOUS
  <2> HIDE DEF u, tail, rest, b, body, q
  <2>7. q \in ParserState /\ Len(q.buf) <= Len(p.buf)
    <3>1. CASE q = p
      BY <3>1 DEF ParserState
    <3>2. CASE q # p
      BY <2>1, <2>3, <2>4, <2>5, <2>6, <3>2, ParserSetType
    <3>3. QED
      BY <3>1, <3>2
  <2>8. QED
    BY <2>7 DEF q
<1>3. QED
  BY <1>1, <1>2 DEF ParserState

LEMMA ParseType ==
  ASSUME TypeOK, NEW data \in Seq(InUnit)
  PROVE  Parse(data) \in ParserState /\ Len(Parse(data).buf) <= kMaxRequestSize
<1> USE ConnectionAssumption DEF TypeOK
<1>1. Received(data) \in ParserState /\ Received(<<>>) \in ParserState
      /\ Len(Received(data).buf) = Len(buf_) + Len(data)
      /\ Received(<<>>).buf = buf_
  BY DEF Received, ParserState
<1>2. CASE Len(buf_) + Len(data) > kMaxRequestSize
  BY <1>1, <1>2 DEF Parse, ParserState
<1>3. CASE ~(Len(buf_) + Len(data) > kMaxRequestSize)
  <2>1. /\ Parse(data) \in ParserState
        /\ Len(Parse(data).buf) <= Len(Received(data).buf)
    <3> DEFINE p1 == ParseUnit(Received(data))
    <3>1. p1 \in ParserState /\ Len(p1.buf) <= Len(Received(data).buf)
      BY <1>1, ParseUnitType
    <3> DEFINE p2 == ParseUnit(p1)
    <3>2. p2 \in ParserState /\ Len(p2.buf) <= Len(p1.buf)
      BY <3>1, ParseUnitType
    <3>3. ParseUnit(p2) \in ParserState /\ Len(ParseUnit(p2).buf) <= Len(p2.buf)
      BY <3>2, ParseUnitType
    <3>4. Parse(data) = ParseUnit(p2)
      BY <1>3 DEF Parse, ParseBuffer
    <3> HIDE DEF p1, p2
    <3>5. QED
      BY <1>1, <3>1, <3>2, <3>3, <3>4 DEF ParserState
  <2>2. QED
    BY <1>1, <1>3, <2>1 DEF ParserState
<1>4. QED
  BY <1>2, <1>3

----------------------------------------------------------------------------
(* Writing.                                                                *)
LEMMA MessageType ==
  ASSUME TypeOK, NEW status
  PROVE  Message(status) \in Seq(OutUnit) /\ Message(status) # <<>>
<1> DEFINE id == Len(responses) + 1
<1>1. id \in Nat \ {0}
  BY DEF TypeOK
<1>2. [response |-> id, last |-> TRUE] \in OutUnit
      /\ [response |-> id, last |-> FALSE] \in OutUnit
  BY <1>1 DEF OutUnit
<1>3. QED
  BY <1>2 DEF Message

LEMMA WriteType ==
  ASSUME TypeOK, unread <= Len(sent), NEW units \in Seq(OutUnit), Write(units)
  PROVE  /\ sent' \in Seq(OutUnit)
         /\ unread' \in 0 .. SndBuf
         /\ unread' <= Len(sent')
         /\ killed' = killed
         /\ Rest(units) \in Seq(OutUnit)
         /\ Rest(units) = <<>> <=> Fits(units)
<1> USE ConnectionAssumption DEF TypeOK, Write, Fits, Room, Rest
<1> DEFINE n == IF Fits(units) THEN Len(units) ELSE Room
<1>1. n \in 0 .. Len(units) /\ n <= SndBuf - unread
  OBVIOUS
<1>2. SubSeq(units, 1, n) \in Seq(OutUnit) /\ Len(SubSeq(units, 1, n)) = n
  BY <1>1
<1>3. sent' = sent \o SubSeq(units, 1, n) /\ unread' = unread + n
  OBVIOUS
<1>4. /\ Rest(units) \in Seq(OutUnit)
      /\ Rest(units) = <<>> <=> Fits(units)
  <2>1. CASE Fits(units)
    BY <2>1
  <2>2. CASE ~Fits(units)
    <3>1. Room + 1 \in 1 .. Len(units)
      BY <2>2
    <3>2. /\ Rest(units) \in Seq(OutUnit)
          /\ Len(Rest(units)) = Len(units) - Room
      BY <3>1
    <3> HIDE DEF Rest
    <3>3. QED
      BY <2>2, <3>1, <3>2
  <2>3. QED
    BY <2>1, <2>2
<1>5. killed' = killed /\ sent \in Seq(OutUnit) /\ unread \in Nat /\ SndBuf \in Nat
  OBVIOUS
<1> HIDE DEF n, TypeOK, Write, Fits, Room, Rest
<1>6. PICK d \in Seq(OutUnit), w \in Seq(OutUnit) :
        d = SubSeq(units, 1, n) /\ w = sent /\ Len(d) = n
  BY <1>2, <1>5
<1>7. w \o d \in Seq(OutUnit) /\ Len(w \o d) = Len(w) + Len(d) /\ Len(w) \in Nat
  OBVIOUS
<1>8. sent' \in Seq(OutUnit) /\ Len(sent') = Len(sent) + n
  BY <1>3, <1>6, <1>7
<1>9. PICK m \in Nat : m = n
  BY <1>1
<1>10. unread' \in 0 .. SndBuf /\ unread' <= Len(sent')
  <2>1. Len(sent) \in Nat /\ unread' = unread + m /\ m <= SndBuf - unread
    BY <1>1, <1>3, <1>6, <1>7, <1>9
  <2>2. Len(sent') = Len(sent) + m
    BY <1>8, <1>9
  <2>3. QED
    BY <1>5, <2>1, <2>2
<1>11. QED
  BY <1>4, <1>5, <1>8, <1>10

----------------------------------------------------------------------------
(* What holds for any client is kept by every step.                        *)
ServerTypeOK ==
  /\ sent \in Seq(OutUnit)
  /\ unread \in 0 .. SndBuf
  /\ unread <= Len(sent)
  /\ state_ \in State
  /\ buf_ \in Seq(InUnit)
  /\ Len(buf_) <= kMaxRequestSize
  /\ reqKeepAlive \in BOOLEAN
  /\ responses \in Seq(BOOLEAN)
  /\ writeBuf \in Seq(OutUnit)
  /\ writing \in BOOLEAN
  /\ closing \in BOOLEAN
  /\ killed \in BOOLEAN

LEMMA RequestType ==
  ASSUME NEW p \in ParserState, Len(p.buf) <= kMaxRequestSize, Request(p)
  PROVE  /\ state_' \in State
         /\ buf_' \in Seq(InUnit)
         /\ Len(buf_') <= kMaxRequestSize
         /\ reqKeepAlive' \in BOOLEAN
BY DEF Request, ParserState

LEMMA ResetType ==
  ASSUME Reset
  PROVE  /\ state_' = "kExpectRequestLine" /\ state_' \in State
         /\ buf_' \in Seq(InUnit)
         /\ Len(buf_') <= kMaxRequestSize
         /\ reqKeepAlive' \in BOOLEAN
BY ConnectionAssumption DEF Reset, Request, State

LEMMA SendResponseKeepsAny ==
  ASSUME AnyClientInv, Serving, inbox # <<>>,
         NEW p \in ParserState, Len(p.buf) <= kMaxRequestSize,
         NEW status, NEW keepAlive \in BOOLEAN,
         SendResponse(p, status, keepAlive)
  PROVE  /\ ServerTypeOK'
         /\ EpolloutWhileUnfinished'
         /\ ReadyForNextRequest'
         /\ Len(responses') = Len(responses) + 1
<1> USE DEF AnyClientInv, EpolloutWhileUnfinished, ReadyForNextRequest, Serving,
            RemoveConnection
<1> DEFINE msg == Message(status)
<1>1. /\ responses' = Append(responses, keepAlive)
      /\ responses' \in Seq(BOOLEAN)
      /\ Len(responses') = Len(responses) + 1
  BY DEF SendResponse, TypeOK
<1>2. msg \in Seq(OutUnit) /\ msg # <<>>
  BY MessageType
<1> HIDE DEF msg
<1>3. CASE WriteFails /\ Request(p)
  <2>1. UNCHANGED <<sent, unread, writeBuf>>
    BY <1>3 DEF WriteFails
  <2>2. \/ closing' = TRUE /\ writing' = FALSE /\ killed' = killed
        \/ killed' = TRUE /\ UNCHANGED <<closing, writing>>
    BY <1>3 DEF WriteFails
  <2>3. ServerTypeOK'
    BY <1>1, <1>3, <2>1, <2>2, RequestType DEF ServerTypeOK, TypeOK, BoundInv
  <2>4. ~Serving'
    BY <2>2
  <2>5. EpolloutWhileUnfinished'
    BY <2>1, <2>2
  <2>6. QED
    BY <1>1, <2>3, <2>4, <2>5
<1>4. CASE Write(msg)
  <2>1. /\ sent' \in Seq(OutUnit)
        /\ unread' \in 0 .. SndBuf
        /\ unread' <= Len(sent')
        /\ killed' = killed
        /\ Rest(msg) \in Seq(OutUnit)
        /\ Rest(msg) = <<>> <=> Fits(msg)
    BY <1>2, <1>4, WriteType DEF BoundInv
  <2>2. CASE /\ ~Fits(msg)
             /\ writeBuf' = Rest(msg)
             /\ writing' = TRUE
             /\ Request(p)
             /\ UNCHANGED closing
    BY <1>1, <2>1, <2>2, RequestType DEF ServerTypeOK, TypeOK
  <2>3. CASE Reset /\ UNCHANGED <<writeBuf, writing, closing>>
    BY <1>1, <2>1, <2>3, ResetType DEF ServerTypeOK, TypeOK
  <2>4. CASE RemoveConnection /\ Request(p) /\ UNCHANGED writeBuf
    BY <1>1, <2>1, <2>4, RequestType DEF ServerTypeOK, TypeOK
  <2>5. QED
    BY <1>3, <1>4, <2>2, <2>3, <2>4 DEF SendResponse, msg
<1>5. QED
  BY <1>3, <1>4 DEF SendResponse, msg

LEMMA OnReadKeepsAny ==
  ASSUME AnyClientInv, OnRead
  PROVE  AnyClientInv'
<1> USE DEF AnyClientInv
<1>1. PICK n \in 1 .. Len(inbox) :
        LET p == Parse(SubSeq(inbox, 1, n))
        IN /\ \/ /\ inbox' = SubSeq(inbox, n + 1, Len(inbox))
                 /\ UNCHANGED client
              \/ ResetByClient
           /\ \/ p.failed /\ SendResponse(p, 400, FALSE)
              \/ SendResponse(p, 200, p.keepAlive)
              \/ /\ p.state # "kGotAll"
                 /\ Request(p)
                 /\ UNCHANGED <<sent, unread, responses, writeBuf, writing,
                                closing, killed>>
  BY DEF OnRead
<1>2. PICK p : p = Parse(SubSeq(inbox, 1, n))
  OBVIOUS
<1>3. p \in ParserState /\ Len(p.buf) <= kMaxRequestSize
  <2>1. SubSeq(inbox, 1, n) \in Seq(InUnit)
    BY <1>1 DEF TypeOK
  <2>2. QED
    BY <1>2, <2>1, ParseType
<1>4. /\ inbox # <<>>
      /\ inbox' \in Seq(InUnit)
      /\ Len(inbox') < Len(inbox)
      /\ client' \in {"open", "half", "reset", "gone"}
  <2>1. inbox \in Seq(InUnit) /\ client \in {"open", "half", "reset", "gone"}
    BY DEF TypeOK
  <2>2. inbox # <<>> /\ n \in 1 .. Len(inbox)
    BY <1>1, <2>1
  <2>3. CASE inbox' = SubSeq(inbox, n + 1, Len(inbox)) /\ UNCHANGED client
    BY <2>1, <2>2, <2>3
  <2>4. CASE ResetByClient
    BY <2>1, <2>2, <2>4 DEF ResetByClient
  <2>5. QED
    BY <1>1, <2>3, <2>4
<1>5. Serving /\ UNCHANGED <<polite, kinds, left>>
  BY DEF OnRead
<1>6. /\ ServerTypeOK'
      /\ EpolloutWhileUnfinished'
      /\ ReadyForNextRequest'
      /\ Len(responses') \in {Len(responses), Len(responses) + 1}
  <2>1. CASE SendResponse(p, 400, FALSE) \/ SendResponse(p, 200, p.keepAlive)
    <3>1. FALSE \in BOOLEAN /\ p.keepAlive \in BOOLEAN
      BY <1>3 DEF ParserState
    <3>2. QED
      BY <1>3, <1>4, <1>5, <2>1, <3>1, SendResponseKeepsAny
  <2>2. CASE /\ p.state # "kGotAll"
             /\ Request(p)
             /\ UNCHANGED <<sent, unread, responses, writeBuf, writing, closing,
                            killed>>
    <3>1. state_' # "kGotAll"
      BY <2>2 DEF Request
    <3>2. ServerTypeOK'
      BY <1>3, <2>2, RequestType DEF TypeOK, BoundInv, ServerTypeOK
    <3>3. QED
      BY <2>2, <3>1, <3>2
         DEF EpolloutWhileUnfinished, ReadyForNextRequest, Serving
  <2>3. QED
    BY <1>1, <1>2, <2>1, <2>2
<1>7. TypeOK'
  BY <1>4, <1>5, <1>6 DEF TypeOK, ServerTypeOK
<1>8. BoundInv'
  BY <1>4, <1>5, <1>6 DEF TypeOK, ServerTypeOK, BoundInv, Sending, Units
<1>9. QED
  BY <1>6, <1>7, <1>8

LEMMA OnWriteKeepsAny ==
  ASSUME AnyClientInv, OnWrite
  PROVE  AnyClientInv'
<1> USE DEF AnyClientInv
<1>1. /\ Serving
      /\ writing
      /\ UNCHANGED <<client, polite, kinds, left, inbox, responses>>
  BY DEF OnWrite
<1>2. /\ ServerTypeOK'
      /\ EpolloutWhileUnfinished'
      /\ ReadyForNextRequest'
  <2>1. CASE WriteFails /\ UNCHANGED <<state_, buf_, reqKeepAlive>>
    <3>1. /\ UNCHANGED <<sent, unread, writeBuf>>
          /\ \/ closing' = TRUE /\ writing' = FALSE /\ killed' = killed
             \/ killed' = TRUE /\ UNCHANGED <<closing, writing>>
      BY <2>1 DEF WriteFails, RemoveConnection
    <3>2. QED
      BY <1>1, <2>1, <3>1
         DEF TypeOK, BoundInv, ServerTypeOK, EpolloutWhileUnfinished,
             ReadyForNextRequest, Serving
  <2>2. CASE Write(writeBuf) /\ writeBuf' = Rest(writeBuf)
    <3>1. /\ sent' \in Seq(OutUnit)
          /\ unread' \in 0 .. SndBuf
          /\ unread' <= Len(sent')
          /\ killed' = killed
          /\ writeBuf' \in Seq(OutUnit)
          /\ writeBuf' = <<>> <=> Fits(writeBuf)
      BY <2>2, WriteType DEF TypeOK, BoundInv
    <3>2. CASE /\ ~Fits(writeBuf)
               /\ UNCHANGED <<writing, closing, state_, buf_, reqKeepAlive>>
      BY <1>1, <3>1, <3>2
         DEF TypeOK, ServerTypeOK, EpolloutWhileUnfinished, ReadyForNextRequest
    <3>3. CASE /\ Fits(writeBuf)
               /\ writing' = FALSE
               /\ Reset
               /\ UNCHANGED closing
      BY <1>1, <3>1, <3>3, ResetType
         DEF TypeOK, ServerTypeOK, EpolloutWhileUnfinished, ReadyForNextRequest
    <3>4. CASE RemoveConnection /\ UNCHANGED <<state_, buf_, reqKeepAlive>>
      BY <1>1, <3>1, <3>4
         DEF TypeOK, ServerTypeOK, EpolloutWhileUnfinished, ReadyForNextRequest,
             RemoveConnection, Serving
    <3>5. QED
      BY <2>1, <2>2, <3>2, <3>3, <3>4 DEF OnWrite
  <2>3. QED
    BY <2>1, <2>2 DEF OnWrite
<1>3. TypeOK' /\ BoundInv'
  BY <1>1, <1>2 DEF TypeOK, BoundInv, Sending, Units, ServerTypeOK
<1>4. QED
  BY <1>2, <1>3

LEMMA UnitsType ==
  ASSUME NEW kind
  PROVE  Units(kind) \in Nat /\ Units(kind) >= 2
BY ConnectionAssumption DEF Units, BodyLength

LEMMA UnitInType ==
  ASSUME NEW kind \in Kinds, NEW i \in Nat \ {0}
  PROVE  Unit(kind, i) \in InUnit
BY DEF Unit, InUnit

LEMMA InitHasAny == Init => AnyClientInv
<1> SUFFICES ASSUME Init
             PROVE  AnyClientInv
  OBVIOUS
<1>1. TypeOK
  <2>1. polite \in BOOLEAN
    BY Zenon, ConnectionAssumption DEF Init
  <2>2. 0 \in 0 .. SndBuf /\ 0 <= kMaxRequestSize
    BY ConnectionAssumption
  <2>3. Len(buf_) <= kMaxRequestSize
    BY <2>2 DEF Init
  <2>4. /\ kinds \in Seq(Kinds) /\ inbox \in Seq(InUnit) /\ sent \in Seq(OutUnit)
        /\ buf_ \in Seq(InUnit) /\ responses \in Seq(BOOLEAN)
        /\ writeBuf \in Seq(OutUnit)
    BY DEF Init
  <2>5. /\ left \in Nat /\ reqKeepAlive \in BOOLEAN /\ writing \in BOOLEAN
        /\ closing \in BOOLEAN /\ killed \in BOOLEAN
    BY DEF Init
  <2>6. /\ client \in {"open", "half", "reset", "gone"}
        /\ state_ \in State
        /\ unread \in 0 .. SndBuf
    BY <2>2 DEF Init, State
  <2>7. QED
    BY <2>1, <2>3, <2>4, <2>5, <2>6 DEF TypeOK
<1>2. BoundInv /\ EpolloutWhileUnfinished /\ ReadyForNextRequest
  BY ConnectionAssumption
     DEF Init, BoundInv, Sending, EpolloutWhileUnfinished, ReadyForNextRequest
<1>3. QED
  BY <1>1, <1>2 DEF AnyClientInv

LEMMA NextKeepsAny ==
  ASSUME AnyClientInv, [Next]_vars
  PROVE  AnyClientInv'
<1> USE DEF AnyClientInv
<1> USE ConnectionAssumption
<1>1. ASSUME UNCHANGED server,
             TypeOK', BoundInv'
      PROVE  AnyClientInv'
  BY <1>1 DEF server, EpolloutWhileUnfinished, ReadyForNextRequest, Serving
<1>2. ASSUME NEW kind \in Kinds, BeginRequest(kind)
      PROVE  AnyClientInv'
  <2>1. Unit(kind, 1) \in InUnit /\ Units(kind) \in Nat /\ Units(kind) >= 2
    BY UnitsType, UnitInType
  <2>2. /\ Len(kinds) < MaxRequests
        /\ left' = Units(kind) - 1
        /\ kinds' = Append(kinds, kind)
        /\ inbox' = Append(inbox, Unit(kind, 1))
        /\ UNCHANGED <<polite, client, sent, unread, server>>
    BY <1>2 DEF BeginRequest
  <2>3. /\ kinds' \in Seq(Kinds) /\ Len(kinds') = Len(kinds) + 1
        /\ kinds' # <<>> /\ Last(kinds') = kind
        /\ inbox' \in Seq(InUnit)
    <3>1. PICK l \in Seq(Kinds), i \in Seq(InUnit) : l = kinds /\ i = inbox
      BY DEF TypeOK
    <3>2. /\ Append(l, kind) \in Seq(Kinds) /\ Len(Append(l, kind)) = Len(l) + 1
          /\ Append(l, kind)[Len(l) + 1] = kind /\ Append(l, kind) # <<>>
      BY AppendProperties
    <3>3. Append(i, Unit(kind, 1)) \in Seq(InUnit)
      BY <2>1, AppendProperties
    <3>4. QED
      BY <2>2, <3>1, <3>2, <3>3 DEF Last
  <2>4. left' \in Nat /\ left' < Units(kind)
    BY <2>1, <2>2
  <2>5. TypeOK'
    BY <2>2, <2>3, <2>4 DEF TypeOK, server
  <2>6. BoundInv'
    BY <2>2, <2>3, <2>4 DEF TypeOK, BoundInv, Units
  <2>7. QED
    BY <1>1, <2>2, <2>5, <2>6
<1>3. CASE SendMore
  <2> DEFINE kind == Last(kinds)
             u == Unit(kind, Units(kind) - left + 1)
  <2>1. /\ Sending
        /\ left' = left - 1
        /\ inbox' = Append(inbox, u)
        /\ UNCHANGED <<polite, kinds, client, sent, unread, server>>
    BY <1>3 DEF SendMore, Sending
  <2>2. kind \in Kinds /\ kinds # <<>> /\ left < Units(kind)
    BY <2>1 DEF TypeOK, BoundInv, Last
  <2>3. u \in InUnit
    <3>1. Units(kind) \in Nat /\ left \in Nat
      BY <2>2, UnitsType DEF TypeOK
    <3>2. Units(kind) - left + 1 \in Nat \ {0}
      BY <2>2, <3>1
    <3>3. QED
      BY <2>2, <3>2, UnitInType
  <2> HIDE DEF kind, u
  <2>4. left' \in Nat /\ left' < left
    BY <2>1 DEF TypeOK, Sending
  <2>5. inbox' \in Seq(InUnit)
    BY <2>1, <2>3 DEF TypeOK
  <2>6. TypeOK'
    BY <2>1, <2>4, <2>5 DEF TypeOK, server
  <2>7. BoundInv'
    <3>1. left' < Units(kind)
      BY <2>2, <2>4, UnitsType DEF TypeOK
    <3>2. Last(kinds') = kind /\ kinds' # <<>>
      BY <2>1, <2>2 DEF kind
    <3>3. Units(Last(kinds))' = Units(kind)
      BY <3>2 DEF Units
    <3>4. QED
      BY <2>1, <3>1, <3>2, <3>3 DEF BoundInv
  <2>8. QED
    BY <1>1, <2>1, <2>6, <2>7
<1>4. CASE Leave
  <2>1. \/ client' = "half" /\ inbox' = inbox
        \/ client' = "reset" /\ inbox' = <<>>
    BY <1>4 DEF Leave, ResetByClient
  <2>2. UNCHANGED <<polite, kinds, left, sent, unread, server>>
    BY <1>4 DEF Leave
  <2>3. /\ inbox' \in Seq(InUnit) /\ Len(inbox') <= Len(inbox)
        /\ client' \in {"open", "half", "reset", "gone"}
    <3>1. inbox \in Seq(InUnit) /\ Len(inbox) \in Nat
      BY DEF TypeOK
    <3>2. CASE client' = "half" /\ inbox' = inbox
      BY <3>1, <3>2
    <3>3. CASE client' = "reset" /\ inbox' = <<>>
      BY <3>1, <3>3
    <3>4. QED
      BY <2>1, <3>2, <3>3
  <2>4. TypeOK'
    BY <2>2, <2>3 DEF TypeOK, server
  <2>5. BoundInv'
    BY <2>2, <2>3 DEF TypeOK, BoundInv, Sending, Units, server
  <2>6. QED
    BY <1>1, <2>2, <2>4, <2>5
<1>5. CASE ClientReads
  <2>1. TypeOK' /\ BoundInv' /\ UNCHANGED server
    BY <1>5 DEF ClientReads, TypeOK, BoundInv, Sending, Units, server
  <2>2. QED
    BY <1>1, <2>1
<1>6. CASE LoseAnswer
  <2>1. Len(sent) - unread \in 0 .. Len(sent)
    BY DEF TypeOK, BoundInv
  <2>2. TypeOK' /\ BoundInv' /\ UNCHANGED server
    BY <1>6, <2>1 DEF LoseAnswer, TypeOK, BoundInv, Sending, Units, server
  <2>3. QED
    BY <1>1, <2>2
<1>7. CASE OnRead
  BY <1>7, OnReadKeepsAny
<1>8. CASE OnReadEnd
  <2>1. TypeOK' /\ BoundInv'
    BY <1>8 DEF OnReadEnd, RemoveConnection, TypeOK, BoundInv, Sending, Units
  <2>2. closing'
    BY <1>8 DEF OnReadEnd, RemoveConnection
  <2>3. QED
    BY <2>1, <2>2 DEF EpolloutWhileUnfinished, ReadyForNextRequest, Serving
<1>9. CASE OnReadError
  <2>1. TypeOK' /\ BoundInv' /\ UNCHANGED server
    BY <1>9 DEF OnReadError, TypeOK, BoundInv, Sending, Units, server
  <2>2. QED
    BY <1>1, <2>1
<1>10. CASE OnWrite
  BY <1>10, OnWriteKeepsAny
<1>11. CASE UNCHANGED vars
  <2>1. TypeOK' /\ BoundInv' /\ UNCHANGED server
    BY <1>11 DEF vars, TypeOK, BoundInv, Sending, Units, server
  <2>2. QED
    BY <1>1, <2>1
<1>12. QED
  BY <1>2, <1>3, <1>4, <1>5, <1>6, <1>7, <1>8, <1>9, <1>10, <1>11
     DEF Next, Client, Handler

(* Whatever the client sends, and whenever it leaves: the types hold and   *)
(* the parser never buffers more than kMaxRequestSize                      *)
(* (HttpRequest.cpp:28-31).                                                *)
THEOREM TypesHold == Spec => []TypeOK
<1>1. AnyClientInv => TypeOK
  BY DEF AnyClientInv
<1>2. QED
  BY <1>1, InitHasAny, NextKeepsAny, PTL DEF Spec

(* EPOLLOUT is enabled exactly while a response is unfinished, for any     *)
(* division of the responses into writes (HttpServer.cpp:128-131, 163-168).*)
THEOREM EpolloutIsOnWhileUnfinished == Spec => []EpolloutWhileUnfinished
<1>1. AnyClientInv => EpolloutWhileUnfinished
  BY DEF AnyClientInv
<1>2. QED
  BY <1>1, InitHasAny, NextKeepsAny, PTL DEF Spec

(* request.reset() is run on every way from a response to the next         *)
(* request: the parser is never left in the state of the last one          *)
(* (HttpServer.cpp:135, 172).                                              *)
THEOREM ParserIsReady == Spec => []ReadyForNextRequest
<1>1. AnyClientInv => ReadyForNextRequest
  BY DEF AnyClientInv
<1>2. QED
  BY <1>1, InitHasAny, NextKeepsAny, PTL DEF Spec

----------------------------------------------------------------------------
(* The units that were sent, as a sequence.                                *)
Follows(s, u) ==
  IF s = <<>> THEN u.response = 1
  ELSE IF s[Len(s)].last
       THEN u.response = s[Len(s)].response + 1
       ELSE u = [response |-> s[Len(s)].response, last |-> TRUE]

LEMMA LastsFinite ==
  ASSUME NEW s, NEW k \in Nat
  PROVE  IsFiniteSet(Lasts(s, k))
<1>1. IsFiniteSet(1 .. k)
  BY FS_Interval
<1>2. Lasts(s, k) \in SUBSET (1 .. k)
  BY DEF Lasts
<1>3. QED
  BY <1>1, <1>2, FS_Subset

LEMMA NoLasts == \A s : Cardinality(Lasts(s, 0)) = 0
<1>1. \A s : Lasts(s, 0) = {}
  BY DEF Lasts
<1>2. QED
  BY <1>1, FS_EmptySet

LEMMA UnitType ==
  \A v \in OutUnit : /\ v.response \in Nat /\ v.response >= 1
                     /\ v.last \in BOOLEAN
BY ConnectionAssumption DEF OutUnit

LEMMA StreamGrows ==
  ASSUME NEW s \in Seq(OutUnit), NEW n \in Nat, InOrder(s, n), Counted(s),
         NEW m \in Nat, n <= m,
         NEW u \in OutUnit, u.response <= m, Follows(s, u)
  PROVE  InOrder(Append(s, u), m) /\ Counted(Append(s, u))
<1> DEFINE t == Append(s, u)
<1>1. /\ t \in Seq(OutUnit)
      /\ Len(t) = Len(s) + 1
      /\ \A i \in 1 .. Len(s) : t[i] = s[i]
      /\ t[Len(t)] = u
      /\ Len(s) \in Nat
  OBVIOUS
<1>2. \A i \in 1 .. Len(t) : t[i] \in OutUnit
  BY <1>1
<1>3. \A v \in OutUnit : v.response \in Nat /\ v.last \in BOOLEAN
  BY UnitType
<1>4. s = <<>> <=> Len(s) = 0
  OBVIOUS
<1> HIDE DEF t
<1>5. InOrder(t, m)
  <2>1. \A i \in 1 .. Len(t) : t[i].response <= m
    <3> SUFFICES ASSUME NEW i \in 1 .. Len(t)
                 PROVE  t[i].response <= m
      OBVIOUS
    <3>1. CASE i = Len(t)
      BY <1>1, <3>1
    <3>2. CASE i \in 1 .. Len(s)
      BY <1>1, <1>2, <1>3, <3>2 DEF InOrder
    <3>3. QED
      BY <1>1, <3>1, <3>2
  <2>2. t[1].response = 1
    <3>1. CASE s = <<>>
      BY <1>1, <1>4, <3>1 DEF Follows
    <3>2. CASE s # <<>>
      <4>1. 1 \in 1 .. Len(s)
        BY <1>1, <1>4, <3>2
      <4>2. QED
        BY <1>1, <3>2, <4>1 DEF InOrder
    <3>3. QED
      BY <3>1, <3>2
  <2>3. ASSUME NEW i \in 1 .. Len(t) - 1
        PROVE  IF t[i].last
               THEN t[i + 1].response = t[i].response + 1
               ELSE t[i + 1] = [response |-> t[i].response, last |-> TRUE]
    <3>1. i \in 1 .. Len(s) /\ t[i] = s[i] /\ s # <<>>
      BY <1>1, <1>4
    <3>2. CASE i = Len(s)
      BY <1>1, <3>1, <3>2 DEF Follows
    <3>3. CASE i \in 1 .. Len(s) - 1
      <4>1. t[i + 1] = s[i + 1]
        BY <1>1, <3>3
      <4>2. QED
        BY <3>1, <3>3, <4>1 DEF InOrder
    <3>4. QED
      BY <1>1, <3>1, <3>2, <3>3
  <2>4. QED
    BY <2>1, <2>2, <2>3 DEF InOrder
<1>6. ASSUME NEW k \in 1 .. Len(t)
      PROVE  Cardinality(Lasts(t, k)) =
               IF t[k].last THEN t[k].response ELSE t[k].response - 1
  <2>1. \A j \in 0 .. Len(s) : Lasts(t, j) = Lasts(s, j)
    BY <1>1 DEF Lasts
  <2>2. CASE k \in 1 .. Len(s)
    BY <1>1, <2>1, <2>2 DEF Counted
  <2>3. CASE k = Len(t)
    <3>1. /\ IsFiniteSet(Lasts(s, Len(s)))
          /\ Len(t) \notin Lasts(s, Len(s))
      BY <1>1, LastsFinite DEF Lasts
    <3>2. Cardinality(Lasts(s, Len(s)) \cup {Len(t)})
            = Cardinality(Lasts(s, Len(s))) + 1
      BY <3>1, FS_AddElement
    <3>3. Lasts(t, k) = IF u.last THEN Lasts(s, Len(s)) \cup {Len(t)}
                        ELSE Lasts(s, Len(s))
      <4>1. \A i \in 1 .. Len(s) : t[i].last = s[i].last
        BY <1>1
      <4>2. CASE u.last
        BY <1>1, <2>3, <4>1, <4>2 DEF Lasts
      <4>3. CASE ~u.last
        BY <1>1, <2>3, <4>1, <4>3 DEF Lasts
      <4>4. QED
        BY <4>2, <4>3
    <3>4. CASE s = <<>>
      <4>1. Cardinality(Lasts(s, Len(s))) = 0 /\ u.response = 1
        BY <1>4, <3>4, NoLasts DEF Follows
      <4>2. QED
        BY <1>1, <2>3, <3>2, <3>3, <4>1
    <3>5. CASE s # <<>> /\ s[Len(s)].last
      <4>1. Len(s) \in 1 .. Len(s) /\ u.response = s[Len(s)].response + 1
        BY <1>1, <1>4, <3>5 DEF Follows
      <4>2. Cardinality(Lasts(s, Len(s))) = s[Len(s)].response
        BY <3>5, <4>1 DEF Counted
      <4>3. s[Len(s)].response \in Nat
        BY <1>3, <4>1
      <4>4. QED
        BY <1>1, <2>3, <3>2, <3>3, <4>1, <4>2, <4>3
    <3>6. CASE s # <<>> /\ ~s[Len(s)].last
      <4>1. /\ Len(s) \in 1 .. Len(s)
            /\ u = [response |-> s[Len(s)].response, last |-> TRUE]
        BY <1>1, <1>4, <3>6 DEF Follows
      <4>2. u.last /\ u.response = s[Len(s)].response
        BY <4>1
      <4>3. Cardinality(Lasts(s, Len(s))) = s[Len(s)].response - 1
        BY <3>6, <4>1 DEF Counted
      <4>4. s[Len(s)].response \in Nat
        BY <1>3, <4>1
      <4>5. QED
        <5>1. Cardinality(Lasts(t, k)) = s[Len(s)].response - 1 + 1
          BY <3>2, <3>3, <4>2, <4>3
        <5>2. t[k] = u
          BY <1>1, <2>3
        <5>3. QED
          BY <4>2, <4>4, <5>1, <5>2
    <3>7. QED
      BY <3>4, <3>5, <3>6
  <2>4. QED
    BY <1>1, <2>2, <2>3
<1>7. QED
  BY <1>5, <1>6 DEF Counted, t

LEMMA StreamPrefix ==
  ASSUME NEW s \in Seq(OutUnit), NEW n \in Nat, InOrder(s, n), Counted(s),
         NEW k \in 0 .. Len(s)
  PROVE  InOrder(SubSeq(s, 1, k), n) /\ Counted(SubSeq(s, 1, k))
<1> DEFINE t == SubSeq(s, 1, k)
<1>1. /\ t \in Seq(OutUnit)
      /\ Len(t) = k
      /\ k <= Len(s)
      /\ Len(s) \in Nat
      /\ \A i \in 1 .. k : t[i] = s[i]
      /\ t = <<>> <=> k = 0
      /\ s = <<>> => k = 0
  OBVIOUS
<1> HIDE DEF t
<1>2. InOrder(t, n)
  <2>1. \A i \in 1 .. Len(t) : t[i].response <= n
    BY <1>1 DEF InOrder
  <2>2. t # <<>> => t[1].response = 1
    BY <1>1 DEF InOrder
  <2>3. ASSUME NEW i \in 1 .. Len(t) - 1
        PROVE  IF t[i].last
               THEN t[i + 1].response = t[i].response + 1
               ELSE t[i + 1] = [response |-> t[i].response, last |-> TRUE]
    <3>1. i \in 1 .. Len(s) - 1 /\ t[i] = s[i] /\ t[i + 1] = s[i + 1]
      BY <1>1
    <3>2. QED
      BY <3>1 DEF InOrder
  <2>4. QED
    BY <2>1, <2>2, <2>3 DEF InOrder
<1>3. Counted(t)
  <2>1. \A j \in 1 .. k : Lasts(t, j) = Lasts(s, j)
    BY <1>1 DEF Lasts
  <2>2. QED
    BY <1>1, <2>1 DEF Counted
<1>4. QED
  BY <1>2, <1>3 DEF t

LEMMA StreamWaits ==
  ASSUME NEW s \in Seq(OutUnit), NEW n \in Nat, InOrder(s, n),
         NEW m \in Nat, n <= m
  PROVE  InOrder(s, m)
<1>1. \A i \in 1 .. Len(s) : s[i].response \in Nat
  <2>1. \A i \in 1 .. Len(s) : s[i] \in OutUnit
    OBVIOUS
  <2>2. QED
    BY <2>1, UnitType
<1>2. QED
  BY <1>1 DEF InOrder

(* When as many answers were read as requests were sent, nothing that was  *)
(* sent is unread, and the last unit ends the last response.               *)
LEMMA AllAnswered ==
  ASSUME AnyClientInv, StreamInv, Len(responses) <= Len(kinds),
         Answered = Len(kinds)
  PROVE  /\ unread = 0
         /\ Len(responses) = Len(kinds)
         /\ sent # <<>> => Last(sent).last
<1> DEFINE k == Len(sent) - unread
<1>1. /\ k \in Nat /\ k <= Len(sent) /\ unread \in Nat
      /\ Len(sent) \in Nat
      /\ Len(kinds) \in Nat /\ Len(responses) \in Nat
      /\ sent \in Seq(OutUnit)
      /\ sent = <<>> <=> Len(sent) = 0
  BY DEF AnyClientInv, TypeOK, BoundInv
<1>2. Cardinality(Lasts(sent, k)) = Len(kinds)
  BY DEF Answered, Lasts
<1>3. \A i \in 1 .. Len(sent) : sent[i].response \in 1 .. Len(responses)
  <2>1. \A i \in 1 .. Len(sent) : sent[i] \in OutUnit
    BY <1>1
  <2>2. \A i \in 1 .. Len(sent) : /\ sent[i].response \in Nat
                                  /\ sent[i].response >= 1
    BY <2>1, UnitType
  <2>3. QED
    BY <1>1, <2>2 DEF StreamInv, InOrder
<1> HIDE DEF k
<1>4. CASE k = 0
  <2>1. Len(kinds) = 0 /\ Len(responses) = 0
    BY <1>1, <1>2, <1>4, NoLasts
  <2>2. Len(sent) = 0
    <3>1. ~(1 \in 1 .. Len(sent))
      <4>1. \A v : ~(v \in 1 .. Len(responses))
        BY <2>1
      <4>2. QED
        BY <1>3, <4>1
    <3>2. QED
      BY <1>1, <3>1
  <2>3. QED
    BY <1>1, <1>4, <2>1, <2>2 DEF k
<1>5. CASE k # 0
  <2>1. k \in 1 .. Len(sent)
    BY <1>1, <1>5
  <2>2. Len(kinds) = IF sent[k].last THEN sent[k].response
                     ELSE sent[k].response - 1
    BY <1>2, <2>1 DEF StreamInv, Counted
  <2>3. sent[k].last /\ sent[k].response = Len(kinds)
        /\ Len(responses) = Len(kinds)
    BY <1>1, <1>3, <2>1, <2>2
  <2>4. k = Len(sent)
    <3>1. SUFFICES ASSUME k # Len(sent)
                   PROVE  FALSE
      OBVIOUS
    <3>2. k \in 1 .. Len(sent) - 1 /\ k + 1 \in 1 .. Len(sent)
      BY <1>1, <2>1, <3>1
    <3>3. sent[k + 1].response = sent[k].response + 1
      BY <2>3, <3>2 DEF StreamInv, InOrder
    <3>4. QED
      BY <1>1, <1>3, <2>3, <3>2, <3>3
  <2>5. QED
    BY <1>1, <2>3, <2>4 DEF Last, k
<1>6. QED
  BY <1>4, <1>5

----------------------------------------------------------------------------
(* One request in the parser.                                              *)
LEMMA SeqLength ==
  ASSUME NEW S, NEW s \in Seq(S)
  PROVE  s = <<>> <=> Len(s) = 0
OBVIOUS

LEMMA SeqTail ==
  ASSUME NEW S, NEW s \in Seq(S), s # <<>>, NEW t, t = Tail(s)
  PROVE  /\ t \in Seq(S)
         /\ Len(t) = Len(s) - 1
         /\ t = <<>> <=> Len(s) = 1
         /\ t # <<>> => Head(t) = s[2] /\ (Tail(t) = <<>> <=> Len(s) = 2)
<1>1. t \in Seq(S) /\ Len(t) = Len(s) - 1 /\ Len(s) \in Nat
  OBVIOUS
<1>2. t = <<>> <=> Len(s) = 1
  BY <1>1, SeqLength
<1>3. ASSUME t # <<>>
      PROVE  Head(t) = s[2] /\ (Tail(t) = <<>> <=> Len(s) = 2)
  <2>1. Head(t) = s[2]
    BY <1>1, <1>3
  <2>2. PICK tt : tt = Tail(t)
    OBVIOUS
  <2>3. tt \in Seq(S) /\ Len(tt) = Len(t) - 1
    BY <1>1, <1>3, <2>2
  <2>4. tt = <<>> <=> Len(tt) = 0
    BY <2>3, SeqLength
  <2>5. QED
    BY <1>1, <2>1, <2>2, <2>3, <2>4
<1>4. QED
  BY <1>1, <1>2, <1>3

LEMMA ParseFirstHalf ==
  ASSUME NEW p \in ParserState, ~p.failed, p.state = "kExpectRequestLine",
         p.buf # <<>>, Head(p.buf).part = 1,
         NEW q, q = ParseUnit(p)
  PROVE  IF Head(p.buf).kind = "badLine"
         THEN q.failed
         ELSE /\ ~q.failed
              /\ q.state = "kExpectHeaders"
              /\ q.buf = Tail(p.buf)
              /\ q.keepAlive = (Head(p.buf).kind # "close")
BY DEF ParseUnit, ParserState

LEMMA ParseSecondHalf ==
  ASSUME NEW p \in ParserState, ~p.failed, p.state = "kExpectHeaders",
         p.buf # <<>>, Head(p.buf).part = 2, Head(p.buf).kind # "large",
         NEW q, q = ParseUnit(p)
  PROVE  IF Head(p.buf).kind = "badHeader"
         THEN q.failed
         ELSE /\ ~q.failed
              /\ q.state = "kGotAll"
              /\ q.buf = Tail(p.buf)
              /\ q.keepAlive = p.keepAlive
BY DEF ParseUnit, ParserState

LEMMA ParseStops ==
  ASSUME NEW p \in ParserState, p.failed \/ p.state = "kGotAll" \/ p.buf = <<>>
  PROVE  ParseUnit(p) = p
BY DEF ParseUnit

(* A sequence of units of a large request, and what is made of it.         *)
LEMMA LargeParts ==
  ASSUME NEW s \in Seq(InUnit), OfLarge(s)
  PROVE  /\ \A m, n \in Nat : m >= 1 /\ n <= Len(s) => OfLarge(SubSeq(s, m, n))
         /\ s # <<>> => OfLarge(Tail(s)) /\ Head(s).kind = "large"
<1>1. ASSUME NEW m \in Nat, NEW n \in Nat, m >= 1, n <= Len(s)
      PROVE  OfLarge(SubSeq(s, m, n))
  <2>1. /\ Len(SubSeq(s, m, n)) = IF m <= n THEN n - m + 1 ELSE 0
        /\ \A i \in 1 .. n - m + 1 : SubSeq(s, m, n)[i] = s[m + i - 1]
    BY <1>1
  <2>2. PICK t : t = SubSeq(s, m, n)
    OBVIOUS
  <2>3. ASSUME NEW i \in 1 .. Len(t)
        PROVE  t[i].kind = "large"
    <3>1. i \in 1 .. n - m + 1 /\ m + i - 1 \in 1 .. Len(s)
      BY <1>1, <2>1, <2>2
    <3>2. QED
      BY <2>1, <2>2, <3>1 DEF OfLarge
  <2>4. QED
    BY <2>2, <2>3 DEF OfLarge
<1>2. ASSUME s # <<>>
      PROVE  OfLarge(Tail(s)) /\ Head(s).kind = "large"
  <2>1. /\ Tail(s) \in Seq(InUnit) /\ Len(Tail(s)) = Len(s) - 1
        /\ Len(s) \in Nat /\ Len(s) >= 1
        /\ \A i \in 1 .. Len(s) - 1 : Tail(s)[i] = s[i + 1]
        /\ Head(s) = s[1]
    BY <1>2
  <2>2. QED
    BY <2>1 DEF OfLarge
<1>3. QED
  BY <1>1, <1>2

LEMMA LargeConcat ==
  ASSUME NEW s \in Seq(InUnit), NEW t \in Seq(InUnit), OfLarge(s), OfLarge(t)
  PROVE  OfLarge(s \o t)
<1>1. /\ Len(s \o t) = Len(s) + Len(t)
      /\ Len(s) \in Nat /\ Len(t) \in Nat
      /\ \A i \in 1 .. Len(s) + Len(t) :
           (s \o t)[i] = IF i <= Len(s) THEN s[i] ELSE t[i - Len(s)]
  OBVIOUS
<1>2. PICK st : st = s \o t
  OBVIOUS
<1>3. ASSUME NEW i \in 1 .. Len(st)
      PROVE  st[i].kind = "large"
  BY <1>1, <1>2 DEF OfLarge
<1>4. QED
  BY <1>2, <1>3 DEF OfLarge

LEMMA LargeUnit ==
  ASSUME NEW u \in InUnit, u.kind = "large"
  PROVE  OfLarge(<<u>>) /\ <<u>> \in Seq(InUnit)
BY DEF OfLarge

(* The units of a large request alone never complete one, as the buffer    *)
(* cannot hold all of its body.                                            *)
LargeState(p) == OfLarge(p.buf) /\ p.state # "kGotAll"

LEMMA ParseLargeUnit ==
  ASSUME NEW p \in ParserState, LargeState(p), Len(p.buf) <= kMaxRequestSize
  PROVE  LargeState(ParseUnit(p))
<1>1. CASE p.failed \/ p.buf = <<>>
  BY <1>1 DEF ParseUnit
<1>2. CASE ~p.failed /\ p.buf # <<>>
  <2> DEFINE u == Head(p.buf)
             tail == Tail(p.buf)
             v == [u EXCEPT !.part = 3]
             rest == <<v>> \o tail
             q == ParseUnit(p)
  <2>1. u \in InUnit /\ tail \in Seq(InUnit) /\ u.kind = "large" /\ OfLarge(tail)
    BY <1>2, LargeParts DEF ParserState, LargeState
  <2>2. v \in InUnit /\ v.kind = "large"
    BY <2>1 DEF InUnit
  <2>3. OfLarge(rest)
    BY <2>1, <2>2, LargeUnit, LargeConcat
  <2>4. Len(p.buf) < BodyLength
    BY ConnectionAssumption DEF BodyLength, ParserState
  <2>5. \/ q = p
        \/ q.buf = tail /\ q.state \in {p.state, "kExpectHeaders", "kExpectBody"}
        \/ q.buf = rest /\ q.state = p.state
    BY <1>2, <2>1, <2>4 DEF ParseUnit, ParserState, State, LargeState
  <2> HIDE DEF u, v, tail, rest, q
  <2>6. LargeState(q)
    BY <2>1, <2>3, <2>5 DEF LargeState
  <2>7. QED
    BY <2>6 DEF q
<1>3. QED
  BY <1>1, <1>2

LEMMA ParseLarge ==
  ASSUME AnyClientInv, LargeInRequest, NEW n \in 1 .. Len(inbox)
  PROVE  /\ LargeState(Parse(SubSeq(inbox, 1, n)))
         /\ OfLarge(SubSeq(inbox, n + 1, Len(inbox)))
<1> DEFINE data == SubSeq(inbox, 1, n)
           R == Received(data)
           q == ParseUnit(R)
           r == ParseUnit(q)
<1>1. /\ inbox \in Seq(InUnit) /\ Len(inbox) \in Nat
      /\ buf_ \in Seq(InUnit) /\ Len(buf_) \in Nat
      /\ OfLarge(inbox) /\ OfLarge(buf_) /\ state_ # "kGotAll"
      /\ n \in Nat /\ n <= Len(inbox)
  BY DEF AnyClientInv, TypeOK, LargeInRequest
<1>2. /\ data \in Seq(InUnit)
      /\ OfLarge(data)
      /\ OfLarge(SubSeq(inbox, n + 1, Len(inbox)))
  <2>1. \A i, j \in Nat : i >= 1 /\ j <= Len(inbox) => OfLarge(SubSeq(inbox, i, j))
    BY <1>1, LargeParts
  <2>2. 1 \in Nat /\ n + 1 \in Nat /\ n + 1 >= 1
    BY <1>1
  <2>3. QED
    BY <1>1, <2>1, <2>2
<1> HIDE DEF data
<1>3. CASE Len(buf_) + Len(data) > kMaxRequestSize
  <2>1. Parse(data).buf = buf_ \o <<>> /\ Parse(data).state = state_
    BY <1>3 DEF Parse, Received
  <2>2. buf_ \o <<>> = buf_
    BY <1>1
  <2>3. QED
    BY <1>1, <1>2, <2>1, <2>2 DEF LargeState, data
<1>4. CASE ~(Len(buf_) + Len(data) > kMaxRequestSize)
  <2>1. /\ R \in ParserState
        /\ R.buf = buf_ \o data /\ R.state = state_
        /\ Len(R.buf) <= kMaxRequestSize
    BY <1>1, <1>2, <1>4, ConnectionAssumption
       DEF Received, ParserState, AnyClientInv, TypeOK
  <2>2. LargeState(R)
    BY <1>1, <1>2, <2>1, LargeConcat DEF LargeState
  <2>3. Parse(data) = ParseUnit(r)
    BY <1>4 DEF Parse, ParseBuffer
  <2> HIDE DEF R
  <2>4. q \in ParserState /\ Len(q.buf) <= kMaxRequestSize /\ LargeState(q)
    <3>1. q \in ParserState /\ Len(q.buf) <= Len(R.buf) /\ LargeState(q)
      BY <2>1, <2>2, ParseUnitType, ParseLargeUnit
    <3>2. QED
      BY <2>1, <3>1, ConnectionAssumption DEF ParserState
  <2> HIDE DEF q
  <2>5. r \in ParserState /\ Len(r.buf) <= kMaxRequestSize /\ LargeState(r)
    <3>1. r \in ParserState /\ Len(r.buf) <= Len(q.buf) /\ LargeState(r)
      BY <2>4, ParseUnitType, ParseLargeUnit
    <3>2. QED
      BY <2>4, <3>1, ConnectionAssumption DEF ParserState
  <2> HIDE DEF r
  <2>6. LargeState(ParseUnit(r))
    BY <2>5, ParseLargeUnit
  <2>7. QED
    BY <1>2, <2>3, <2>6 DEF data
<1>5. QED
  BY <1>3, <1>4

(* What parse may return for the units of another request in progress: it  *)
(* is refused, complete, or half read.                                     *)
PartRefused(p, n) ==
  /\ p.failed
  /\ n < Len(inbox) \/ Sending => Last(kinds) \in Refused

Complete(p, n) ==
  /\ ~p.failed
  /\ p.state = "kGotAll"
  /\ p.buf = <<>>
  /\ n = Len(inbox)
  /\ ~Sending

HalfRead(p, n) ==
  /\ ~p.failed
  /\ p.state = "kExpectHeaders"
  /\ p.buf = <<>>
  /\ p.keepAlive = (Last(kinds) # "close")
  /\ Last(kinds) # "badLine"
  /\ state_ = "kExpectRequestLine"
  /\ n = 1

LEMMA ExpectedUnits ==
  ASSUME AnyClientInv, SmallInRequest, inbox # <<>>
  PROVE  /\ ~ClientReset
         /\ Len(inbox) = 1 \/ (Len(inbox) = 2 /\ ~Sending)
         /\ state_ \in {"kExpectRequestLine", "kExpectHeaders"}
         /\ state_ = "kExpectRequestLine" =>
              /\ inbox[1] = Half(1)
              /\ IF Sending THEN Len(inbox) = 1
                 ELSE Len(inbox) = 2 /\ inbox[2] = Half(2)
         /\ state_ = "kExpectHeaders" =>
              ~Sending /\ Len(inbox) = 1 /\ inbox[1] = Half(2)
<1>1. /\ ~ClientReset
      /\ inbox = Expected
      /\ state_ \in {"kExpectRequestLine", "kExpectHeaders"}
  BY DEF SmallInRequest, Expected
<1>2. CASE state_ = "kExpectRequestLine" /\ Sending
  <2>1. inbox = <<Half(1)>>
    BY <1>1, <1>2 DEF Expected
  <2>2. Len(inbox) = 1 /\ inbox[1] = Half(1)
    BY <2>1
  <2>3. QED
    BY <1>1, <1>2, <2>2
<1>3. CASE state_ = "kExpectRequestLine" /\ ~Sending
  <2>1. inbox = <<Half(1), Half(2)>>
    BY <1>1, <1>3 DEF Expected
  <2>2. QED
    BY <1>1, <1>3, <2>1
<1>4. CASE state_ = "kExpectHeaders"
  <2>1. ~Sending
    BY <1>1, <1>4 DEF Expected
  <2>2. inbox = <<Half(2)>>
    BY <1>1, <1>4, <2>1 DEF Expected
  <2>3. QED
    BY <1>1, <1>4, <2>1, <2>2
<1>5. QED
  BY <1>1, <1>2, <1>3, <1>4

(* Of at most two units, n are two if they are not one.                    *)
LEMMA OneOrTwo ==
  ASSUME NEW len \in Nat, NEW n \in 1 .. len, NEW b \in BOOLEAN,
         (len = 1) \/ (len = 2 /\ b), n # 1
  PROVE  n = 2 /\ len = 2 /\ b
<1>1. n >= 1 /\ n <= len /\ n \in Nat
  OBVIOUS
<1>2. len # 1
  BY <1>1
<1>3. QED
  BY <1>1, <1>2

LEMMA ParseSmall ==
  ASSUME AnyClientInv, SmallInRequest, Last(kinds) # "large",
         NEW n \in 1 .. Len(inbox), NEW p, p = Parse(SubSeq(inbox, 1, n))
  PROVE  PartRefused(p, n) \/ Complete(p, n) \/ HalfRead(p, n)
<1> DEFINE data == SubSeq(inbox, 1, n)
           k == Last(kinds)
           R == Received(data)
           q == ParseUnit(R)
<1>1. /\ inbox \in Seq(InUnit)
      /\ inbox # <<>>
      /\ Len(inbox) \in Nat
      /\ buf_ = <<>>
  BY DEF AnyClientInv, TypeOK, SmallInRequest
<1>2. /\ data \in Seq(InUnit)
      /\ Len(data) = n
      /\ n \in 1 .. Len(inbox)
      /\ \A i \in 1 .. n : data[i] = inbox[i]
  BY <1>1
<1>3. /\ ~ClientReset
      /\ Len(inbox) = 1 \/ (Len(inbox) = 2 /\ ~Sending)
      /\ state_ \in {"kExpectRequestLine", "kExpectHeaders"}
      /\ state_ = "kExpectRequestLine" =>
           /\ inbox[1] = Half(1)
           /\ IF Sending THEN Len(inbox) = 1
              ELSE Len(inbox) = 2 /\ inbox[2] = Half(2)
      /\ state_ = "kExpectHeaders" =>
           ~Sending /\ Len(inbox) = 1 /\ inbox[1] = Half(2)
  BY <1>1, ExpectedUnits
<1>4. buf_ \o data = data
  BY <1>1, <1>2
<1> HIDE DEF data
<1>5. /\ R \in ParserState
      /\ R.state = state_ /\ R.buf = data /\ ~R.failed
      /\ R.keepAlive = reqKeepAlive
  BY <1>2, <1>4 DEF Received, ParserState, AnyClientInv, TypeOK
<1>6. \A i \in {1, 2} : Half(i).kind = k /\ Half(i).part = i
  BY DEF Half
<1>7. CASE Len(buf_) + Len(data) > kMaxRequestSize
  <2>1. p.failed
    BY <1>7 DEF Parse, data, Received
  <2>2. Len(data) > kMaxRequestSize
    BY <1>1, <1>2, <1>7
  <2>3. n > 1
    BY <1>2, <2>2, ConnectionAssumption
  <2>4. n = Len(inbox) /\ ~Sending
    <3>1. (Len(inbox) = 1) \/ (Len(inbox) = 2 /\ ~Sending)
      BY <1>3
    <3>2. Len(inbox) \in Nat /\ n # 1 /\ (~Sending) \in BOOLEAN
      BY <1>1, <2>3
    <3>3. QED
      BY <3>1, <3>2, OneOrTwo
  <2>5. QED
    BY <1>1, <2>1, <2>4 DEF PartRefused
<1>8. CASE ~(Len(buf_) + Len(data) > kMaxRequestSize)
  <2>1. p = ParseUnit(ParseUnit(q))
    BY <1>8 DEF Parse, ParseBuffer, data
  <2> HIDE DEF R
  <2>2. q \in ParserState
    BY <1>5, ParseUnitType
  <2>3. Head(data) = data[1] /\ data # <<>> /\ Len(Tail(data)) = n - 1
    BY <1>2
  <2> HIDE DEF q
  <2>5. CASE state_ = "kExpectRequestLine"
    <3>1. data[1] = Half(1)
      BY <1>2, <1>3, <2>5
    <3>2. IF k = "badLine" THEN q.failed
          ELSE /\ ~q.failed
               /\ q.state = "kExpectHeaders"
               /\ q.buf = Tail(data)
               /\ q.keepAlive = (k # "close")
      <4>1. Head(R.buf).kind = k /\ Head(R.buf).part = 1
        BY <1>5, <1>6, <2>3, <3>1
      <4>2. QED
        BY <1>5, <2>3, <2>5, <4>1, ParseFirstHalf DEF q
    <3>3. CASE k = "badLine"
      <4>1. p.failed
        BY <2>1, <2>2, <3>2, <3>3, ParseStops
      <4>2. QED
        BY <3>3, <4>1 DEF PartRefused, Refused
    <3>4. CASE k # "badLine" /\ n = 1
      <4>1. q.buf = <<>>
        BY <1>2, <2>3, <3>2, <3>4
      <4>2. p = q
        BY <2>1, <2>2, <4>1, ParseStops
      <4>3. QED
        BY <2>5, <3>2, <3>4, <4>1, <4>2 DEF HalfRead
    <3>5. CASE k # "badLine" /\ n # 1
      <4>1. Len(inbox) = 2 /\ inbox[2] = Half(2) /\ n = 2 /\ ~Sending
        <5>1. (Len(inbox) = 1) \/ (Len(inbox) = 2 /\ ~Sending)
          BY <1>3
        <5>2. Len(inbox) \in Nat /\ n # 1 /\ (~Sending) \in BOOLEAN
          BY <1>1, <3>5
        <5>3. n = 2 /\ Len(inbox) = 2 /\ ~Sending
          BY <5>1, <5>2, OneOrTwo
        <5>4. QED
          BY <1>3, <2>5, <5>3
      <4>2. q.buf # <<>> /\ Head(q.buf) = Half(2) /\ Tail(q.buf) = <<>>
        <5>1. q.buf = Tail(data) /\ data[2] = Half(2) /\ Len(data) = 2
          BY <1>2, <3>2, <3>5, <4>1
        <5>2. /\ q.buf = <<>> <=> Len(data) = 1
              /\ q.buf # <<>> => /\ Head(q.buf) = data[2]
                                 /\ Tail(q.buf) = <<>> <=> Len(data) = 2
          BY <1>2, <2>3, <5>1, SeqTail
        <5>3. QED
          BY <5>1, <5>2
      <4>3. IF k = "badHeader" THEN p.failed
            ELSE /\ ~p.failed
                 /\ p.state = "kGotAll"
                 /\ p.buf = Tail(q.buf)
        <5>1. Head(q.buf).kind = k /\ Head(q.buf).part = 2
          BY <1>6, <4>2
        <5>2. PICK r : r = ParseUnit(q)
          OBVIOUS
        <5>3. IF k = "badHeader" THEN r.failed
              ELSE /\ ~r.failed
                   /\ r.state = "kGotAll"
                   /\ r.buf = Tail(q.buf)
          BY <2>2, <3>2, <3>5, <4>2, <5>1, <5>2, ParseSecondHalf
        <5>4. r \in ParserState
          BY <2>2, <5>2, ParseUnitType
        <5>5. p = r
          BY <2>1, <5>2, <5>3, <5>4, ParseStops
        <5>6. QED
          BY <5>3, <5>5
      <4>4. CASE p.failed
        BY <4>1, <4>4 DEF PartRefused
      <4>5. CASE ~p.failed
        BY <4>1, <4>2, <4>3, <4>5 DEF Complete
      <4>6. QED
        BY <4>4, <4>5
    <3>6. QED
      BY <3>3, <3>4, <3>5
  <2>6. CASE state_ = "kExpectHeaders"
    <3>1. /\ data[1] = Half(2)
          /\ n = Len(inbox) /\ n = 1 /\ ~Sending
      <4>1. Len(inbox) = 1 /\ inbox[1] = Half(2) /\ ~Sending
        BY <1>3, <2>6
      <4>2. n = 1
        BY <1>2, <4>1
      <4>3. data[1] = inbox[1]
        BY <1>2, <4>2
      <4>4. QED
        BY <4>1, <4>2, <4>3
    <3>2. IF k = "badHeader" THEN q.failed
          ELSE /\ ~q.failed
               /\ q.state = "kGotAll"
               /\ q.buf = Tail(data)
      <4>1. Head(R.buf).kind = k /\ Head(R.buf).part = 2
        BY <1>5, <1>6, <2>3, <3>1
      <4>2. QED
        BY <1>5, <2>3, <2>6, <4>1, ParseSecondHalf DEF q
    <3>3. p = q
      BY <2>1, <2>2, <3>2, ParseStops
    <3>4. Tail(data) = <<>>
      <4>1. PICK t : t = Tail(data)
        OBVIOUS
      <4>2. t = <<>> <=> Len(data) = 1
        BY <1>2, <2>3, <4>1, SeqTail
      <4>3. QED
        BY <1>2, <3>1, <4>1, <4>2
    <3>5. CASE p.failed
      BY <3>1, <3>5 DEF PartRefused
    <3>6. CASE ~p.failed
      BY <3>1, <3>2, <3>3, <3>4, <3>6 DEF Complete
    <3>7. QED
      BY <3>5, <3>6
  <2>7. QED
    BY <1>3, <2>5, <2>6
<1>9. QED
  BY <1>7, <1>8

----------------------------------------------------------------------------
(* What a write hands to the kernel.                                       *)
LEMMA ConcatOne ==
  ASSUME NEW S, NEW s \in Seq(S), NEW w \in Seq(S), Len(w) >= 1
  PROVE  s \o SubSeq(w, 1, 1) = Append(s, w[1])
<1>1. w[1] \in S /\ 1 \in 1 .. Len(w)
  OBVIOUS
<1>2. PICK v : v = SubSeq(w, 1, 1)
  OBVIOUS
<1>3. v \in Seq(S)
  BY <1>1, <1>2, SubSeqProperties
<1>4. Len(v) = 1 /\ v[1] = w[1]
  BY <1>1, <1>2, SubSeqProperties
<1>5. PICK l : l = s \o v
  OBVIOUS
<1>6. /\ l \in Seq(S)
      /\ Len(l) = Len(s) + Len(v)
      /\ \A i \in 1 .. Len(s) + Len(v) :
           l[i] = IF i <= Len(s) THEN s[i] ELSE v[i - Len(s)]
  BY <1>3, <1>5, ConcatProperties
<1>7. PICK r : r = Append(s, w[1])
  OBVIOUS
<1>8. /\ r \in Seq(S)
      /\ Len(r) = Len(s) + 1
      /\ \A i \in 1 .. Len(s) : r[i] = s[i]
      /\ r[Len(s) + 1] = w[1]
  BY <1>1, <1>7, AppendProperties
<1>9. Len(s) \in Nat
  OBVIOUS
<1>10. Len(l) = Len(r)
  BY <1>4, <1>6, <1>8
<1>11. ASSUME NEW i \in 1 .. Len(s) + 1
       PROVE  l[i] = r[i]
  <2>1. l[i] = IF i <= Len(s) THEN s[i] ELSE v[i - Len(s)]
    BY <1>4, <1>6, <1>9
  <2>2. CASE i \in 1 .. Len(s)
    BY <1>8, <1>9, <2>1, <2>2
  <2>3. CASE i = Len(s) + 1
    BY <1>4, <1>8, <1>9, <2>1, <2>3
  <2>4. QED
    BY <1>9, <2>2, <2>3
<1>12. l = r
  BY <1>6, <1>8, <1>10, <1>11, SeqEqual
<1>13. QED
  BY <1>2, <1>5, <1>7, <1>12

LEMMA ConcatTwo ==
  ASSUME NEW S, NEW s \in Seq(S), NEW w \in Seq(S), Len(w) >= 2
  PROVE  s \o SubSeq(w, 1, 2) = Append(Append(s, w[1]), w[2])
<1>1. w[1] \in S /\ w[2] \in S /\ Len(w) \in Nat
  OBVIOUS
<1>2. SubSeq(w, 1, 2) = SubSeq(w, 1, 1) \o SubSeq(w, 2, 2)
  BY <1>1, ConcatAdjacentSubSeq
<1>3. PICK v : v = SubSeq(w, 2, 2)
  OBVIOUS
<1>4. v \in Seq(S)
  BY <1>1, <1>3, SubSeqProperties
<1>5. Len(v) = 1 /\ v[1] = w[2]
  BY <1>1, <1>3, SubSeqProperties
<1>6. PICK a : a = SubSeq(w, 1, 1)
  OBVIOUS
<1>7. a \in Seq(S)
  BY <1>1, <1>6, SubSeqProperties
<1>8. s \o (a \o v) = (s \o a) \o v
  BY <1>4, <1>7
<1>9. s \o a = Append(s, w[1])
  BY <1>1, <1>6, ConcatOne
<1>10. PICK r : r = Append(s, w[1])
  OBVIOUS
<1>11. r \in Seq(S)
  BY <1>1, <1>10, AppendProperties
<1>12. SubSeq(v, 1, 1) = v
  BY <1>4, <1>5, SubSeqFull
<1>13. r \o v = Append(r, w[2])
  <2>1. r \o SubSeq(v, 1, 1) = Append(r, v[1])
    <3>1. Len(v) >= 1
      BY <1>5
    <3>2. QED
      BY <1>4, <1>11, <3>1, ConcatOne
  <2>2. QED
    BY <1>5, <1>12, <2>1
<1>14. QED
  BY <1>2, <1>3, <1>6, <1>8, <1>9, <1>10, <1>13

LEMMA WriteOne ==
  ASSUME AnyClientInv, NEW u \in OutUnit, NEW w, w = <<u>>, Room > 0, Write(w)
  PROVE  /\ Fits(w)
         /\ sent' = Append(sent, u)
         /\ unread' = unread + 1
         /\ Rest(w) = <<>>
         /\ ~ClientReset'
         /\ killed' = killed
<1>1. w \in Seq(OutUnit) /\ Len(w) = 1 /\ w[1] = u
  OBVIOUS
<1>2. /\ sent \in Seq(OutUnit) /\ unread \in Nat /\ SndBuf \in Nat
      /\ unread <= Len(sent)
  BY ConnectionAssumption DEF AnyClientInv, TypeOK, BoundInv
<1>3. Fits(w)
  BY <1>1, <1>2 DEF Fits, Room
<1>4. sent' = sent \o SubSeq(w, 1, 1) /\ unread' = unread + 1
  BY <1>1, <1>3 DEF Write
<1>5. Rest(w) = <<>>
  BY <1>1, <1>2, <1>3, WriteType DEF AnyClientInv
<1>6. sent \o SubSeq(w, 1, 1) = Append(sent, w[1])
  BY <1>1, <1>2, ConcatOne
<1>7. QED
  BY <1>1, <1>3, <1>4, <1>5, <1>6 DEF Write

LEMMA WriteTwo ==
  ASSUME AnyClientInv, NEW u \in OutUnit, NEW v \in OutUnit,
         NEW w, w = <<u, v>>, unread = 0, Write(w)
  PROVE  /\ \/ /\ Fits(w)
               /\ sent' = Append(Append(sent, u), v)
            \/ /\ ~Fits(w)
               /\ sent' = Append(sent, u)
               /\ unread' = 1
               /\ Rest(w) = <<v>>
         /\ ~ClientReset'
         /\ killed' = killed
<1>1. w \in Seq(OutUnit) /\ Len(w) = 2 /\ w[1] = u /\ w[2] = v
      /\ Len(w) >= 2
  OBVIOUS
<1>2. /\ sent \in Seq(OutUnit) /\ SndBuf \in Nat /\ SndBuf >= 1
      /\ unread <= Len(sent)
      /\ Room = SndBuf
  BY ConnectionAssumption DEF AnyClientInv, TypeOK, BoundInv, Room
<1>3. CASE Fits(w)
  <2>1. sent' = sent \o SubSeq(w, 1, 2)
    BY <1>1, <1>3 DEF Write
  <2>2. sent \o SubSeq(w, 1, 2) = Append(Append(sent, w[1]), w[2])
    BY <1>1, <1>2, ConcatTwo
  <2>3. QED
    BY <1>1, <1>3, <2>1, <2>2 DEF Write
<1>4. CASE ~Fits(w)
  <2>1. Room = 1
    BY <1>1, <1>2, <1>4 DEF Fits
  <2>2. sent' = sent \o SubSeq(w, 1, 1) /\ unread' = 1
    BY <1>4, <2>1 DEF Write
  <2>3. sent \o SubSeq(w, 1, 1) = Append(sent, w[1])
    BY <1>1, <1>2, ConcatOne
  <2>4. Rest(w) = <<v>>
    <3>1. PICK r : r = SubSeq(w, 2, 2)
      OBVIOUS
    <3>2. r \in Seq(OutUnit) /\ Len(r) = 1 /\ r[1] = v
      BY <1>1, <3>1
    <3>3. r = <<v>>
      BY <3>2
    <3>4. Rest(w) = r
      BY <1>1, <2>1, <3>1 DEF Rest
    <3>5. QED
      BY <3>3, <3>4
  <2>5. QED
    BY <1>1, <1>4, <2>2, <2>3, <2>4 DEF Write
<1>5. QED
  BY <1>3, <1>4

----------------------------------------------------------------------------
(* A client that waits for its answers: its own steps.                     *)
LEMMA OneUnit ==
  ASSUME NEW S, NEW u \in S, NEW e, e = <<>>, NEW s, s = Append(e, u)
  PROVE  s = <<u>>
OBVIOUS

LEMMA PairOf ==
  ASSUME NEW S, NEW s \in Seq(S), Len(s) = 2
  PROVE  s = <<s[1], s[2]>>
OBVIOUS

LEMMA TwoUnits ==
  ASSUME NEW S, NEW u \in S, NEW v \in S, NEW e, e = <<u>>,
         NEW s, s = Append(e, v)
  PROVE  s = <<u, v>>
<1>1. e \in Seq(S) /\ Len(e) = 1 /\ e[1] = u
  OBVIOUS
<1>2. /\ s \in Seq(S)
      /\ Len(s) = Len(e) + 1
      /\ s[Len(e) + 1] = v
      /\ \A i \in 1 .. Len(e) : s[i] = e[i]
  BY <1>1, AppendProperties
<1>3. Len(s) = 2 /\ s[1] = u /\ s[2] = v
  BY <1>1, <1>2
<1>4. QED
  BY <1>2, <1>3, PairOf

LEMMA InitIsPolite == Init => PoliteInv
<1> SUFFICES ASSUME Init
             PROVE  PoliteInv
  OBVIOUS
<1>1. StreamInv /\ KeepInv
  BY DEF Init, StreamInv, InOrder, Counted, KeepInv, Kept
<1>2. ServingInv /\ StoppedInv
  BY DEF Init, ServingInv, StoppedInv, Serving, Idle, AllSent, Sending
<1>3. QED
  BY <1>1, <1>2 DEF PoliteInv

LEMMA NoMoreResponses ==
  ASSUME AnyClientInv, PoliteInv
  PROVE  Len(responses) <= Len(kinds)
<1>1. Len(responses) \in Nat /\ Len(kinds) \in Nat
  BY DEF AnyClientInv, TypeOK
<1>2. QED
  BY <1>1 DEF PoliteInv, ServingInv, StoppedInv, Idle, InRequest, Responding

LEMMA StreamUnchanged ==
  ASSUME StreamInv, KeepInv, UNCHANGED <<sent, responses, closing>>
  PROVE  StreamInv' /\ KeepInv'
BY DEF StreamInv, KeepInv

LEMMA BeginKeepsPolite ==
  ASSUME AnyClientInv, polite, PoliteInv, NEW kind \in Kinds, BeginRequest(kind)
  PROVE  PoliteInv'
<1> DEFINE u == Unit(kind, 1)
<1>1. /\ client = "open" /\ ~Sending /\ Sending'
      /\ Answered = Len(kinds)
      /\ kinds' = Append(kinds, kind)
      /\ inbox' = Append(inbox, u)
      /\ UNCHANGED <<polite, client, sent, unread, server>>
  BY UnitsType DEF BeginRequest, Sending
<1>2. UNCHANGED <<state_, buf_, reqKeepAlive, responses, writeBuf, writing,
                  closing, killed>>
  BY <1>1 DEF server
<1>3. /\ unread = 0
      /\ Len(responses) = Len(kinds)
      /\ sent # <<>> => Last(sent).last
  BY <1>1, NoMoreResponses, AllAnswered DEF PoliteInv
<1>4. /\ Len(kinds') = Len(kinds) + 1 /\ Last(kinds') = kind
      /\ Len(kinds) \in Nat
  BY <1>1 DEF AnyClientInv, TypeOK, Last
<1>5. ServingInv'
  <2> SUFFICES ASSUME Serving
               PROVE  InRequest'
    BY <1>2 DEF ServingInv, Serving
  <2>1. Idle
    <3>1. ~InRequest
      BY <1>3, <1>4 DEF InRequest
    <3>2. ~Responding
      <4>1. SUFFICES ASSUME Responding
                     PROVE  FALSE
        OBVIOUS
      <4>2. sent # <<>> /\ Last(sent) = [response |-> Len(responses), last |-> FALSE]
        BY <4>1 DEF Responding
      <4>3. Last(sent).last = FALSE
        BY <4>2
      <4>4. QED
        BY <1>3, <4>2, <4>3
    <3>3. QED
      BY <3>1, <3>2 DEF PoliteInv, ServingInv
  <2>2. AllSent'
    BY <1>1, <1>2, <2>1 DEF Idle, AllSent
  <2>3. inbox' = <<u>> /\ buf_' = <<>> /\ state_' = "kExpectRequestLine"
    BY <1>1, <1>2, <2>1, OneUnit DEF Idle
  <2>4. CASE kind = "large"
    <3>1. OfLarge(<<u>>)
      BY <2>4, UnitInType, LargeUnit DEF Unit
    <3>2. LargeInRequest'
      BY <2>3, <3>1 DEF LargeInRequest, OfLarge
    <3>3. QED
      BY <1>1, <1>2, <1>3, <1>4, <2>2, <2>4, <3>2 DEF InRequest
  <2>5. CASE kind # "large"
    <3>1. Half(1)' = u
      BY <1>4 DEF Half, Unit
    <3>2. ~ClientReset'
      BY <1>1 DEF ClientReset
    <3>3. Expected' = <<u>>
      BY <1>1, <2>3, <3>1, <3>2 DEF Expected
    <3>4. SmallInRequest'
      BY <2>3, <3>3 DEF SmallInRequest
    <3>5. QED
      BY <1>1, <1>2, <1>3, <1>4, <2>2, <2>5, <3>4 DEF InRequest
  <2>6. QED
    BY <2>4, <2>5
<1>6. StoppedInv'
  <2> SUFFICES ASSUME ~Serving
               PROVE  StoppedInv'
    BY <1>2 DEF StoppedInv, Serving
  <2>1. Len(responses') <= Len(kinds') /\ unread' = 0
    BY <1>1, <1>2, <1>3, <1>4
  <2>2. ~killed'
    BY <1>1, <1>2 DEF PoliteInv, StoppedInv, ClientReset
  <2>3. sent' # <<>> => Last(sent').last
    BY <1>1, <1>3
  <2>4. QED
    BY <2>1, <2>2, <2>3 DEF StoppedInv
<1>7. QED
  BY <1>1, <1>2, <1>5, <1>6, StreamUnchanged DEF PoliteInv

LEMMA SendMoreKeepsPolite ==
  ASSUME AnyClientInv, PoliteInv, SendMore
  PROVE  PoliteInv'
<1> DEFINE kind == Last(kinds)
           u == Unit(kind, Units(kind) - left + 1)
<1>1. /\ client = "open" /\ Sending
      /\ inbox' = Append(inbox, u)
      /\ left' = left - 1
      /\ UNCHANGED <<polite, kinds, client, sent, unread, server>>
  BY DEF SendMore, Sending
<1>2. UNCHANGED <<state_, buf_, reqKeepAlive, responses, writeBuf, writing,
                  closing, killed>>
  BY <1>1 DEF server
<1>3. /\ kind \in Kinds
      /\ left \in Nat /\ left > 0 /\ left < Units(kind)
      /\ u \in InUnit /\ u.kind = kind
  <2>1. kind \in Kinds /\ left \in Nat /\ left > 0 /\ left < Units(kind)
    BY <1>1 DEF AnyClientInv, TypeOK, BoundInv, Last, Sending
  <2>2. Units(kind) - left + 1 \in Nat \ {0}
    BY <2>1, UnitsType
  <2>3. u \in InUnit
    BY <2>1, <2>2, UnitInType
  <2>4. QED
    BY <2>1, <2>3 DEF Unit
<1>4. kind # "large" => u = Half(2) /\ ~Sending'
  <2> SUFFICES ASSUME kind # "large"
               PROVE  u = Half(2) /\ ~Sending'
    OBVIOUS
  <2>1. Units(kind) = 2
    BY DEF Units
  <2>2. left = 1
    BY <1>3, <2>1
  <2>3. QED
    BY <1>1, <2>1, <2>2 DEF Unit, Half, Sending
<1> HIDE DEF u
<1>5. ServingInv'
  <2> SUFFICES ASSUME Serving
               PROVE  InRequest'
    BY <1>2 DEF ServingInv, Serving
  <2>1. InRequest
    BY <1>1 DEF PoliteInv, ServingInv, Idle, Responding
  <2>2. CASE kind = "large"
    <3>1. LargeInRequest
      BY <2>1, <2>2 DEF InRequest
    <3>2. OfLarge(<<u>>) /\ <<u>> \in Seq(InUnit) /\ inbox \in Seq(InUnit)
      <4>1. u \in InUnit /\ u.kind = "large"
        BY <1>3, <2>2
      <4>2. OfLarge(<<u>>) /\ <<u>> \in Seq(InUnit)
        BY <4>1, LargeUnit
      <4>3. QED
        BY <4>2 DEF AnyClientInv, TypeOK
    <3>3. OfLarge(inbox \o <<u>>)
      BY <3>1, <3>2, LargeConcat DEF LargeInRequest
    <3>4. inbox' = inbox \o <<u>>
      BY <1>1, <1>3, <3>2
    <3>5. LargeInRequest'
      BY <1>2, <3>1, <3>3, <3>4 DEF LargeInRequest, OfLarge
    <3>6. QED
      BY <1>1, <1>2, <2>1, <2>2, <3>5 DEF InRequest, AllSent
  <2>3. CASE kind # "large"
    <3> USE <2>3
    <3>1. SmallInRequest
      BY <2>1 DEF InRequest
    <3>2. ~ClientReset /\ ~ClientReset'
      BY <1>1 DEF ClientReset
    <3>3. Half(1)' = Half(1) /\ Half(2)' = Half(2)
      BY <1>1 DEF Half
    <3>4. Half(1) \in InUnit /\ Half(2) \in InUnit
      BY <1>3 DEF Half, InUnit
    <3>5. inbox' = Expected'
      <4>1. CASE state_ = "kExpectRequestLine"
        <5>1. inbox = <<Half(1)>>
          BY <1>1, <3>1, <3>2, <4>1 DEF SmallInRequest, Expected
        <5>2. inbox' = <<Half(1), Half(2)>>
          BY <1>1, <1>4, <3>4, <5>1, TwoUnits
        <5>3. QED
          BY <1>2, <1>4, <3>2, <3>3, <4>1, <5>2 DEF Expected
      <4>2. CASE state_ # "kExpectRequestLine"
        <5>1. inbox = <<>>
          BY <1>1, <3>1, <3>2, <4>2 DEF SmallInRequest, Expected
        <5>2. inbox' = <<Half(2)>>
          BY <1>1, <1>4, <3>4, <5>1, OneUnit
        <5>3. QED
          BY <1>2, <1>4, <3>2, <3>3, <4>2, <5>2 DEF Expected
      <4>3. QED
        BY <4>1, <4>2
    <3>6. SmallInRequest'
      BY <1>1, <1>2, <3>1, <3>5 DEF SmallInRequest
    <3>7. QED
      BY <1>1, <1>2, <2>1, <3>6 DEF InRequest, AllSent
  <2>4. QED
    BY <2>2, <2>3
<1>6. StoppedInv'
  BY <1>1, <1>2 DEF PoliteInv, StoppedInv, Serving, ClientReset
<1>7. QED
  BY <1>1, <1>2, <1>5, <1>6, StreamUnchanged DEF PoliteInv

LEMMA LeaveKeepsPolite ==
  ASSUME PoliteInv, Leave
  PROVE  PoliteInv'
<1>1. /\ client \in {"open", "half"}
      /\ \/ client' = "half" /\ inbox' = inbox
         \/ client' = "reset" /\ inbox' = <<>>
      /\ UNCHANGED <<polite, kinds, left, sent, unread, server>>
  BY DEF Leave, ResetByClient
<1>2. UNCHANGED <<state_, buf_, reqKeepAlive, responses, writeBuf, writing,
                  closing, killed>>
  BY <1>1 DEF server
<1>3. Sending' = Sending
  BY <1>1 DEF Sending
<1>4. ServingInv'
  <2> SUFFICES ASSUME Serving
               PROVE  Idle' \/ InRequest' \/ Responding'
    BY <1>2 DEF ServingInv, Serving
  <2>1. CASE Idle
    <3>1. Idle'
      BY <1>1, <1>2, <1>3, <2>1 DEF Idle, AllSent
    <3>2. QED
      BY <3>1
  <2>2. CASE InRequest
    <3>1. CASE Last(kinds) = "large"
      <4>1. LargeInRequest
        BY <2>2, <3>1 DEF InRequest
      <4>2. OfLarge(<<>>)
        BY DEF OfLarge
      <4>3. LargeInRequest'
        BY <1>1, <1>2, <4>1, <4>2 DEF LargeInRequest, OfLarge
      <4>4. QED
        BY <1>1, <1>2, <2>2, <3>1, <4>3 DEF InRequest, AllSent
    <3>2. CASE Last(kinds) # "large"
      <4>1. SmallInRequest
        BY <2>2, <3>2 DEF InRequest
      <4>2. ~ClientReset
        BY <1>1 DEF ClientReset
      <4>3. Half(1)' = Half(1) /\ Half(2)' = Half(2)
        BY <1>1 DEF Half
      <4>4. inbox' = Expected'
        <5>1. CASE client' = "half" /\ inbox' = inbox
          <6>1. ~ClientReset'
            BY <5>1 DEF ClientReset
          <6>2. Expected' = Expected
            BY <1>2, <1>3, <4>2, <4>3, <6>1 DEF Expected
          <6>3. QED
            BY <4>1, <5>1, <6>2 DEF SmallInRequest
        <5>2. CASE client' = "reset" /\ inbox' = <<>>
          BY <5>2 DEF Expected, ClientReset
        <5>3. QED
          BY <1>1, <5>1, <5>2
      <4>5. SmallInRequest'
        BY <1>1, <1>2, <4>1, <4>4 DEF SmallInRequest
      <4>6. QED
        BY <1>1, <1>2, <2>2, <3>2, <4>5 DEF InRequest, AllSent
    <3>3. QED
      BY <3>1, <3>2
  <2>3. CASE Responding
    <3>1. Responding'
      BY <1>1, <1>2, <1>3, <2>3 DEF Responding
    <3>2. QED
      BY <3>1
  <2>4. QED
    BY <2>1, <2>2, <2>3 DEF PoliteInv, ServingInv
<1>5. StoppedInv'
  <2> SUFFICES ASSUME ~Serving
               PROVE  StoppedInv'
    BY <1>2 DEF StoppedInv, Serving
  <2>1. client' # "open" /\ ~killed'
    BY <1>1, <1>2 DEF PoliteInv, StoppedInv, ClientReset
  <2>2. /\ Len(responses') <= Len(kinds')
        /\ unread' > 0 /\ (Sending' \/ inbox' # <<>>) => Last(kinds') \in Refused
    BY <1>1, <1>2, <1>3 DEF PoliteInv, StoppedInv
  <2>3. QED
    BY <2>1, <2>2 DEF StoppedInv
<1>6. QED
  BY <1>1, <1>2, <1>4, <1>5, StreamUnchanged DEF PoliteInv

LEMMA ClientReadsKeepsPolite ==
  ASSUME AnyClientInv, PoliteInv, ClientReads
  PROVE  PoliteInv'
<1>1. /\ unread \in Nat /\ unread > 0 /\ unread' = unread - 1
      /\ UNCHANGED <<polite, kinds, left, client, inbox, sent, server>>
  BY DEF ClientReads, AnyClientInv, TypeOK
<1>2. UNCHANGED <<state_, buf_, reqKeepAlive, responses, writeBuf, writing,
                  closing, killed>>
  BY <1>1 DEF server
<1>3. ServingInv'
  <2>1. ~InRequest
    BY <1>1 DEF InRequest
  <2>2. Idle => Idle'
    BY <1>1, <1>2 DEF Idle, AllSent, Sending
  <2>3. Responding => Responding'
    BY <1>1, <1>2 DEF Responding, Sending
  <2>4. QED
    BY <1>2, <2>1, <2>2, <2>3 DEF PoliteInv, ServingInv, Serving
<1>4. StoppedInv'
  <2> SUFFICES ASSUME ~Serving
               PROVE  StoppedInv'
    BY <1>2 DEF StoppedInv, Serving
  <2>1. /\ Len(responses') <= Len(kinds')
        /\ killed' => ClientReset'
        /\ client' = "open" /\ sent' # <<>> => Last(sent').last
    BY <1>1, <1>2 DEF PoliteInv, StoppedInv, ClientReset
  <2>2. client' = "open" /\ unread' > 0 =>
          Last(sent') = [response |-> Len(responses'), last |-> TRUE]
    BY <1>1, <1>2 DEF PoliteInv, StoppedInv
  <2>3. unread' > 0 /\ (Sending' \/ inbox' # <<>>) =>
          Last(kinds') \in Refused /\ client' # "open"
    BY <1>1, <1>2 DEF PoliteInv, StoppedInv, Sending
  <2>4. QED
    BY <2>1, <2>2, <2>3 DEF StoppedInv
<1>5. QED
  BY <1>1, <1>2, <1>3, <1>4, StreamUnchanged DEF PoliteInv

LEMMA LoseAnswerKeepsPolite ==
  ASSUME AnyClientInv, PoliteInv, LoseAnswer
  PROVE  PoliteInv'
<1> DEFINE k == Len(sent) - unread
<1>1. /\ closing /\ inbox # <<>> /\ unread > 0 /\ unread' = 0
      /\ sent' = SubSeq(sent, 1, k)
      /\ UNCHANGED <<polite, kinds, left, client, inbox, server>>
  BY DEF LoseAnswer, Aborted
<1>2. UNCHANGED <<state_, buf_, reqKeepAlive, responses, writeBuf, writing,
                  closing, killed>>
  BY <1>1 DEF server
<1>3. /\ sent \in Seq(OutUnit) /\ k \in 0 .. Len(sent)
      /\ Len(responses) \in Nat
      /\ unread \in Nat
  BY DEF AnyClientInv, TypeOK, BoundInv
<1> HIDE DEF k
<1>4. StreamInv'
  <2>1. InOrder(SubSeq(sent, 1, k), Len(responses)) /\ Counted(SubSeq(sent, 1, k))
    BY <1>3, StreamPrefix DEF PoliteInv, StreamInv
  <2>2. QED
    BY <1>1, <1>2, <2>1 DEF StreamInv
<1>5. KeepInv' /\ ServingInv'
  BY <1>1, <1>2 DEF KeepInv, ServingInv, Serving
<1>6. StoppedInv'
  <2>1. /\ Len(responses') <= Len(kinds')
        /\ killed' => ClientReset'
    BY <1>1, <1>2 DEF PoliteInv, StoppedInv, Serving, ClientReset
  <2>2. ASSUME client' = "open", sent' # <<>>
        PROVE  Last(sent').last
    <3>1. unread = 1 /\ (Len(sent) > 1 => sent[Len(sent) - 1].last)
      BY <1>1, <1>2, <2>2 DEF PoliteInv, StoppedInv, Serving
    <3>2. k = Len(sent) - 1 /\ k # 0
      <4>1. k = 0 => sent' = <<>>
        BY <1>1, <1>3
      <4>2. QED
        BY <2>2, <3>1, <4>1 DEF k
    <3>3. k \in 1 .. Len(sent) /\ Len(sent) > 1
      BY <1>3, <3>2
    <3>4. sent' \in Seq(OutUnit) /\ Len(sent') = k /\ sent'[k] = sent[k]
      BY <1>1, <1>3, <3>3
    <3>5. QED
      BY <3>1, <3>2, <3>3, <3>4 DEF Last
  <2>3. QED
    BY <1>1, <2>1, <2>2 DEF StoppedInv
<1>7. QED
  BY <1>4, <1>5, <1>6 DEF PoliteInv

----------------------------------------------------------------------------
(* ... and the steps of the server.                                        *)
LEMMA OnReadSendMoreKeepsPolite ==
  ASSUME AnyClientInv, PoliteInv, OnReadEnd
  PROVE  PoliteInv'
<1>1. /\ Serving /\ inbox = <<>> /\ client \in {"half", "gone"}
      /\ closing' = TRUE
      /\ UNCHANGED <<polite, kinds, left, client, inbox, sent, unread, state_,
                     buf_, reqKeepAlive, responses, writeBuf, killed>>
  BY DEF OnReadEnd, RemoveConnection
<1>2. StreamInv' /\ KeepInv' /\ ServingInv'
  BY <1>1 DEF PoliteInv, StreamInv, KeepInv, ServingInv, Serving
<1>3. StoppedInv'
  <2>1. ~killed' /\ client' # "open" /\ inbox' = <<>>
    BY <1>1 DEF Serving
  <2>2. Len(responses') <= Len(kinds')
    BY <1>1, NoMoreResponses
  <2>3. ~(unread' > 0 /\ Sending')
    <3>1. CASE InRequest
      <4>1. unread' = 0
        BY <1>1, <3>1 DEF InRequest
      <4>2. QED
        BY <4>1
    <3>2. CASE ~Sending
      BY <1>1, <3>2 DEF Sending
    <3>3. QED
      BY <1>1, <3>1, <3>2 DEF PoliteInv, ServingInv, Idle, Responding
  <2>4. QED
    BY <2>1, <2>2, <2>3 DEF StoppedInv
<1>4. QED
  BY <1>2, <1>3 DEF PoliteInv

LEMMA OnReadErrorKeepsPolite ==
  ASSUME PoliteInv, OnReadError
  PROVE  PoliteInv'
<1>1. /\ Serving /\ client = "reset" /\ client' = "gone"
      /\ UNCHANGED <<polite, kinds, left, inbox, sent, unread, server>>
  BY DEF OnReadError
<1>2. UNCHANGED <<state_, buf_, reqKeepAlive, responses, writeBuf, writing,
                  closing, killed>>
  BY <1>1 DEF server
<1>3. ServingInv'
  <2>1. Expected = <<>> /\ Expected' = <<>>
    BY <1>1 DEF Expected, ClientReset
  <2>2. Idle => Idle'
    BY <1>1, <1>2 DEF Idle, AllSent, Sending
  <2>3. InRequest => InRequest'
    BY <1>1, <1>2, <2>1 DEF InRequest, SmallInRequest, LargeInRequest, AllSent
  <2>4. Responding => Responding'
    BY <1>1, <1>2 DEF Responding, Sending
  <2>5. QED
    BY <1>2, <2>2, <2>3, <2>4 DEF PoliteInv, ServingInv, Serving
<1>4. StoppedInv'
  BY <1>1, <1>2 DEF StoppedInv, Serving
<1>5. QED
  BY <1>1, <1>2, <1>3, <1>4, StreamUnchanged DEF PoliteInv

LEMMA KeptGrows ==
  ASSUME NEW s \in Seq(OutUnit), NEW r, Kept(s, r),
         NEW u \in OutUnit, u.last => r[u.response]
  PROVE  Kept(Append(s, u), r)
<1> DEFINE t == Append(s, u)
<1>1. /\ Len(t) = Len(s) + 1 /\ Len(s) \in Nat
      /\ \A i \in 1 .. Len(s) : t[i] = s[i]
      /\ t[Len(s) + 1] = u
  BY AppendProperties
<1> HIDE DEF t
<1>2. ASSUME NEW i \in 1 .. Len(t), t[i].last
      PROVE  r[t[i].response]
  <2>1. CASE i \in 1 .. Len(s)
    BY <1>1, <1>2, <2>1 DEF Kept
  <2>2. CASE i = Len(s) + 1
    BY <1>1, <1>2, <2>2
  <2>3. QED
    BY <1>1, <2>1, <2>2
<1>3. QED
  BY <1>2 DEF Kept, t

LEMMA KeptWaits ==
  ASSUME NEW s \in Seq(OutUnit), NEW r \in Seq(BOOLEAN), NEW b \in BOOLEAN,
         InOrder(s, Len(r)), Kept(s, r)
  PROVE  Kept(s, Append(r, b))
<1>1. \A i \in 1 .. Len(r) : Append(r, b)[i] = r[i]
  BY AppendProperties
<1>2. \A i \in 1 .. Len(s) : s[i].response \in 1 .. Len(r)
  <2>1. \A i \in 1 .. Len(s) : s[i] \in OutUnit
    OBVIOUS
  <2>2. \A i \in 1 .. Len(s) : s[i].response \in Nat /\ s[i].response >= 1
    BY <2>1, UnitType
  <2>3. Len(r) \in Nat
    OBVIOUS
  <2>4. QED
    BY <2>2, <2>3 DEF InOrder
<1>3. QED
  BY <1>1, <1>2 DEF Kept

LEMMA OnWriteKeepsPolite ==
  ASSUME AnyClientInv, PoliteInv, OnWrite
  PROVE  PoliteInv'
<1> DEFINE u == [response |-> Len(responses), last |-> TRUE]
<1>1. /\ Serving /\ writing
      /\ UNCHANGED <<client, polite, kinds, left, inbox, responses>>
  BY DEF OnWrite
<1>2. /\ Len(responses) = Len(kinds)
      /\ ~Sending
      /\ inbox = <<>>
      /\ writeBuf = <<u>>
      /\ sent # <<>>
      /\ Last(sent) = [response |-> Len(responses), last |-> FALSE]
      /\ responses[Len(responses)] = reqKeepAlive
  <2>1. writeBuf # <<>>
    BY <1>1 DEF AnyClientInv, EpolloutWhileUnfinished, Serving
  <2>2. Responding
    BY <1>1, <2>1 DEF PoliteInv, ServingInv, Idle, InRequest, AllSent
  <2>3. QED
    BY <2>2 DEF Responding
<1>3. /\ sent \in Seq(OutUnit)
      /\ responses \in Seq(BOOLEAN)
      /\ Len(responses) \in Nat
      /\ Len(responses') = Len(responses)
  BY <1>1 DEF AnyClientInv, TypeOK
<1>4. Len(responses') <= Len(kinds') /\ ~Sending' /\ inbox' = <<>>
  BY <1>1, <1>2, <1>3 DEF Sending
<1>5. CASE WriteFails
  <2>1. /\ ClientReset' /\ ~Serving'
        /\ sent' = sent
        /\ closing' \/ closing' = closing
    BY <1>5 DEF WriteFails, RemoveConnection, Serving
  <2>2. StreamInv' /\ KeepInv'
    BY <1>1, <2>1 DEF PoliteInv, StreamInv, KeepInv
  <2>3. ServingInv'
    BY <2>1 DEF ServingInv
  <2>4. StoppedInv'
    BY <1>4, <2>1 DEF StoppedInv, ClientReset
  <2>5. QED
    BY <2>2, <2>3, <2>4 DEF PoliteInv
<1>6. CASE Room > 0 /\ Write(writeBuf) /\ writeBuf' = Rest(writeBuf)
  <2>1. u \in OutUnit
    <3>1. writeBuf # <<>> /\ Head(writeBuf) = u
      BY <1>2
    <3>2. Head(writeBuf) \in OutUnit
      BY <3>1, HeadTailProperties DEF AnyClientInv, TypeOK
    <3>3. QED
      BY <3>1, <3>2
  <2>2. /\ Fits(writeBuf)
        /\ sent' = Append(sent, u)
        /\ writeBuf' = <<>>
        /\ killed' = killed
    BY <1>2, <1>6, <2>1, WriteOne
  <2>3. Follows(sent, u)
    BY <1>2 DEF Follows, Last
  <2>4. StreamInv'
    <3>1. u.response <= Len(responses) /\ Len(responses) <= Len(responses)
      BY <1>3
    <3>2. InOrder(Append(sent, u), Len(responses)) /\ Counted(Append(sent, u))
      BY <1>3, <2>1, <2>3, <3>1, StreamGrows DEF PoliteInv, StreamInv
    <3>3. QED
      BY <1>1, <2>2, <3>2 DEF StreamInv
  <2>5. sent' # <<>> /\ Last(sent') = u
    BY <1>3, <2>1, <2>2, AppendProperties DEF Last
  <2>6. CASE reqKeepAlive /\ Reset /\ UNCHANGED closing
    <3>1. Kept(sent, responses)
      BY <1>1 DEF PoliteInv, KeepInv, Serving
    <3>2. Kept(Append(sent, u), responses)
      BY <1>2, <1>3, <2>1, <2>6, <3>1, KeptGrows
    <3>3. KeepInv'
      BY <1>1, <2>2, <3>2 DEF KeepInv
    <3>4. state_' = "kExpectRequestLine" /\ buf_' = <<>>
      BY <2>6 DEF Reset, Request
    <3>5. Idle'
      BY <1>1, <1>2, <1>4, <2>2, <2>5, <3>4 DEF Idle, AllSent
    <3>6. Serving'
      BY <1>1, <2>2, <2>6 DEF Serving
    <3>7. QED
      BY <2>4, <3>3, <3>5, <3>6 DEF PoliteInv, ServingInv, StoppedInv
  <2>7. CASE RemoveConnection
    <3>1. ~Serving' /\ closing' /\ ~killed'
      BY <1>1, <2>2, <2>7 DEF RemoveConnection, Serving
    <3>2. StoppedInv'
      BY <1>1, <1>4, <2>5, <3>1 DEF StoppedInv
    <3>3. QED
      BY <2>4, <3>1, <3>2 DEF PoliteInv, KeepInv, ServingInv
  <2>8. QED
    BY <1>5, <1>6, <2>2, <2>6, <2>7 DEF OnWrite
<1>7. QED
  BY <1>5, <1>6 DEF OnWrite

LEMMA SendResponseKeepsPolite ==
  ASSUME AnyClientInv, PoliteInv, Serving, InRequest, inbox # <<>>,
         NEW p, NEW status, NEW keep \in BOOLEAN,
         SendResponse(p, status, keep),
         UNCHANGED <<polite, kinds, left>>,
         \/ /\ status = 400
            /\ ~keep
            /\ Sending \/ inbox' # <<>> => Last(kinds) \in Refused
         \/ /\ status = 200
            /\ p.state = "kGotAll"
            /\ p.buf = <<>>
            /\ p.keepAlive = keep
            /\ ~Sending
            /\ inbox' = <<>>
  PROVE  PoliteInv'
<1> DEFINE id == Len(responses) + 1
           first == [response |-> id, last |-> FALSE]
           end == [response |-> id, last |-> TRUE]
           r == Append(responses, keep)
<1>1. /\ sent \in Seq(OutUnit)
      /\ responses \in Seq(BOOLEAN)
      /\ Len(responses) \in Nat
      /\ SndBuf \in Nat /\ SndBuf > 0
  BY ConnectionAssumption DEF AnyClientInv, TypeOK
<1>2. /\ responses' = r /\ r \in Seq(BOOLEAN)
      /\ Len(responses') = id
      /\ r[id] = keep
      /\ Len(kinds') = id
  BY <1>1, AppendProperties DEF SendResponse, InRequest
<1>3. first \in OutUnit /\ end \in OutUnit
  <2>1. id \in Nat \ {0}
    BY <1>1
  <2>2. QED
    BY <2>1 DEF OutUnit
<1>4. /\ unread = 0 /\ Room = SndBuf
      /\ writeBuf = <<>>
      /\ sent = <<>> => id = 1
      /\ sent # <<>> => sent[Len(sent)] = [response |-> Len(responses), last |-> TRUE]
  BY <1>1 DEF InRequest, AllSent, Room, Last
<1>5. Follows(sent, first) /\ Follows(sent, end)
  BY <1>4 DEF Follows
<1>6. first.response = id /\ end.response = id /\ ~first.last /\ end.last
  OBVIOUS
<1>7. InOrder(sent, id) /\ InOrder(sent, Len(responses)) /\ Counted(sent)
  BY <1>1, StreamWaits DEF PoliteInv, StreamInv
<1>8. Kept(sent, r)
  <2>1. Kept(sent, responses)
    BY DEF PoliteInv, KeepInv, Serving
  <2>2. QED
    BY <1>1, <1>7, <2>1, KeptWaits
<1> HIDE DEF id, first, end, r
<1>9. id \in Nat /\ id <= id
  BY <1>1 DEF id
<1>10. InOrder(Append(sent, first), id) /\ Counted(Append(sent, first))
  BY <1>1, <1>3, <1>5, <1>6, <1>7, <1>9, StreamGrows
<1>11. InOrder(Append(sent, end), id) /\ Counted(Append(sent, end))
  BY <1>1, <1>3, <1>5, <1>6, <1>7, <1>9, StreamGrows
<1>12. CASE WriteFails
  <2>1. /\ ClientReset' /\ ~Serving'
        /\ sent' = sent /\ unread' = 0
        /\ closing' \/ closing' = closing
    BY <1>4, <1>12 DEF WriteFails, RemoveConnection, Serving
  <2>2. StreamInv' /\ KeepInv'
    BY <1>2, <1>7, <1>8, <2>1 DEF StreamInv, KeepInv
  <2>3. StoppedInv'
    BY <1>2, <1>9, <2>1 DEF StoppedInv, ClientReset
  <2>4. QED
    BY <2>1, <2>2, <2>3 DEF PoliteInv, ServingInv
<1>13. CASE status = 400 /\ Write(Message(status))
  <2>1. Message(status) = <<end>>
    BY <1>13 DEF Message, end, id
  <2>2. /\ Fits(Message(status))
        /\ sent' = Append(sent, end)
        /\ unread' = 1
        /\ killed' = killed
        /\ ~ClientReset'
    BY <1>1, <1>3, <1>4, <1>13, <2>1, WriteOne
  <2>3. closing' = TRUE
    <3>1. ~WriteFails /\ ~keep
      BY <1>13, <2>2 DEF WriteFails
    <3>2. QED
      BY <2>2, <3>1 DEF SendResponse, RemoveConnection
  <2>4. StreamInv'
    BY <1>2, <1>11, <2>2 DEF StreamInv
  <2>5. StoppedInv'
    <3>1. ~killed'
      BY <2>2 DEF Serving
    <3>2. /\ sent' # <<>>
          /\ Len(sent') = Len(sent) + 1
          /\ sent'[Len(sent')] = end
          /\ \A i \in 1 .. Len(sent) : sent'[i] = sent[i]
      BY <1>1, <1>3, <2>2, AppendProperties
    <3>3. Last(sent') = end
      BY <3>2 DEF Last
    <3>4. ASSUME Len(sent') > 1
          PROVE  sent'[Len(sent') - 1].last
      <4>1. Len(sent) \in Nat
        BY <1>1
      <4>2. Len(sent) \in 1 .. Len(sent) /\ Len(sent') - 1 = Len(sent)
        BY <3>2, <3>4, <4>1
      <4>3. sent # <<>>
        BY <4>2
      <4>4. QED
        BY <1>4, <3>2, <4>2, <4>3
    <3>5. Sending' \/ inbox' # <<>> => Last(kinds') \in Refused
      BY <1>13 DEF Sending
    <3>6. end = [response |-> Len(responses'), last |-> TRUE]
      BY <1>2 DEF end
    <3>7. QED
      BY <1>2, <1>6, <1>9, <2>2, <3>1, <3>3, <3>4, <3>5, <3>6 DEF StoppedInv
  <2>6. QED
    BY <2>3, <2>4, <2>5 DEF PoliteInv, KeepInv, ServingInv, Serving
<1>14. CASE status = 200 /\ Write(Message(status))
  <2>1. Message(status) = <<first, end>>
    BY <1>14 DEF Message, first, end, id
  <2>2. /\ \/ /\ Fits(Message(status))
              /\ sent' = Append(Append(sent, first), end)
           \/ /\ ~Fits(Message(status))
              /\ sent' = Append(sent, first)
              /\ unread' = 1
              /\ Rest(Message(status)) = <<end>>
        /\ killed' = killed
    BY <1>3, <1>4, <1>14, <2>1, WriteTwo
  <2>3. ~Sending' /\ inbox' = <<>> /\ ~killed'
    BY <1>14, <2>2 DEF Serving, Sending
  <2> DEFINE s == Append(sent, first)
  <2>4. /\ s \in Seq(OutUnit) /\ s # <<>>
        /\ Len(s) = Len(sent) + 1
        /\ s[Len(s)] = first
    BY <1>1, <1>3, AppendProperties
  <2> HIDE DEF s
  <2>5. CASE Fits(Message(status))
    <3>1. sent' = Append(s, end)
      BY <2>2, <2>5 DEF s
    <3>2. Follows(s, end)
      BY <1>6, <2>4 DEF Follows, first, end
    <3>3. InOrder(Append(s, end), id) /\ Counted(Append(s, end))
      <4>1. InOrder(s, id) /\ Counted(s)
        BY <1>10 DEF s
      <4>2. s \in Seq(OutUnit) /\ end.response <= id
        BY <1>6, <1>9, <2>4
      <4>3. QED
        BY <1>3, <1>9, <3>2, <4>1, <4>2, StreamGrows
    <3>4. StreamInv'
      BY <1>2, <3>1, <3>3 DEF StreamInv
    <3>5. sent' # <<>> /\ Last(sent') = [response |-> Len(responses'), last |-> TRUE]
      BY <1>2, <1>3, <2>4, <3>1, AppendProperties DEF Last, end
    <3>6. CASE keep /\ Reset /\ UNCHANGED <<writeBuf, writing, closing>>
      <4>1. Kept(s, r)
        <5>1. first.last => r[first.response]
          BY <1>6
        <5>2. QED
          BY <1>1, <1>3, <1>8, <5>1, KeptGrows DEF s
      <4>2. Kept(Append(s, end), r)
        <5>1. end.last => r[end.response]
          BY <1>2, <1>6, <3>6
        <5>2. s \in Seq(OutUnit)
          BY <2>4
        <5>3. QED
          BY <1>3, <4>1, <5>1, <5>2, KeptGrows
      <4>3. KeepInv'
        BY <1>2, <3>1, <4>2 DEF KeepInv
      <4>4. Idle'
        BY <1>2, <1>4, <2>3, <3>5, <3>6 DEF Idle, AllSent, Reset, Request
      <4>5. Serving'
        BY <2>3, <3>6 DEF Serving
      <4>6. QED
        BY <3>4, <4>3, <4>4, <4>5 DEF PoliteInv, ServingInv, StoppedInv
    <3>7. CASE RemoveConnection
      <4>1. closing' /\ ~Serving'
        BY <3>7 DEF RemoveConnection, Serving
      <4>2. Last(sent').last
        BY <3>5
      <4>3. StoppedInv'
        BY <1>2, <1>9, <2>3, <3>5, <4>2 DEF StoppedInv
      <4>4. QED
        BY <3>4, <4>1, <4>3 DEF PoliteInv, KeepInv, ServingInv
    <3>8. QED
      BY <1>12, <2>5, <3>6, <3>7 DEF SendResponse
  <2>6. CASE ~Fits(Message(status))
    <3>1. sent' = s /\ unread' = 1
      BY <2>2, <2>6 DEF s
    <3>2. CASE /\ writeBuf' = Rest(Message(status))
               /\ Request(p)
               /\ UNCHANGED closing
      <4>1. StreamInv'
        BY <1>2, <1>10, <3>1 DEF StreamInv, s
      <4>2. Kept(s, r)
        BY <1>1, <1>3, <1>6, <1>8, KeptGrows DEF s
      <4>3. KeepInv'
        BY <1>2, <3>1, <4>2 DEF KeepInv
      <4>4. writeBuf' = <<[response |-> Len(responses'), last |-> TRUE]>>
        BY <1>2, <2>2, <2>6, <3>2 DEF end
      <4>5. sent' # <<>> /\ Last(sent') = [response |-> Len(responses'), last |-> FALSE]
        BY <1>2, <2>4, <3>1 DEF Last, first
      <4>6. /\ state_' = "kGotAll" /\ buf_' = <<>>
            /\ responses'[Len(responses')] = reqKeepAlive'
        BY <1>2, <1>14, <3>2 DEF Request
      <4>7. Len(responses') = Len(kinds')
        BY <1>2
      <4>8. Responding'
        BY <2>3, <4>4, <4>5, <4>6, <4>7 DEF Responding
      <4>9. Serving'
        BY <2>3, <3>2 DEF Serving
      <4>10. QED
        BY <4>1, <4>3, <4>8, <4>9 DEF PoliteInv, ServingInv, StoppedInv
    <3>3. QED
      BY <1>12, <2>6, <3>2 DEF SendResponse
  <2>7. QED
    BY <2>5, <2>6
<1>15. QED
  BY <1>12, <1>13, <1>14 DEF SendResponse

LEMMA OnReadKeepsPolite ==
  ASSUME AnyClientInv, PoliteInv, OnRead
  PROVE  PoliteInv'
<1>1. PICK n \in 1 .. Len(inbox) :
        LET p == Parse(SubSeq(inbox, 1, n))
        IN /\ \/ /\ inbox' = SubSeq(inbox, n + 1, Len(inbox))
                 /\ UNCHANGED client
              \/ ResetByClient
           /\ \/ p.failed /\ SendResponse(p, 400, FALSE)
              \/ /\ ~p.failed
                 /\ p.state = "kGotAll"
                 /\ SendResponse(p, 200, p.keepAlive)
              \/ /\ ~p.failed
                 /\ p.state # "kGotAll"
                 /\ Request(p)
                 /\ UNCHANGED <<sent, unread, responses, writeBuf, writing,
                                closing, killed>>
  BY DEF OnRead
<1>2. PICK p : p = Parse(SubSeq(inbox, 1, n))
  OBVIOUS
<1>3. Serving /\ UNCHANGED <<polite, kinds, left>>
  BY DEF OnRead
<1>4. /\ inbox \in Seq(InUnit) /\ Len(inbox) \in Nat
      /\ n \in 1 .. Len(inbox)
  BY DEF AnyClientInv, TypeOK
<1>5. inbox # <<>>
  BY <1>4
<1>6. InRequest
  BY <1>3, <1>5 DEF PoliteInv, ServingInv, Idle, Responding
<1>7. p \in ParserState
  <2>1. SubSeq(inbox, 1, n) \in Seq(InUnit)
    BY <1>4
  <2>2. QED
    BY <1>2, <2>1, ParseType DEF AnyClientInv
<1>8. \/ PartRefused(p, n)
      \/ SmallInRequest /\ Last(kinds) # "large" /\ (Complete(p, n) \/ HalfRead(p, n))
      \/ LargeInRequest /\ Last(kinds) = "large" /\ LargeState(p)
  <2>1. CASE Last(kinds) = "large"
    BY <1>2, <1>6, <2>1, ParseLarge DEF InRequest
  <2>2. CASE Last(kinds) # "large"
    BY <1>2, <1>6, <2>2, ParseSmall DEF InRequest
  <2>3. QED
    BY <2>1, <2>2
<1>9. \/ inbox' = SubSeq(inbox, n + 1, Len(inbox)) /\ client' = client
      \/ inbox' = <<>> /\ client' = "reset"
  BY <1>1 DEF ResetByClient
<1>10. n = Len(inbox) => inbox' = <<>>
  <2>1. n = Len(inbox) => SubSeq(inbox, n + 1, Len(inbox)) = <<>>
    BY <1>4, SubSeqEmpty
  <2>2. QED
    BY <1>9, <2>1
<1>11. CASE p.failed /\ SendResponse(p, 400, FALSE)
  <2>1. PartRefused(p, n)
    BY <1>8, <1>11 DEF Complete, HalfRead, PartRefused, Refused
  <2>2. Sending \/ inbox' # <<>> => Last(kinds) \in Refused
    <3>1. n # Len(inbox) => n < Len(inbox)
      BY <1>4
    <3>2. QED
      BY <1>10, <2>1, <3>1 DEF PartRefused
  <2>3. PICK keep \in BOOLEAN : ~keep
    OBVIOUS
  <2>4. SendResponse(p, 400, keep)
    BY <1>11, <2>3 DEF SendResponse
  <2>5. QED
    BY <1>3, <1>5, <1>6, <2>2, <2>3, <2>4, SendResponseKeepsPolite
<1>12. CASE ~p.failed /\ p.state = "kGotAll" /\ SendResponse(p, 200, p.keepAlive)
  <2>1. Complete(p, n)
    BY <1>8, <1>12 DEF PartRefused, HalfRead, LargeState
  <2>2. p.buf = <<>> /\ ~Sending /\ inbox' = <<>>
    BY <1>10, <2>1 DEF Complete
  <2>3. p.keepAlive \in BOOLEAN
    BY <1>7 DEF ParserState
  <2>4. QED
    BY <1>3, <1>5, <1>6, <1>12, <2>2, <2>3, SendResponseKeepsPolite
<1>13. CASE /\ ~p.failed
            /\ p.state # "kGotAll"
            /\ Request(p)
            /\ UNCHANGED <<sent, unread, responses, writeBuf, writing, closing,
                           killed>>
  <2>1. InRequest'
    <3>1. CASE SmallInRequest /\ Last(kinds) # "large" /\ HalfRead(p, n)
      <4>1. /\ state_' = "kExpectHeaders" /\ buf_' = <<>>
            /\ reqKeepAlive' = (Last(kinds') # "close")
            /\ Last(kinds') # "badLine"
        BY <1>3, <1>13, <3>1 DEF HalfRead, Request
      <4>2. inbox' = Expected'
        <5>1. Half(2)' = Half(2)
          BY <1>3 DEF Half
        <5>2. /\ ~ClientReset
              /\ state_ = "kExpectRequestLine" /\ n = 1
          BY <1>5, <3>1, ExpectedUnits DEF HalfRead
        <5>3. CASE inbox' = <<>> /\ client' = "reset"
          BY <5>3 DEF Expected, ClientReset
        <5>4. CASE /\ inbox' = SubSeq(inbox, n + 1, Len(inbox))
                   /\ client' = client
          <6>1. ~ClientReset'
            BY <5>2, <5>4 DEF ClientReset
          <6>2. Expected' = IF Sending THEN <<>> ELSE <<Half(2)>>
            BY <1>3, <4>1, <5>1, <6>1 DEF Expected, Sending
          <6>3. CASE Sending
            <7>1. Len(inbox) = n
              BY <1>5, <3>1, <5>2, <6>3, ExpectedUnits
            <7>2. QED
              BY <1>10, <6>2, <6>3, <7>1
          <6>4. CASE ~Sending
            <7>1. Len(inbox) = 2 /\ inbox[2] = Half(2)
              BY <1>5, <3>1, <5>2, <6>4, ExpectedUnits
            <7>2. PICK t : t = SubSeq(inbox, 2, 2)
              OBVIOUS
            <7>3. 2 \in 1 .. Len(inbox)
              BY <7>1
            <7>4. t \in Seq(InUnit)
              <8>1. \A i \in 2 .. 2 : inbox[i] \in InUnit
                <9>1. inbox[2] \in InUnit
                  BY <1>4, <7>3, ElementOfSeq
                <9>2. QED
                  BY <9>1
              <8>2. QED
                BY <7>2, <8>1, SubSeqProperties
            <7>5. Len(t) = 1 /\ t[1] = Half(2)
              <8>1. \A i \in 2 .. 2 : inbox[i] \in {inbox[2]}
                OBVIOUS
              <8>2. /\ Len(SubSeq(inbox, 2, 2)) = 1
                    /\ SubSeq(inbox, 2, 2)[1] = inbox[2]
                BY <8>1, SubSeqProperties
              <8>3. QED
                BY <7>1, <7>2, <8>2
            <7>6. t = <<Half(2)>>
              BY <7>4, <7>5
            <7>7. inbox' = t
              BY <5>2, <5>4, <7>1, <7>2
            <7>8. QED
              BY <6>2, <6>4, <7>6, <7>7
          <6>5. QED
            BY <6>3, <6>4
        <5>5. QED
          BY <1>9, <5>3, <5>4
      <4>3. SmallInRequest'
        BY <4>1, <4>2 DEF SmallInRequest
      <4>4. QED
        BY <1>3, <1>6, <1>13, <3>1, <4>3 DEF InRequest, AllSent
    <3>2. CASE LargeInRequest /\ Last(kinds) = "large" /\ LargeState(p)
      <4>1. OfLarge(inbox')
        <5>1. OfLarge(<<>>)
          BY DEF OfLarge
        <5>2. OfLarge(SubSeq(inbox, n + 1, Len(inbox)))
          BY <3>2, ParseLarge
        <5>3. QED
          BY <1>9, <5>1, <5>2
      <4>2. OfLarge(buf_') /\ state_' # "kGotAll"
        BY <1>13, <3>2 DEF LargeState, Request
      <4>3. LargeInRequest'
        BY <4>1, <4>2 DEF LargeInRequest, OfLarge
      <4>4. QED
        BY <1>3, <1>6, <1>13, <3>2, <4>3 DEF InRequest, AllSent
    <3>3. QED
      BY <1>8, <1>13, <3>1, <3>2 DEF PartRefused, Complete
  <2>2. Serving'
    BY <1>3, <1>13 DEF Serving
  <2>3. StreamInv' /\ KeepInv'
    BY <1>13, StreamUnchanged DEF PoliteInv
  <2>4. QED
    BY <2>1, <2>2, <2>3 DEF PoliteInv, ServingInv, StoppedInv
<1>14. QED
  BY <1>1, <1>2, <1>11, <1>12, <1>13

LEMMA NextKeepsPolite ==
  ASSUME ConnInv, [Next]_vars
  PROVE  ConnInv'
<1>1. AnyClientInv /\ AnyClientInv'
  BY NextKeepsAny DEF ConnInv
<1>2. ASSUME polite
      PROVE  PoliteInv'
  <2>1. PoliteInv
    BY <1>2 DEF ConnInv
  <2>2. CASE Client
    BY <1>1, <1>2, <2>1, <2>2, BeginKeepsPolite, SendMoreKeepsPolite,
       LeaveKeepsPolite, ClientReadsKeepsPolite, LoseAnswerKeepsPolite
       DEF Client
  <2>3. CASE Handler
    BY <1>1, <2>1, <2>3, OnReadKeepsPolite, OnReadSendMoreKeepsPolite,
       OnReadErrorKeepsPolite, OnWriteKeepsPolite
       DEF Handler
  <2>4. CASE UNCHANGED vars
    <3>1. UNCHANGED <<polite, kinds, left, client, inbox, sent, unread, state_,
                      buf_, reqKeepAlive, responses, writeBuf, writing, closing,
                      killed>>
      BY <2>4 DEF vars, server
    <3>2. ServingInv'
      BY <2>1, <3>1
         DEF PoliteInv, ServingInv, Serving, Idle, InRequest, SmallInRequest,
             LargeInRequest, Responding, AllSent, Expected, Half, ClientReset,
             Sending
    <3>3. StoppedInv'
      BY <2>1, <3>1 DEF PoliteInv, StoppedInv, Serving, ClientReset, Sending
    <3>4. QED
      BY <2>1, <3>1, <3>2, <3>3, StreamUnchanged DEF PoliteInv
  <2>5. QED
    BY <2>2, <2>3, <2>4 DEF Next
<1>3. polite' = polite
  BY DEF Next, Client, Handler, BeginRequest, SendMore, Leave, ClientReads,
         LoseAnswer, OnRead, OnReadEnd, OnReadError, OnWrite, vars
<1>4. QED
  BY <1>1, <1>2, <1>3 DEF ConnInv

(* The inductive invariant as a whole: a served connection is idle, in a   *)
(* request or in a response (HttpServer.cpp:69-197), and only the client   *)
(* or a refusal leaves something of one undone.                            *)
THEOREM ConnectionInvariant == Spec => []ConnInv
<1>1. Init => ConnInv
  BY InitHasAny, InitIsPolite DEF ConnInv
<1>2. QED
  BY <1>1, NextKeepsPolite, PTL DEF Spec

(* A client that waits for its answers gets each response whole and in     *)
(* order: sendResponse and onWrite between them lose, repeat and reorder   *)
(* nothing, however the responses are divided into writes                  *)
(* (HttpServer.cpp:107-131, 148-176).                                      *)
THEOREM ResponsesAreWhole == Spec => []ResponsesWhole
<1>1. ConnInv => ResponsesWhole
  <2> SUFFICES ASSUME ConnInv, polite
               PROVE  /\ \A i \in 1 .. Len(sent) - 1 :
                           /\ sent[i] # sent[i + 1]
                           /\ sent[i].last <=>
                                sent[i + 1].response # sent[i].response
                      /\ closing /\ sent # <<>> /\ ~Last(sent).last =>
                           client # "open"
    BY DEF ResponsesWhole
  <2>1. ASSUME NEW i \in 1 .. Len(sent) - 1
        PROVE  /\ sent[i] # sent[i + 1]
               /\ sent[i].last <=> sent[i + 1].response # sent[i].response
    <3>1. sent \in Seq(OutUnit) /\ Len(sent) \in Nat
      BY DEF ConnInv, AnyClientInv, TypeOK
    <3>2. i \in 1 .. Len(sent)
      BY <3>1
    <3>3. sent[i].response \in Nat
      BY <3>1, <3>2, ElementOfSeq, UnitType
    <3>4. IF sent[i].last
          THEN sent[i + 1].response = sent[i].response + 1
          ELSE sent[i + 1] = [response |-> sent[i].response, last |-> TRUE]
      BY DEF ConnInv, PoliteInv, StreamInv, InOrder
    <3>5. CASE sent[i].last
      BY <3>3, <3>4, <3>5
    <3>6. CASE ~sent[i].last
      <4>1. sent[i + 1].last /\ sent[i + 1].response = sent[i].response
        BY <3>4, <3>6
      <4>2. sent[i] # sent[i + 1]
        BY <3>6, <4>1
      <4>3. QED
        BY <3>6, <4>1, <4>2
    <3>7. QED
      BY <3>5, <3>6
  <2>2. closing /\ sent # <<>> /\ ~Last(sent).last => client # "open"
    BY DEF ConnInv, PoliteInv, StoppedInv, Serving
  <2>3. QED
    BY <2>1, <2>2
<1>2. QED
  BY <1>1, ConnectionInvariant, PTL

(* No request of such a client is answered twice, and none before it is    *)
(* complete unless that closes the connection: parse's state is reset      *)
(* between them (HttpServer.cpp:81-103, HttpRequest.cpp:27-77).            *)
THEOREM AnsweredOnce == Spec => []OneResponsePerRequest
<1>1. ConnInv => OneResponsePerRequest
  <2> SUFFICES ASSUME ConnInv, polite
               PROVE  /\ Len(responses) <= Len(kinds)
                      /\ Sending /\ Serving => Len(responses) < Len(kinds)
    BY DEF OneResponsePerRequest, Sending
  <2>1. Len(responses) <= Len(kinds)
    BY NoMoreResponses DEF ConnInv
  <2>2. ASSUME Sending, Serving
        PROVE  Len(responses) < Len(kinds)
    <3>1. InRequest
      BY <2>2 DEF ConnInv, PoliteInv, ServingInv, Idle, Responding
    <3>2. Len(responses) \in Nat /\ Len(kinds) = Len(responses) + 1
      BY <3>1 DEF ConnInv, AnyClientInv, TypeOK, InRequest
    <3>3. QED
      BY <3>2
  <2>3. QED
    BY <2>1, <2>2
<1>2. QED
  BY <1>1, ConnectionInvariant, PTL

(* "keep-alive: read the next request, otherwise close"                    *)
(* (HttpServer.cpp:134): with such a client, the response that was sent    *)
(* with Connection: close is the last one.                                 *)
THEOREM CloseIsKept == Spec => []PoliteCloseIsKept
<1>1. ConnInv => PoliteCloseIsKept
  <2> SUFFICES ASSUME ConnInv, polite, NEW i \in DOMAIN sent, sent[i].last,
                      ~responses[sent[i].response]
               PROVE  closing
    BY DEF PoliteCloseIsKept, ClosesAfterCloseResponse
  <2>1. i \in 1 .. Len(sent)
    BY DEF ConnInv, AnyClientInv, TypeOK
  <2>2. QED
    BY <2>1 DEF ConnInv, PoliteInv, KeepInv, Kept
<1>2. QED
  BY <1>1, ConnectionInvariant, PTL

(* The reset that close() may cause never takes away the answer to a       *)
(* request that parse() accepts.  What it can take is a refusal with input *)
(* unread behind it: of a request that does not parse, or of a well formed *)
(* one that is longer than kMaxRequestSize (HttpRequest.cpp:29-31,         *)
(* HttpServer.cpp:81-103, 138).                                            *)
THEOREM AcceptedRequestsKeepTheirAnswers == Spec => []OnlyRefusalsAreLost
<1>1. ConnInv => OnlyRefusalsAreLost
  BY DEF ConnInv, PoliteInv, StoppedInv, Serving, Aborted, Refused,
         OnlyRefusalsAreLost
<1>2. QED
  BY <1>1, ConnectionInvariant, PTL
=============================================================================
