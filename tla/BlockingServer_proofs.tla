------------------------ MODULE BlockingServer_proofs ------------------------
(***************************************************************************)
(* Theorems about stage 1 for any number of connections, pieces and sizes. *)
(***************************************************************************)
EXTENDS BlockingServer, TLAPS

(* No more is unread than has been sent, and a connection that was never   *)
(* opened has been neither queued, served nor closed.                      *)
SentInv ==
  \A c \in Conns :
    /\ inbox[c] <= size[c]
    /\ sends[c] = 0 => size[c] = 0
    /\ client[c] = "away" => c \notin Waiting \cup closed \cup {cur}

(* A connection that read() has returned for: it will send no more, or has *)
(* sent something; and one piece that fits the read is not there any more. *)
HasBeenRead(c) ==
  /\ client[c] = "here" => sends[c] > 0
  /\ sends[c] <= 1 /\ size[c] <= ReadSize => inbox[c] = 0

ReadInv ==
  /\ \A c \in closed : HasBeenRead(c)
  /\ pc \in {"write", "close"} => HasBeenRead(cur)

BlockingInv == TypeOK /\ SentInv /\ ReadInv

----------------------------------------------------------------------------
LEMMA InitBlocking == Init => BlockingInv
<1> SUFFICES ASSUME Init
             PROVE  BlockingInv
  OBVIOUS
<1>1. backlog \in Seq(Conns) /\ DOMAIN backlog = {} /\ Waiting = {}
  BY DEF Init, Waiting
<1>2. /\ client = [c \in Conns |-> "away"]
      /\ sends = [c \in Conns |-> 0]
      /\ size = [c \in Conns |-> 0]
      /\ inbox = [c \in Conns |-> 0]
      /\ closed = {} /\ pc = "accept" /\ cur = NoConn /\ failed = FALSE
  BY DEF Init
<1>3. NoConn \notin Conns /\ 0 \in 0 .. MaxSends
  BY BlockingAssumption
<1>4. TypeOK
  BY <1>1, <1>2, <1>3 DEF TypeOK
<1>5. SentInv
  <2>1. \A c \in Conns : inbox[c] = 0 /\ size[c] = inbox[c]
    BY <1>2
  <2>2. \A c \in Conns : c \notin Waiting \cup closed \cup {cur}
    BY <1>1, <1>2, <1>3
  <2>3. \A x : x = 0 => x <= x
    OBVIOUS
  <2>4. QED
    BY <2>1, <2>2, <2>3 DEF SentInv
<1>6. ReadInv
  BY <1>2 DEF ReadInv
<1>7. QED
  BY <1>4, <1>5, <1>6 DEF BlockingInv

(* Facts about queues, for the backlog.                                    *)
LEMMA Appended ==
  ASSUME NEW S, NEW s \in Seq(S), NEW e \in S
  PROVE  /\ Append(s, e) \in Seq(S)
         /\ DOMAIN Append(s, e) = DOMAIN s \cup {Len(s) + 1}
         /\ \A i \in DOMAIN s : Append(s, e)[i] = s[i]
         /\ Append(s, e)[Len(s) + 1] = e
         /\ Len(s) + 1 \notin DOMAIN s
OBVIOUS

LEMMA Shortened ==
  ASSUME NEW S, NEW s \in Seq(S), s # <<>>
  PROVE  /\ Head(s) = s[1] /\ 1 \in DOMAIN s /\ Head(s) \in S
         /\ Tail(s) \in Seq(S)
         /\ \A i \in DOMAIN Tail(s) : i + 1 \in DOMAIN s /\ Tail(s)[i] = s[i + 1]
         /\ \A i \in DOMAIN Tail(s) : i \in Nat /\ i # 0
OBVIOUS

LEMMA ConnectKeepsInv ==
  ASSUME BlockingInv, NEW c \in Conns, Connect(c)
  PROVE  BlockingInv'
<1> USE DEF BlockingInv, TypeOK, Connect
<1>1. c \notin Waiting /\ c \notin closed /\ c # cur
  BY DEF SentInv
<1>2. /\ backlog' \in Seq(Conns)
      /\ Waiting' = Waiting \cup {c}
      /\ \A i, j \in DOMAIN backlog' : backlog'[i] = backlog'[j] => i = j
  BY <1>1, Appended DEF Waiting
<1>3. TypeOK'
  <2>1. client' \in [Conns -> {"away", "here", "fin", "reset"}]
    OBVIOUS
  <2>2. Waiting' \cap closed' = {} /\ cur' \notin Waiting' \cup closed'
    BY <1>1, <1>2
  <2>3. UNCHANGED <<sends, size, inbox, closed, pc, cur, failed>>
    OBVIOUS
  <2>4. QED
    BY <1>2, <2>1, <2>2, <2>3
<1>4. SentInv'
  BY <1>2, BlockingAssumption DEF SentInv
<1>5. ReadInv'
  BY <1>1, BlockingAssumption DEF ReadInv, HasBeenRead
<1>6. QED
  BY <1>3, <1>4, <1>5

LEMMA SendKeepsInv ==
  ASSUME BlockingInv, NEW c \in Conns, Send(c)
  PROVE  BlockingInv'
<1> USE DEF BlockingInv, TypeOK, Send
<1>1. PICK n \in 1 .. MaxPiece :
        /\ size' = [size EXCEPT ![c] = @ + n]
        /\ inbox' = [inbox EXCEPT ![c] = @ + n]
  OBVIOUS
<1>2. n \in Nat
  BY BlockingAssumption
<1>3. /\ size' \in [Conns -> Nat] /\ size'[c] = size[c] + n
      /\ inbox' \in [Conns -> Nat] /\ inbox'[c] = inbox[c] + n
      /\ \A d \in Conns \ {c} : size'[d] = size[d] /\ inbox'[d] = inbox[d]
  BY <1>1, <1>2
<1>4. /\ sends' \in [Conns -> 0 .. MaxSends] /\ sends'[c] = sends[c] + 1
      /\ \A d \in Conns \ {c} : sends'[d] = sends[d]
  BY BlockingAssumption
<1>5. Waiting' = Waiting
  BY DEF Waiting
<1>6. TypeOK'
  <2>1. UNCHANGED <<client, backlog, closed, pc, cur, failed>>
    OBVIOUS
  <2>2. QED
    BY <1>3, <1>4, <1>5, <2>1
<1>7. SentInv'
  <2>1. \A d \in Conns : inbox'[d] <= size'[d] /\ (sends'[d] = 0 => size'[d] = 0)
    BY <1>2, <1>3, <1>4, BlockingAssumption DEF SentInv
  <2>2. QED
    BY <1>5, <2>1 DEF SentInv
<1>8. ReadInv'
  <2>1. ASSUME NEW d \in Conns, HasBeenRead(d)
        PROVE  HasBeenRead(d)'
    <3>1. CASE d = c
      <4>1. sends[d] > 0 /\ sends'[d] = sends[d] + 1 /\ sends[d] \in Nat
        BY <1>4, <2>1, <3>1, BlockingAssumption DEF HasBeenRead
      <4>2. QED
        BY <4>1 DEF HasBeenRead
    <3>2. CASE d # c
      BY <1>3, <1>4, <2>1, <3>2 DEF HasBeenRead
    <3>3. QED
      BY <3>1, <3>2
  <2>2. QED
    BY <2>1 DEF ReadInv
<1>9. QED
  BY <1>6, <1>7, <1>8

LEMMA LeaveKeepsInv ==
  ASSUME BlockingInv, NEW c \in Conns, Leave(c)
  PROVE  BlockingInv'
<1> USE DEF BlockingInv, TypeOK, Leave
<1>1. TypeOK' /\ SentInv'
  <2>1. Waiting' = Waiting
    BY DEF Waiting
  <2>2. /\ client' \in [Conns -> {"away", "here", "fin", "reset"}]
        /\ inbox' \in [Conns -> Nat]
        /\ \A d \in Conns : client'[d] = "away" => client[d] = "away"
        /\ \A d \in Conns : inbox'[d] = inbox[d] \/ inbox'[d] = 0
    <3>1. 0 \in Nat
      BY BlockingAssumption
    <3>2. /\ client \in [Conns -> {"away", "here", "fin", "reset"}]
          /\ inbox \in [Conns -> Nat]
      OBVIOUS
    <3>3. \/ client' = [client EXCEPT ![c] = "fin"] /\ inbox' = inbox
          \/ /\ client' = [client EXCEPT ![c] = "reset"]
             /\ inbox' = [inbox EXCEPT ![c] = 0]
      OBVIOUS
    <3> HIDE DEF BlockingInv, TypeOK, Leave
    <3>4. QED
      BY <3>1, <3>2, <3>3
  <2>3. TypeOK'
    BY <2>1, <2>2
  <2>4. SentInv'
    <3>1. \A d \in Conns : inbox'[d] <= size'[d]
      BY <2>2, BlockingAssumption DEF SentInv
    <3>2. QED
      BY <2>1, <2>2, <3>1 DEF SentInv
  <2>5. QED
    BY <2>3, <2>4
<1>2. \A d \in Conns : HasBeenRead(d) => HasBeenRead(d)'
  BY BlockingAssumption DEF HasBeenRead, SentInv
<1>3. ReadInv'
  BY <1>2 DEF ReadInv
<1>4. QED
  BY <1>1, <1>3

LEMMA AcceptKeepsInv ==
  ASSUME BlockingInv, Accept
  PROVE  BlockingInv'
<1> USE DEF BlockingInv, TypeOK, Accept, clients
<1>1. PICK c \in Conns : c = Head(backlog)
  BY Shortened
<1>2. /\ backlog' \in Seq(Conns)
      /\ c \in Waiting
      /\ Waiting' \subseteq Waiting
      /\ c \notin Waiting'
      /\ \A i, j \in DOMAIN backlog' : backlog'[i] = backlog'[j] => i = j
  BY <1>1, Shortened DEF Waiting
<1>3. TypeOK'
  BY <1>1, <1>2, BlockingAssumption
<1>4. SentInv'
  BY <1>1, <1>2 DEF SentInv
<1>5. ReadInv'
  BY DEF ReadInv, HasBeenRead
<1>6. QED
  BY <1>3, <1>4, <1>5

LEMMA ReadKeepsInv ==
  ASSUME BlockingInv, Read
  PROVE  BlockingInv'
<1> USE DEF BlockingInv, TypeOK
<1>1. cur \in Conns /\ cur \notin closed
  BY DEF Read
<1>2. /\ pc' = "write"
      /\ UNCHANGED <<client, sends, size, backlog, closed, cur>>
  BY DEF Read
<1>3. /\ inbox' \in [Conns -> Nat]
      /\ failed' \in BOOLEAN
      /\ \A d \in Conns \ {cur} : inbox'[d] = inbox[d]
      /\ inbox'[cur] <= inbox[cur]
      /\ HasBeenRead(cur)'
  <2>1. CASE /\ inbox[cur] > 0
             /\ inbox' = [inbox EXCEPT ![cur] =
                            IF @ > ReadSize THEN @ - ReadSize ELSE 0]
             /\ UNCHANGED failed
    <3>1. /\ inbox[cur] \in Nat /\ size[cur] \in Nat /\ sends[cur] \in Nat
          /\ inbox[cur] <= size[cur]
          /\ sends[cur] > 0
      BY <1>1, <2>1, BlockingAssumption DEF SentInv
    <3>2. /\ inbox' \in [Conns -> Nat]
          /\ \A d \in Conns \ {cur} : inbox'[d] = inbox[d]
          /\ inbox'[cur] = IF inbox[cur] > ReadSize THEN inbox[cur] - ReadSize
                           ELSE 0
      BY <1>1, <2>1, <3>1, BlockingAssumption
    <3>3. QED
      BY <1>1, <1>2, <2>1, <3>1, <3>2, BlockingAssumption DEF HasBeenRead
  <2>2. CASE inbox[cur] = 0 /\ client[cur] \in {"fin", "reset"}
             /\ failed' = (client[cur] = "reset") /\ UNCHANGED inbox
    BY <1>1, <1>2, <2>2, BlockingAssumption DEF HasBeenRead
  <2>3. QED
    BY <2>1, <2>2 DEF Read
<1>4. TypeOK' /\ SentInv'
  <2>1. Waiting' = Waiting
    BY <1>2 DEF Waiting
  <2>2. TypeOK'
    BY <1>1, <1>2, <1>3, <2>1, BlockingAssumption DEF Read
  <2>3. SentInv'
    BY <1>1, <1>2, <1>3, <2>1, BlockingAssumption DEF SentInv
  <2>4. QED
    BY <2>2, <2>3
<1>5. ReadInv'
  BY <1>1, <1>2, <1>3 DEF ReadInv, HasBeenRead
<1>6. QED
  BY <1>4, <1>5

LEMMA WriteAndCloseKeepInv ==
  ASSUME BlockingInv, Write \/ Close
  PROVE  BlockingInv'
<1> USE DEF BlockingInv, TypeOK, clients
<1>1. cur \in Conns /\ Waiting' = Waiting
  BY DEF Write, Close, Waiting
<1>2. CASE Write
  <2>1. TypeOK' /\ SentInv'
    BY <1>1, <1>2 DEF Write, SentInv
  <2>2. ReadInv'
    BY <1>2 DEF Write, ReadInv, HasBeenRead
  <2>3. QED
    BY <2>1, <2>2
<1>3. CASE Close
  <2>1. TypeOK'
    <3>1. NoConn \notin Waiting
      BY BlockingAssumption DEF Waiting
    <3>2. Waiting' \cap closed' = {} /\ cur' \notin Waiting' \cup closed'
      BY <1>1, <1>3, <3>1, BlockingAssumption DEF Close
    <3>3. QED
      BY <1>3, <3>2, BlockingAssumption DEF Close
  <2>2. SentInv'
    BY <1>1, <1>3, BlockingAssumption DEF Close, SentInv
  <2>3. ReadInv'
    BY <1>3 DEF Close, ReadInv, HasBeenRead
  <2>4. QED
    BY <2>1, <2>2, <2>3
<1>4. QED
  BY <1>2, <1>3

LEMMA NextKeepsBlocking == BlockingInv /\ [Next]_vars => BlockingInv'
<1> SUFFICES ASSUME BlockingInv, [Next]_vars
             PROVE  BlockingInv'
  OBVIOUS
<1>1. CASE UNCHANGED vars
  BY <1>1
     DEF vars, clients, BlockingInv, TypeOK, SentInv, ReadInv, HasBeenRead,
         Waiting
<1>2. QED
  BY <1>1, ConnectKeepsInv, SendKeepsInv, LeaveKeepsInv, AcceptKeepsInv,
     ReadKeepsInv, WriteAndCloseKeepInv
     DEF Next, Server

LEMMA BlockingCorrect == Spec => []BlockingInv
BY InitBlocking, NextKeepsBlocking, PTL DEF Spec

----------------------------------------------------------------------------
(* The types hold: a connection waits once, and is then served and closed, *)
(* one at a time (main_stage1.cpp:48-70).                                  *)
THEOREM TypeCorrect == Spec => []TypeOK
<1>1. BlockingInv => TypeOK
  BY DEF BlockingInv
<1>2. QED
  BY <1>1, BlockingCorrect, PTL

(* An answer is lost in a reset only if the request came in several        *)
(* pieces, or one that is longer than what the one read() takes: a request *)
(* that fits and was sent at once has been read (main_stage1.cpp:60-68).   *)
THEOREM CutCorrect == Spec => []OnlyDividedOrLongAreCut
<1>1. BlockingInv => OnlyDividedOrLongAreCut
  <2> SUFFICES ASSUME BlockingInv, NEW c \in closed, inbox[c] > 0
               PROVE  sends[c] > 1 \/ size[c] > ReadSize
    BY DEF OnlyDividedOrLongAreCut
  <2>1. /\ inbox[c] \in Nat /\ sends[c] \in Nat /\ size[c] \in Nat
        /\ HasBeenRead(c)
    BY BlockingAssumption DEF BlockingInv, TypeOK, ReadInv
  <2>2. QED
    BY <2>1, BlockingAssumption DEF HasBeenRead
<1>2. QED
  BY <1>1, BlockingCorrect, PTL
=============================================================================
