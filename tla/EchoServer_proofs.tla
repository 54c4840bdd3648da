-------------------------- MODULE EchoServer_proofs --------------------------
(***************************************************************************)
(* Theorems about stage 2's EchoServer for any number of connections,      *)
(* descriptors and pieces of data.                                         *)
(***************************************************************************)
EXTENDS EchoServer, WellFoundedInduction, TLAPS

(* No more is unread than has been sent, and what is being answered has    *)
(* sent something.                                                         *)
SentInv ==
  /\ \A c \in Conns : inbox[c] <= sends[c]
  /\ pc = "write" => sends[cur] > 0

(* The map agrees with the kernel's table, and both with the numbers that  *)
(* accept() returned: a number that is free is no key.                     *)
TableInv ==
  /\ clients_ = open
  /\ \A f \in Fds : open[f] # NoConn => fdOf[open[f]] = f

(* A registered channel belongs to an open descriptor.                     *)
RegisteredInv ==
  \A c \in registered : fdOf[c] \in Fds /\ open[fdOf[c]] = c

(* Events not dispatched yet and the callback that runs belong to          *)
(* registered channels, and the callback's event is not in the array: the  *)
(* destruction of its channel leaves no pointer behind.                    *)
CallbackInv ==
  /\ active \ {Listen} \subseteq registered
  /\ cur # NoConn => cur \in registered \ active

EchoInv == TypeOK /\ SentInv /\ TableInv /\ RegisteredInv /\ CallbackInv

----------------------------------------------------------------------------
(* There is a lowest free number if there is a free one.                   *)
LEMMA MinIsIn ==
  ASSUME NEW S, S \subseteq Nat, S # {}
  PROVE  Min(S) \in S
<1> DEFINE less == OpToRel(<, Nat)
<1>1. \A x, y \in Nat : x < y => <<x, y>> \in less
  BY DEF OpToRel
<1>2. \E x \in S : \A y \in S : ~(<<y, x>> \in less)
  <2> HIDE DEF less
  <2>1. IsWellFoundedOn(less, Nat)
    BY NatLessThanWellFounded DEF less
  <2>2. QED
    BY <2>1, WFMin
<1> HIDE DEF less
<1>3. PICK x \in S : \A y \in S : ~(y < x)
  BY <1>1, <1>2
<1>4. \A y \in S : x <= y
  BY <1>3
<1>5. QED
  BY <1>4 DEF Min

LEMMA InitEcho == Init => EchoInv
BY EchoAssumption
   DEF Init, EchoInv, TypeOK, SentInv, TableInv, RegisteredInv, CallbackInv

LEMMA ClientKeepsInv ==
  ASSUME EchoInv, NEW c \in Conns, Client(c)
  PROVE  EchoInv'
<1> USE DEF EchoInv, TypeOK, Client, server
<1>1. TypeOK' /\ SentInv'
  <2>1. CASE Connect(c)
    BY <2>1, EchoAssumption DEF Connect, SentInv
  <2>2. CASE Send(c)
    BY <2>2, EchoAssumption DEF Send, SentInv
  <2>3. CASE Leave(c)
    BY <2>3, EchoAssumption DEF Leave, SentInv
  <2>4. QED
    BY <2>1, <2>2, <2>3
<1>2. UNCHANGED <<server, pc, active, cur>>
  BY DEF Connect, Send, Leave
<1>3. TableInv' /\ RegisteredInv' /\ CallbackInv'
  BY <1>2 DEF TableInv, RegisteredInv, CallbackInv
<1>4. QED
  BY <1>1, <1>3

(* The steps of the loop that open and close nothing.                      *)
LEMMA DispatchKeepsInv ==
  ASSUME EchoInv,
         \/ EpollWait \/ HandleListen \/ EndDispatch \/ AcceptFails
         \/ ReadData \/ ReadEnd \/ WriteResponse
         \/ \E c \in Conns : HandleEvent(c)
  PROVE  EchoInv'
<1> USE DEF EchoInv, TypeOK
<1>1. UNCHANGED <<client, sends, open, fdOf, registered, clients_>>
  BY DEF EpollWait, HandleListen, EndDispatch, AcceptFails, ReadData, ReadEnd,
         WriteResponse, HandleEvent, network, server
<1>2. TableInv' /\ RegisteredInv'
  BY <1>1 DEF TableInv, RegisteredInv
<1>3. TypeOK' /\ SentInv' /\ CallbackInv'
  <2> USE DEF SentInv, CallbackInv, network, server
  <2>1. CASE EpollWait
    BY <2>1, EchoAssumption DEF EpollWait, Ready
  <2>2. CASE HandleListen \/ EndDispatch \/ AcceptFails
    BY <2>2, EchoAssumption DEF HandleListen, EndDispatch, AcceptFails
  <2>3. CASE ReadData
    <3>1. cur \in Conns
      BY <2>3 DEF ReadData
    <3>2. PICK n \in 1 .. inbox[cur] : inbox' = [inbox EXCEPT ![cur] = @ - n]
      BY <2>3 DEF ReadData
    <3>3. n \in Nat /\ 1 <= n /\ n <= inbox[cur] /\ inbox[cur] <= sends[cur]
      BY <3>1, <3>2, EchoAssumption
    <3>4. inbox' \in [Conns -> 0 .. MaxSends]
      BY <3>1, <3>2, <3>3, EchoAssumption
    <3>5. SentInv'
      BY <2>3, <3>1, <3>2, <3>3, EchoAssumption DEF ReadData
    <3>6. QED
      BY <2>3, <3>4, <3>5 DEF ReadData
  <2>4. CASE ReadEnd
    BY <2>4 DEF ReadEnd
  <2>5. CASE WriteResponse
    BY <2>5 DEF WriteResponse
  <2>6. ASSUME NEW c \in Conns, HandleEvent(c)
        PROVE  TypeOK' /\ SentInv' /\ CallbackInv'
    BY <2>6, EchoAssumption DEF HandleEvent
  <2>7. QED
    BY <2>1, <2>2, <2>3, <2>4, <2>5, <2>6
<1>4. QED
  BY <1>2, <1>3

LEMMA AcceptKeepsInv ==
  ASSUME EchoInv, NEW c \in Conns, Accept(c)
  PROVE  EchoInv'
<1> USE DEF EchoInv, TypeOK
<1>1. PICK fd \in Fds : /\ open[fd] = NoConn
                        /\ open' = [open EXCEPT ![fd] = c]
                        /\ fdOf' = [fdOf EXCEPT ![c] = fd]
                        /\ clients_' = [clients_ EXCEPT ![fd] = c]
  <2>1. Min(FreeFds) \in FreeFds
    <3>1. FreeFds \subseteq Nat
      BY EchoAssumption DEF FreeFds, Fds
    <3>2. FreeFds # {}
      BY DEF Accept
    <3>3. QED
      BY <3>1, <3>2, MinIsIn
  <2>2. QED
    BY <2>1 DEF Accept, FreeFds
<1>2. /\ registered' \in {registered, registered \cup {c}}
      /\ UNCHANGED <<client, sends, inbox, answered, pc, active, cur>>
  BY DEF Accept, network
<1>3. fdOf[c] = 0 /\ 0 \notin Fds
  <2>1. fdOf[c] = 0
    BY DEF Accept, Waiting
  <2>2. 0 \notin Fds
    BY EchoAssumption DEF Fds
  <2>3. QED
    BY <2>1, <2>2
<1>4. c \notin registered /\ \A f \in Fds : open[f] # c
  BY <1>3, EchoAssumption DEF RegisteredInv, TableInv
<1>5. TypeOK' /\ SentInv'
  BY <1>1, <1>2 DEF SentInv
<1>6. TableInv'
  BY <1>1, <1>4, EchoAssumption DEF TableInv
<1>7. RegisteredInv'
  BY <1>1, <1>2, <1>4, EchoAssumption DEF RegisteredInv
<1>8. CallbackInv'
  BY <1>2 DEF CallbackInv
<1>9. QED
  BY <1>5, <1>6, <1>7, <1>8

(* The channel that the callback destroys is its own: the pointers of the  *)
(* other channels stay owned.                                              *)
LEMMA CloseKeepsInv ==
  ASSUME EchoInv, CloseConnection
  PROVE  EchoInv'
<1> USE DEF EchoInv, TypeOK, CloseConnection, network
<1>1. PICK fd \in Fds : fd = fdOf[cur] /\ open[fd] = cur
  BY DEF CallbackInv, RegisteredInv
<1>2. TypeOK' /\ SentInv'
  BY <1>1 DEF SentInv
<1>3. TableInv'
  BY <1>1 DEF TableInv
<1>4. RegisteredInv'
  BY <1>1 DEF RegisteredInv
<1>5. CallbackInv'
  BY DEF CallbackInv
<1>6. QED
  BY <1>2, <1>3, <1>4, <1>5

LEMMA NextKeepsEcho == EchoInv /\ [Next]_vars => EchoInv'
<1> SUFFICES ASSUME EchoInv, [Next]_vars
             PROVE  EchoInv'
  OBVIOUS
<1>1. ASSUME NEW c \in Conns, Client(c)
      PROVE  EchoInv'
  BY <1>1, ClientKeepsInv
<1>2. CASE LoopStep
  <2>1. ASSUME NEW c \in Conns, HandleEvent(c) \/ Accept(c)
        PROVE  EchoInv'
    BY <2>1, DispatchKeepsInv, AcceptKeepsInv
  <2>2. QED
    BY <1>2, <2>1, DispatchKeepsInv, CloseKeepsInv DEF LoopStep
<1>3. CASE UNCHANGED vars
  BY <1>3
     DEF vars, network, server, EchoInv, TypeOK, SentInv, TableInv,
         RegisteredInv, CallbackInv
<1>4. QED
  BY <1>1, <1>2, <1>3 DEF Next

LEMMA EchoCorrect == Spec => []EchoInv
BY InitEcho, NextKeepsEcho, PTL DEF Spec

----------------------------------------------------------------------------
(* The types hold, and only a client that has sent something is answered   *)
(* (main_stage2.cpp:85-101).                                               *)
THEOREM TypeCorrect == Spec => []TypeOK
<1>1. EchoInv => TypeOK
  BY DEF EchoInv
<1>2. QED
  BY <1>1, EchoCorrect, PTL

(* The raw pointers that epoll, the event array and the running callback   *)
(* hold (main_stage2.cpp:69-70) are owned by the map, whatever numbers     *)
(* were closed and given out again in the same turn.                       *)
THEOREM PointersCorrect == Spec => []PointersAreOwned
<1>1. EchoInv => PointersAreOwned
  BY DEF EchoInv, TableInv, RegisteredInv, CallbackInv, PointersAreOwned
<1>2. QED
  BY <1>1, EchoCorrect, PTL
=============================================================================
