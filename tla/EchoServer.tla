----------------------------- MODULE EchoServer -----------------------------
(***************************************************************************)
(* Stage 2, epoll-http-server/examples/main_stage2.cpp: one event loop     *)
(* accepts, answers one read of each connection, and closes it.  The map   *)
(* clients_ owns the channels, keyed by descriptor number, and a callback  *)
(* destroys its own channel.                                               *)
(*                                                                         *)
(* There is one thread, but clients act at any time: between two accepts,  *)
(* between read() and write(), and between the report of an event and its  *)
(* callback.  A client may hold a connection without ever using it.        *)
(***************************************************************************)
EXTENDS Naturals, FiniteSets, FiniteSetsExt

CONSTANTS
  Conns,     \* BOUND: the connections clients open, each one once
  NoConn,
  Listen,    \* the acceptor's channel
  maxFd,     \* BOUND: descriptors 1 .. maxFd are left for connections
  MaxSends   \* BOUND: pieces of data a client sends

Fds == 1 .. maxFd

ASSUME EchoAssumption ==
  /\ maxFd \in Nat \ {0}
  /\ MaxSends \in Nat
  /\ NoConn \notin Conns
  /\ Listen \notin Conns \cup {NoConn}

VARIABLES
  client,     \* client[c]: "away", "here", "fin" (has shut its side down),
              \* or "reset"
  sends,      \* sends[c]: pieces the client has sent
  inbox,      \* inbox[c]: how many of them have not been read
  open,       \* the kernel's table: the connection each fd denotes
  fdOf,       \* fdOf[c]: the number accept() returned, 0 before
  answered,   \* HISTORY: connections that write() has answered
  registered, \* connections whose channel is in the epoll set
  clients_,   \* the map: the connection whose channel each key owns
  pc,         \* where the loop's thread is
  active,     \* events of this turn not dispatched yet
  cur         \* the connection whose callback is running

network == <<client, sends, inbox>>
server == <<open, fdOf, answered, registered, clients_>>
vars == <<network, server, pc, active, cur>>

Init ==
  /\ client = [c \in Conns |-> "away"]
  /\ sends = [c \in Conns |-> 0]
  /\ inbox = [c \in Conns |-> 0]
  /\ open = [f \in Fds |-> NoConn]
  /\ fdOf = [c \in Conns |-> 0]
  /\ answered = {}
  /\ registered = {}
  /\ clients_ = [f \in Fds |-> NoConn]
  /\ pc = "wait"
  /\ active = {}
  /\ cur = NoConn

----------------------------------------------------------------------------
(* The clients.  The kernel completes a connect() by itself; data may      *)
(* arrive, and the client leave, before accept() has been called.          *)
Waiting == {c \in Conns : client[c] # "away" /\ fdOf[c] = 0}
Closed(c) == fdOf[c] # 0 /\ open[fdOf[c]] # c

Connect(c) ==
  /\ client[c] = "away"
  /\ client' = [client EXCEPT ![c] = "here"]
  /\ UNCHANGED <<sends, inbox, server, pc, active, cur>>

Send(c) ==
  /\ client[c] = "here"
  /\ ~Closed(c)
  /\ sends[c] < MaxSends
  /\ sends' = [sends EXCEPT ![c] = @ + 1]
  /\ inbox' = [inbox EXCEPT ![c] = @ + 1]
  /\ UNCHANGED <<client, server, pc, active, cur>>

(* shutdown() or close(); a reset throws away what has not been read.      *)
Leave(c) ==
  /\ ~Closed(c)
  /\ \/ /\ client[c] = "here"
        /\ client' = [client EXCEPT ![c] = "fin"]
        /\ UNCHANGED inbox
     \/ /\ client[c] \in {"here", "fin"}
        /\ client' = [client EXCEPT ![c] = "reset"]
        /\ inbox' = [inbox EXCEPT ![c] = 0]
  /\ UNCHANGED <<sends, server, pc, active, cur>>

----------------------------------------------------------------------------
(* Level triggered: data, the end of the stream or an error is readable.   *)
Readable(c) == inbox[c] > 0 \/ client[c] \in {"fin", "reset"}

Ready == {c \in registered : Readable(c)}
         \cup {ch \in {Listen} : Waiting # {}}

(* epoll_wait returns all that is ready: kMaxEvents is larger than the     *)
(* number of descriptors here.                                             *)
EpollWait ==
  /\ pc = "wait"
  /\ Ready # {}
  /\ active' = Ready
  /\ pc' = "dispatch"
  /\ UNCHANGED <<network, server, cur>>

HandleEvent(c) ==
  /\ pc = "dispatch"
  /\ c \in active
  /\ active' = active \ {c}
  /\ cur' = c
  /\ pc' = "read"
  /\ UNCHANGED <<network, server>>

HandleListen ==
  /\ pc = "dispatch"
  /\ Listen \in active
  /\ active' = active \ {Listen}
  /\ pc' = "accept"
  /\ UNCHANGED <<network, server, cur>>

EndDispatch ==
  /\ pc = "dispatch"
  /\ active = {}
  /\ pc' = "wait"
  /\ UNCHANGED <<network, server, active, cur>>

----------------------------------------------------------------------------
FreeFds == {f \in Fds : open[f] = NoConn}

AcceptWithoutOwner(c) ==         \* seeded fault: clients_[conn_fd] is not set
  /\ pc = "accept"
  /\ c \in Waiting
  /\ FreeFds # {}
  /\ LET fd == Min(FreeFds)
     IN /\ open' = [open EXCEPT ![fd] = c]
        /\ fdOf' = [fdOf EXCEPT ![c] = fd]
  /\ registered' = registered \cup {c}
  /\ UNCHANGED <<network, answered, clients_, pc, active, cur>>

(* onAccept: one turn of its loop, with the lowest free number.  When      *)
(* epoll_ctl refuses it, that is printed and nothing else changes.         *)
Accept(c) ==
  /\ pc = "accept"
  /\ c \in Waiting
  /\ FreeFds # {}
  /\ LET fd == Min(FreeFds)
     IN /\ open' = [open EXCEPT ![fd] = c]
        /\ fdOf' = [fdOf EXCEPT ![c] = fd]
        /\ clients_' = [clients_ EXCEPT ![fd] = c]
  /\ registered' \in {registered, registered \cup {c}}
  /\ UNCHANGED <<network, answered, pc, active, cur>>

AcceptBlocks ==                  \* seeded fault: the socket is left blocking
  /\ pc = "accept"
  /\ Waiting # {}
  /\ FreeFds = {}
  /\ pc' = "dispatch"
  /\ UNCHANGED <<network, server, active, cur>>

(* ... and its end: the backlog is empty, or there is no descriptor left.  *)
AcceptFails ==
  /\ pc = "accept"
  /\ Waiting = {} \/ FreeFds = {}
  /\ pc' = "dispatch"
  /\ UNCHANGED <<network, server, active, cur>>

(* onRead, read() > 0: some of the data that is there.                     *)
ReadData ==
  /\ pc = "read"
  /\ \E n \in 1 .. inbox[cur] : inbox' = [inbox EXCEPT ![cur] = @ - n]
  /\ pc' = "write"
  /\ UNCHANGED <<client, sends, server, active, cur>>

ReadEndAnswers ==                \* seeded fault: writes whatever read() gave
  /\ pc = "read"
  /\ inbox[cur] = 0
  /\ client[cur] \in {"fin", "reset"}
  /\ pc' = "write"
  /\ UNCHANGED <<network, server, active, cur>>

ReadEndReturns ==                \* seeded fault: nothing is removed
  /\ pc = "read"
  /\ inbox[cur] = 0
  /\ client[cur] \in {"fin", "reset"}
  /\ pc' = "dispatch"
  /\ cur' = NoConn
  /\ UNCHANGED <<network, server, active>>

(* read() = 0, or an error other than EAGAIN, which a level-triggered      *)
(* event of a stream socket that nobody else reads cannot be followed by.  *)
ReadEnd ==
  /\ pc = "read"
  /\ inbox[cur] = 0
  /\ client[cur] \in {"fin", "reset"}
  /\ pc' = "close"
  /\ UNCHANGED <<network, server, active, cur>>

(* write(), its result ignored.  To a client that has reset the connection *)
(* it fails, or SIGPIPE ends the process.                                  *)
WriteResponse ==
  /\ pc = "write"
  /\ \/ /\ client[cur] # "reset"
        /\ answered' = answered \cup {cur}
        /\ pc' = "close"
     \/ /\ client[cur] = "reset"
        /\ pc' \in {"close", "killed"}
        /\ UNCHANGED answered
  /\ UNCHANGED <<network, open, fdOf, registered, clients_, active, cur>>

CloseLeakingFd ==                \* seeded fault: ::close(fd) is missing
  /\ pc = "close"
  /\ registered' = registered \ {cur}
  /\ clients_' = [clients_ EXCEPT ![fdOf[cur]] = NoConn]
  /\ cur' = NoConn
  /\ pc' = "dispatch"
  /\ UNCHANGED <<network, open, fdOf, answered, active>>

(* disableAll(), clients_.erase(fd) and ::close(fd): the accept that could *)
(* see the steps apart runs on the same thread.                            *)
CloseConnection ==
  /\ pc = "close"
  /\ registered' = registered \ {cur}
  /\ clients_' = [clients_ EXCEPT ![fdOf[cur]] = NoConn]
  /\ open' = [open EXCEPT ![fdOf[cur]] = NoConn]
  /\ cur' = NoConn
  /\ pc' = "dispatch"
  /\ UNCHANGED <<network, fdOf, answered, active>>

----------------------------------------------------------------------------
Client(c) == Connect(c) \/ Send(c) \/ Leave(c)

LoopStep ==
  \/ EpollWait
  \/ \E c \in Conns : HandleEvent(c) \/ Accept(c)
  \/ HandleListen
  \/ EndDispatch
  \/ AcceptFails
  \/ ReadData
  \/ ReadEnd
  \/ WriteResponse
  \/ CloseConnection

Next == (\E c \in Conns : Client(c)) \/ LoopStep

Spec == Init /\ [][Next]_vars

(* The loop's thread keeps running.  No client has to do anything.         *)
FairSpec == Spec /\ WF_vars(LoopStep)

----------------------------------------------------------------------------
(* Types, and only a client that has sent something is answered            *)
(* (main_stage2.cpp:85-101; stage 1 writes whatever read() returned).      *)
TypeOK ==
  /\ client \in [Conns -> {"away", "here", "fin", "reset"}]
  /\ sends \in [Conns -> 0 .. MaxSends]
  /\ inbox \in [Conns -> 0 .. MaxSends]
  /\ open \in [Fds -> Conns \cup {NoConn}]
  /\ fdOf \in [Conns -> Fds \cup {0}]
  /\ answered \subseteq {c \in Conns : sends[c] > 0}
  /\ registered \subseteq Conns
  /\ clients_ \in [Fds -> Conns \cup {NoConn}]
  /\ pc \in {"wait", "dispatch", "accept", "read", "write", "close", "killed"}
  /\ active \subseteq Conns \cup {Listen}
  /\ cur \in Conns \cup {NoConn}
  /\ pc \in {"read", "write", "close", "killed"} <=> cur # NoConn

(* "callbacks use the raw pointer only while the channel is still          *)
(* registered in this EventLoop" (main_stage2.cpp:69-70): a channel that   *)
(* epoll points to, that is still to be dispatched or whose callback runs  *)
(* is owned by the map, also after numbers were closed and given out again *)
(* in the same turn.                                                       *)
PointersAreOwned ==
  \A c \in registered \cup (active \ {Listen}) \cup ({cur} \ {NoConn}) :
    clients_[fdOf[c]] = c /\ open[fdOf[c]] = c

Killed == pc = "killed"

(* Epoll has refused the connection: nobody reads it or closes it.         *)
Deaf(c) == fdOf[c] # 0 /\ clients_[fdOf[c]] = c /\ c \notin registered

(* A client that was accepted and has sent something is answered, or has   *)
(* left, however many others stay silent (stage 1 would serve it only      *)
(* after them: README.md, stages 1 and 2).                                 *)
SenderIsAnswered ==
  \A c \in Conns :
    fdOf[c] # 0 /\ sends[c] > 0 ~>
      c \in answered \/ client[c] = "reset" \/ Deaf(c) \/ Killed

HeldForNothing ==
  \A f \in Fds : \E c \in Conns :
    open[f] = c /\ (~Readable(c) \/ Deaf(c))

(* A client that waits is accepted, unless for ever every descriptor is    *)
(* held by a client that has nothing to read from, or a deaf connection.   *)
WaitingIsAccepted ==
  \A c \in Conns :
    c \in Waiting ~>
      \/ fdOf[c] # 0
      \/ []HeldForNothing
      \/ Killed

(* A client that leaves gives its descriptor back.                         *)
LeavingFreesFd ==
  \A c \in Conns :
    fdOf[c] # 0 /\ client[c] \in {"fin", "reset"} ~>
      Closed(c) \/ Deaf(c) \/ Killed
=============================================================================
