--------------------------- MODULE ReactorServer ---------------------------
(***************************************************************************)
(* The life of a connection in stage 3's ReactorServer                     *)
(* (epoll-http-server/examples/main_stage3.cpp).  It accepts, distributes  *)
(* and creates connections as HttpServer does, but removeConnection erases *)
(* the map entry (which destroys the channel) before it closes the         *)
(* descriptor, all inside the callback.  connections_ is clients_, and an  *)
(* object is a Channel.                                                    *)
(***************************************************************************)
EXTENDS Reactor

(* Nothing is connected; the acceptor's channel is registered by start().  *)
Init == ReactorInit

----------------------------------------------------------------------------
(* removeConnection, in the callback of cur[l]: disableAll().              *)
RemoveConnection(l) ==
  /\ pc[l] = "handler"
  /\ DisableAll(cur[l])
  /\ pc' = [pc EXCEPT ![l] = "erase"]
  /\ UNCHANGED <<kernel, object, loopOf, deaf, connections_, next_, active,
                 cur, tasks, turn>>

CloseBeforeErase(l) ==           \* seeded fault: the order of HttpServer
  /\ pc[l] = "erase"
  /\ IF open[FdOfCur(l)] = cur[l]
     THEN /\ open' = [open EXCEPT ![FdOfCur(l)] = NoConn]
          /\ UNCHANGED <<connections_, object, pc>>
     ELSE /\ connections_' = [connections_ EXCEPT ![FdOfCur(l)] = NoConn]
          /\ object' = DestroyOwnedBy(FdOfCur(l))
          /\ pc' = [pc EXCEPT ![l] = "return"]
          /\ UNCHANGED open
  /\ UNCHANGED <<peer, fdOf, loopOf, registered, deaf, next_, active, cur,
                 tasks, turn>>

(* clients_.erase(fd) under the lock.                                      *)
EraseClient(l) ==
  /\ pc[l] = "erase"
  /\ connections_' = [connections_ EXCEPT ![FdOfCur(l)] = NoConn]
  /\ object' = DestroyOwnedBy(FdOfCur(l))
  /\ pc' = [pc EXCEPT ![l] = "close"]
  /\ UNCHANGED <<kernel, loopOf, registered, deaf, next_, active, cur,
                 tasks, turn>>

LeakFd(l) ==                     \* seeded fault: ::close(fd) is missing
  /\ pc[l] = "close"
  /\ pc' = [pc EXCEPT ![l] = "return"]
  /\ UNCHANGED <<kernel, objects, next_, active, cur, tasks, turn>>

(* ::close(fd), of the local copy of the number.                           *)
CloseFd(l) ==
  /\ pc[l] = "close"
  /\ open' = [open EXCEPT ![FdOfCur(l)] = NoConn]
  /\ registered' = registered \ {open[FdOfCur(l)]}
  /\ pc' = [pc EXCEPT ![l] = "return"]
  /\ UNCHANGED <<peer, fdOf, object, loopOf, deaf, connections_, next_, active,
                 cur, tasks, turn>>

----------------------------------------------------------------------------
LoopStep(l) ==
  \/ ReactorLoopStep(l)
  \/ l = mainLoop_ /\ AcceptorStep
  \/ RemoveConnection(l) \/ EraseClient(l) \/ CloseFd(l)

Next ==
  \/ \E c \in Conns : Connect(c)
  \/ \E l \in Loops : LoopStep(l)

Spec == Init /\ [][Next]_reactorVars

----------------------------------------------------------------------------
(* The thread of l is in removeConnection of connection c, or still has to *)
(* use its channel (after the erase only the copy of fd is used, and       *)
(* handleEvent returns at once).                                           *)
Removing(l, c) == cur[l] = c /\ pc[l] \in {"erase", "close"}
UsesChannel(l, c) == cur[l] = c /\ pc[l] \in {"handler", "erase"}

(* The pointers epoll holds, and those in the event arrays still to be     *)
(* dispatched, refer to channels that exist.                               *)
NoDanglingEvent ==
  \A c \in Conns :
    c \in registered \/ (\E l \in Loops : c \in active[l]) =>
      object[c] = "alive"

(* A channel may be destroyed in its own callback, but not under another   *)
(* thread's feet, whatever number the kernel gives to the next connection. *)
ChannelAliveWhenUsed ==
  \A l \in Loops : \A c \in Conns : UsesChannel(l, c) => object[c] = "alive"

(* An open descriptor has an object whose channel is registered or in its  *)
(* callback, or is about to be closed, or its object is to be created, or  *)
(* epoll has refused it.                                                   *)
OpenFdIsServed ==
  \A f \in Fds : open[f] # NoConn =>
    LET c == open[f]
    IN \/ object[c] = "none" \/ c \in deaf
       \/ object[c] = "alive" /\ c \in registered
       \/ \E l \in Loops : UsesChannel(l, c) \/ Removing(l, c)

(* The map never keeps an entry under a number that has been closed or     *)
(* given to another connection: erase comes before close in                *)
(* main_stage3.cpp:108-117.                                                *)
EntriesAreOpen ==
  \A f \in Fds : connections_[f] # NoConn => open[f] = connections_[f]

----------------------------------------------------------------------------
(* Each step of the server is a step in the life of one connection, or     *)
(* none: no connection is served before it has a number of its own, or     *)
(* loses its object or its number in any other way than its own end, and   *)
(* no number is ever given away before it has been released.               *)
Life == INSTANCE ConnectionLife WITH Numbers <- Fds,
                                     stage   <- [c \in Conns |-> Stage(c)],
                                     number  <- fdOf,
                                     shared  <- {},
                                     failed  <- FALSE

ImplementsLife == Life!LifeSpec
=============================================================================
