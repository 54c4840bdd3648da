----------------------------- MODULE HttpServer -----------------------------
(***************************************************************************)
(* The life of a connection in HttpServer                                  *)
(* (epoll-http-server/src/HttpServer.{h,cpp}).  removeConnection marks it, *)
(* takes its channel out of epoll, closes the descriptor and queues an     *)
(* erase of the map entry, keyed by the descriptor number, on its loop.    *)
(* Which bytes make a callback remove the connection is not the question   *)
(* here: a callback may or may not do so.                                  *)
(***************************************************************************)
EXTENDS Reactor

VARIABLES
  closing,  \* closing[c]: the member of the same name
  reused,   \* HISTORY: numbers accept() has returned while they were keys
  corrupt   \* HISTORY: a thread has used an object after its destruction

serverVars == <<reactorVars, closing, reused, corrupt>>

Init ==
  /\ ReactorInit
  /\ closing = [c \in Conns |-> FALSE]
  /\ reused = {}
  /\ corrupt = FALSE

----------------------------------------------------------------------------
(* removeConnection, in the callback of cur[l]: the guard on closing, the  *)
(* flag, and disableAll().                                                 *)
RemoveRelyingOnDestructor(l) ==  \* seeded fault: ~Channel() closes nothing
  /\ pc[l] = "handler"
  /\ ~closing[cur[l]]
  /\ closing' = [closing EXCEPT ![cur[l]] = TRUE]
  /\ pc' = [pc EXCEPT ![l] = "queue"]
  /\ UNCHANGED <<kernel, objects, next_, active, cur, tasks, turn>>

RemoveConnection(l) ==
  /\ pc[l] = "handler"
  /\ ~closing[cur[l]]
  /\ closing' = [closing EXCEPT ![cur[l]] = TRUE]
  /\ DisableAll(cur[l])
  /\ pc' = [pc EXCEPT ![l] = "close"]
  /\ UNCHANGED <<kernel, object, loopOf, deaf, connections_, next_, active,
                 cur, tasks, turn>>

LeakFd(l) ==                     \* seeded fault: ::close(fd) is missing
  /\ pc[l] = "close"
  /\ pc' = [pc EXCEPT ![l] = "queue"]
  /\ UNCHANGED <<kernel, objects, next_, active, cur, tasks, turn, closing>>

(* ::close(fd), which also drops the descriptor from any epoll set.        *)
CloseFd(l) ==
  /\ pc[l] = "close"
  /\ open' = [open EXCEPT ![FdOfCur(l)] = NoConn]
  /\ registered' = registered \ {open[FdOfCur(l)]}
  /\ pc' = [pc EXCEPT ![l] = "queue"]
  /\ UNCHANGED <<peer, fdOf, object, loopOf, deaf, connections_, next_, active,
                 cur, tasks, turn, closing>>

EraseAtOnce(l) ==                \* seeded fault: runInLoop, not queueInLoop
  /\ pc[l] = "queue"
  /\ connections_' = [connections_ EXCEPT ![FdOfCur(l)] = NoConn]
  /\ object' = DestroyOwnedBy(FdOfCur(l))
  /\ pc' = [pc EXCEPT ![l] = "return"]
  /\ UNCHANGED <<kernel, loopOf, registered, deaf, next_, active, cur, tasks,
                 turn, closing>>

ForgetErase(l) ==                \* seeded fault: nobody erases the entry
  /\ pc[l] = "queue"
  /\ pc' = [pc EXCEPT ![l] = "return"]
  /\ UNCHANGED <<kernel, objects, next_, active, cur, tasks, turn, closing>>

(* conn->loop->queueInLoop: the functor has captured fd, not the object.   *)
QueueErase(l) ==
  /\ pc[l] = "queue"
  /\ tasks' = QueueInLoop(loopOf[cur[l]], "erase", FdOfCur(l))
  /\ pc' = [pc EXCEPT ![l] = "return"]
  /\ UNCHANGED <<kernel, objects, next_, active, cur, turn, closing>>

(* The functor: erase the key, which destroys the object it owns.          *)
RunErase(l) ==
  /\ NextTaskIs(l, "erase")
  /\ TaskTaken(l)
  /\ connections_' = [connections_ EXCEPT ![Head(tasks[l]).fd] = NoConn]
  /\ object' = DestroyOwnedBy(Head(tasks[l]).fd)
  /\ UNCHANGED <<kernel, loopOf, registered, deaf, next_, pc, active, cur,
                 closing>>

----------------------------------------------------------------------------
(* The callbacks keep raw pointers to the Connection and its Channel.  A   *)
(* thread that is about to dispatch an event, is in a callback or has come *)
(* to conn->loop uses one.  When the object has been destroyed, either its *)
(* memory still is what it was, which is what the actions above assume, or *)
(* it is not: then the thread may do anything, such as close a descriptor  *)
(* that is none of its business, and the model stops.                      *)
Uses(l, c) ==
  \/ pc[l] = "dispatch" /\ c \in active[l]
  \/ pc[l] \in {"handler", "queue"} /\ cur[l] = c

UseDestroyed(l) ==
  /\ \E c \in Conns : Uses(l, c) /\ object[c] = "freed"
  /\ \E f \in Fds : open' = [open EXCEPT ![f] = NoConn]
  /\ corrupt' = TRUE
  /\ UNCHANGED <<peer, fdOf, objects, next_, loops, closing, reused>>

RecordReuse ==
  reused' = reused \cup {f \in Fds : connections_[f] # NoConn /\ open[f] = NoConn
                                     /\ open'[f] # NoConn}

LoopStep(l) ==
  /\ ~corrupt
  /\ \/ /\ ReactorLoopStep(l)
        /\ UNCHANGED <<closing, reused, corrupt>>
     \/ /\ l = mainLoop_ /\ AcceptorStep
        /\ RecordReuse
        /\ UNCHANGED <<closing, corrupt>>
     \/ /\ RemoveConnection(l) \/ CloseFd(l) \/ QueueErase(l) \/ RunErase(l)
        /\ UNCHANGED <<reused, corrupt>>
     \/ UseDestroyed(l)

Next ==
  \/ \E c \in Conns : Connect(c) /\ UNCHANGED <<closing, reused, corrupt>>
  \/ \E l \in Loops : LoopStep(l)

Spec == Init /\ [][Next]_serverVars

(* Each loop's thread keeps running.                                       *)
FairSpec == Spec /\ \A l \in Loops : WF_serverVars(LoopStep(l))

----------------------------------------------------------------------------
(* Types; next_ always indexes a sub loop.                                 *)
TypeOK ==
  /\ ReactorTypeOK
  /\ closing \in [Conns -> BOOLEAN]
  /\ reused \subseteq Fds
  /\ corrupt \in BOOLEAN

(* The thread of l is inside handleEvent() of connection c.                *)
InCallback(l, c) ==
  cur[l] = c /\ pc[l] \in {"handler", "close", "queue", "return"}

(* "the Channel object stays alive until event dispatch returns"           *)
(* (HttpServer.cpp:190-192): no thread is in a callback of a channel that  *)
(* has been destroyed.                                                     *)
ChannelAliveDuringDispatch ==
  \A l \in Loops : \A c \in Conns : InCallback(l, c) => object[c] = "alive"

(* What holds whatever numbers the kernel returns: a thread is in a        *)
(* callback of a destroyed channel, or epoll or an event array still has a *)
(* pointer to it, only if accept() has returned that channel's number      *)
(* while it was a key of the map; the other connections are not affected,  *)
(* as long as no thread has used such a channel.                           *)
DanglesOnlyIfReused ==
  ~corrupt =>
    \A c \in Conns :
      \/ c \in registered
      \/ \E l \in Loops : InCallback(l, c) \/ c \in active[l]
      => object[c] = "alive" \/ fdOf[c] \in reused

(* "The sub reactors read and write the connections" (README.md:53): an    *)
(* open descriptor has an object whose channel is registered or in its     *)
(* callback, or that object is still to be created.  The exceptions are    *)
(* those epoll has refused, which nobody reads or closes any more, and the *)
(* numbers that have been reused too early.                                *)
OpenFdIsServed ==
  ~corrupt =>
    \A f \in Fds \ reused : open[f] # NoConn =>
      LET c == open[f]
      IN \/ object[c] = "none" \/ c \in deaf
         \/ /\ object[c] = "alive"
            /\ c \in registered \/ \E l \in Loops : InCallback(l, c)

----------------------------------------------------------------------------
(* Each step of the server is a step in the life of one connection, or     *)
(* none: no connection is served before it has a number of its own, or     *)
(* loses its object or its number in any other way than its own end.  The  *)
(* erase that is keyed by a closed number makes the exception: numbers     *)
(* accepted too early are shared, and may bring the server down.           *)
Life == INSTANCE ConnectionLife WITH Numbers <- Fds,
                                     stage   <- [c \in Conns |-> Stage(c)],
                                     number  <- fdOf,
                                     shared  <- reused,
                                     failed  <- corrupt

ImplementsLife == Life!LifeSpec

(* Connections do not get stuck: the functor that creates or erases an     *)
(* object is not lost and its loop is woken, and the acceptor picks up     *)
(* again when a number has become free.                                    *)
LifeGoesOn == Life!LifeGoesOn
=============================================================================
