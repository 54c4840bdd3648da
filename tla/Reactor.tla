------------------------------ MODULE Reactor ------------------------------
(***************************************************************************)
(* What HttpServer and stage 3's ReactorServer have in common: the         *)
(* Acceptor on the main loop, the EventLoopThreadPool that hands each      *)
(* accepted descriptor to a sub loop, the creation of the connection       *)
(* object there, and the dispatch of its events, each loop in its own      *)
(* thread.  How a connection is removed is what the two servers differ in: *)
(* modules HttpServer and ReactorServer add it.                            *)
(*                                                                         *)
(* A loop is reduced to what TaskQueue promises of it: tasks[l] is the     *)
(* FIFO of functors, of which a turn executes the ones that were there     *)
(* when the turn's events had been dispatched (EventLoop shows that).      *)
(* The kernel's descriptor table is part of the model, because descriptor  *)
(* numbers are the keys of the connection map and the kernel hands out the *)
(* lowest free one.                                                        *)
(***************************************************************************)
EXTENDS Integers, Sequences

CONSTANTS
  numThreads,  \* sub loops; 0 means that the main loop serves connections
  Conns,       \* BOUND: the connections clients open, each one once
  NoConn,
  Listen,      \* the acceptor's channel
  maxFd        \* BOUND: descriptors 1 .. maxFd are left for connections

mainLoop_ == 0
Loops == 0 .. numThreads
Fds == 1 .. maxFd

ASSUME ReactorAssumption ==
  /\ numThreads \in Nat
  /\ maxFd \in Nat \ {0}
  /\ NoConn \notin Conns
  /\ Listen \notin Conns \cup {NoConn}

VARIABLES
  peer,         \* peer[c]: the client's side of connection c
  open,         \* the kernel's table: the connection each fd denotes
  fdOf,         \* fdOf[c]: the number accept() returned, 0 before
  object,       \* object[c]: the C++ object that serves c
  loopOf,       \* loopOf[c]: the loop that object belongs to
  registered,   \* connections whose channel is in its loop's epoll set
  deaf,         \* connections whose EPOLL_CTL_ADD has failed
  connections_, \* the map keyed by fd, which owns the objects
  next_,        \* the pool's round-robin index
  pc,           \* pc[l]: where the thread of loop l is
  active,       \* active[l]: events of this turn not dispatched yet
  cur,          \* cur[l]: the connection the thread is working on
  tasks,        \* tasks[l]: functors queued, oldest first
  turn          \* turn[l]: functors of the swapped-out batch still to run

kernel == <<peer, open, fdOf>>
objects == <<object, loopOf, registered, deaf, connections_>>
loops == <<pc, active, cur, tasks, turn>>
reactorVars == <<kernel, objects, next_, loops>>

Task == [kind : {"create", "erase"}, fd : Fds]

LoopPC == {"wait", "dispatch", "accept", "new", "create", "insert", "handler",
           "close", "queue", "erase", "return", "run"}

FdOfCur(l) == fdOf[cur[l]]

(* start() has returned: the pool's loops run, and nothing is connected.   *)
ReactorInit ==
  /\ peer = [c \in Conns |-> "away"]
  /\ open = [f \in Fds |-> NoConn]
  /\ fdOf = [c \in Conns |-> 0]
  /\ object = [c \in Conns |-> "none"]
  /\ loopOf = [c \in Conns |-> mainLoop_]
  /\ registered = {}
  /\ deaf = {}
  /\ connections_ = [f \in Fds |-> NoConn]
  /\ next_ = 0
  /\ pc = [l \in Loops |-> "wait"]
  /\ active = [l \in Loops |-> {}]
  /\ cur = [l \in Loops |-> NoConn]
  /\ tasks = [l \in Loops |-> <<>>]
  /\ turn = [l \in Loops |-> 0]

QueueInLoop(l, kind, fd) ==
  [tasks EXCEPT ![l] = Append(@, [kind |-> kind, fd |-> fd])]

(* What happens to an object when the map's entry for fd is overwritten or *)
(* erased: the unique_ptr destroys it.                                     *)
DestroyOwnedBy(fd) ==
  [c \in Conns |-> IF c = connections_[fd] THEN "freed" ELSE object[c]]

(* EventLoop::updateChannel on a channel that begins to want events:       *)
(* epoll_ctl may fail, which is printed, and addedToEpoll_ is set all the  *)
(* same, so that nothing tries again.                                      *)
EnableReading(c) ==
  \/ registered' = registered \cup {c} /\ UNCHANGED deaf
  \/ deaf' = deaf \cup {c} /\ UNCHANGED registered

(* ... and on one that no longer wants any.                                *)
DisableAll(c) == registered' = registered \ {c}

----------------------------------------------------------------------------
(* A client's connect() completes: the connection waits in the backlog.    *)
Connect(c) ==
  /\ peer[c] = "away"
  /\ peer' = [peer EXCEPT ![c] = "waiting"]
  /\ UNCHANGED <<open, fdOf, objects, next_, loops>>

Waiting == {c \in Conns : peer[c] = "waiting"}

Ready(l) == {c \in registered : loopOf[c] = l}
            \cup {ch \in {Listen} : l = mainLoop_ /\ Waiting # {}}

EpollWaitWithoutEventfd(l) ==    \* seeded fault: queueInLoop does not wake
  /\ pc[l] = "wait"
  /\ \E batch \in SUBSET Ready(l) :
       batch # {} /\ active' = [active EXCEPT ![l] = batch]
  /\ pc' = [pc EXCEPT ![l] = "dispatch"]
  /\ UNCHANGED <<kernel, objects, next_, cur, tasks, turn>>

(* epoll_wait returns some of the channels something may have happened on, *)
(* or only the eventfd.                                                    *)
EpollWait(l) ==
  /\ pc[l] = "wait"
  /\ \E batch \in SUBSET Ready(l) :
       /\ batch # {} \/ tasks[l] # <<>>
       /\ active' = [active EXCEPT ![l] = batch]
  /\ pc' = [pc EXCEPT ![l] = "dispatch"]
  /\ UNCHANGED <<kernel, objects, next_, cur, tasks, turn>>

(* A connection's channel calls its read, write or close callback.         *)
HandleEvent(l, c) ==
  /\ pc[l] = "dispatch"
  /\ c \in active[l]
  /\ active' = [active EXCEPT ![l] = @ \ {c}]
  /\ cur' = [cur EXCEPT ![l] = c]
  /\ pc' = [pc EXCEPT ![l] = "handler"]
  /\ UNCHANGED <<kernel, objects, next_, tasks, turn>>

HandleListen ==
  /\ pc[mainLoop_] = "dispatch"
  /\ Listen \in active[mainLoop_]
  /\ active' = [active EXCEPT ![mainLoop_] = @ \ {Listen}]
  /\ pc' = [pc EXCEPT ![mainLoop_] = "accept"]
  /\ UNCHANGED <<kernel, objects, next_, cur, tasks, turn>>

HandlerReturns(l) ==
  /\ pc[l] \in {"handler", "return"}
  /\ pc' = [pc EXCEPT ![l] = "dispatch"]
  /\ cur' = [cur EXCEPT ![l] = NoConn]
  /\ UNCHANGED <<kernel, objects, next_, active, tasks, turn>>

----------------------------------------------------------------------------
(* Acceptor::onAccept, on the main loop.  A number is free as soon as it   *)
(* has been closed, whether or not it is still a key of the map.           *)
FreeFds == {f \in Fds : open[f] = NoConn}

LowestFree == {f \in FreeFds : \A g \in FreeFds : f <= g}

Accept(c) ==
  /\ pc[mainLoop_] = "accept"
  /\ c \in Waiting
  /\ \E fd \in LowestFree : /\ open' = [open EXCEPT ![fd] = c]
                            /\ fdOf' = [fdOf EXCEPT ![c] = fd]
  /\ peer' = [peer EXCEPT ![c] = "accepted"]
  /\ cur' = [cur EXCEPT ![mainLoop_] = c]
  /\ pc' = [pc EXCEPT ![mainLoop_] = "new"]
  /\ UNCHANGED <<objects, next_, active, tasks, turn>>

(* accept() fails: the backlog is empty, or there is no descriptor left.   *)
AcceptFails ==
  /\ pc[mainLoop_] = "accept"
  /\ Waiting = {} \/ FreeFds = {}
  /\ pc' = [pc EXCEPT ![mainLoop_] = "dispatch"]
  /\ UNCHANGED <<kernel, objects, next_, active, cur, tasks, turn>>

(* getNextLoop: baseLoop_ when the pool is empty.                          *)
NextLoop == IF numThreads = 0 THEN mainLoop_ ELSE next_ + 1

AdvanceNextUnbounded ==          \* seeded fault: no modulo
  next_' = IF numThreads = 0 THEN next_ ELSE next_ + 1

AdvanceNext ==
  next_' = IF numThreads = 0 THEN next_ ELSE (next_ + 1) % numThreads

(* onNewConnection: subLoop->runInLoop queues the creation, or runs it at  *)
(* once when the sub loop is the main loop itself.                         *)
OnNewConnection ==
  /\ pc[mainLoop_] = "new"
  /\ AdvanceNext
  /\ IF NextLoop = mainLoop_
     THEN /\ pc' = [pc EXCEPT ![mainLoop_] = "create"]
          /\ UNCHANGED <<cur, tasks>>
     ELSE /\ pc' = [pc EXCEPT ![mainLoop_] = "accept"]
          /\ cur' = [cur EXCEPT ![mainLoop_] = NoConn]
          /\ tasks' = QueueInLoop(NextLoop, "create", FdOfCur(mainLoop_))
  /\ UNCHANGED <<kernel, objects, active, turn>>

(* The functor of onNewConnection, up to enableReading().                  *)
CreateConnection(l) ==
  /\ pc[l] = "create"
  /\ object' = [object EXCEPT ![cur[l]] = "alive"]
  /\ loopOf' = [loopOf EXCEPT ![cur[l]] = l]
  /\ EnableReading(cur[l])
  /\ pc' = [pc EXCEPT ![l] = "insert"]
  /\ UNCHANGED <<kernel, connections_, next_, active, cur, tasks, turn>>

(* ... and the insertion under the map's lock.  The assignment destroys    *)
(* the object the key had before, if it had one.                           *)
InsertConnection(l) ==
  /\ pc[l] = "insert"
  /\ connections_' = [connections_ EXCEPT ![FdOfCur(l)] = cur[l]]
  /\ object' = DestroyOwnedBy(FdOfCur(l))
  /\ pc' = [pc EXCEPT ![l] = IF numThreads = 0 THEN "accept" ELSE "run"]
  /\ cur' = [cur EXCEPT ![l] = NoConn]
  /\ UNCHANGED <<kernel, loopOf, registered, deaf, next_, active, tasks, turn>>

----------------------------------------------------------------------------
(* doPendingFunctors: swap, then one functor after the other.              *)
SwapFunctors(l) ==
  /\ pc[l] = "dispatch"
  /\ active[l] = {}
  /\ turn' = [turn EXCEPT ![l] = Len(tasks[l])]
  /\ pc' = [pc EXCEPT ![l] = "run"]
  /\ UNCHANGED <<kernel, objects, next_, active, cur, tasks>>

NextTaskIs(l, kind) ==
  /\ pc[l] = "run"
  /\ turn[l] > 0
  /\ Head(tasks[l]).kind = kind

TaskTaken(l) ==
  /\ turn' = [turn EXCEPT ![l] = @ - 1]
  /\ tasks' = [tasks EXCEPT ![l] = Tail(@)]

RunCreate(l) ==
  /\ NextTaskIs(l, "create")
  /\ TaskTaken(l)
  /\ cur' = [cur EXCEPT ![l] = open[Head(tasks[l]).fd]]
  /\ pc' = [pc EXCEPT ![l] = "create"]
  /\ UNCHANGED <<kernel, objects, next_, active>>

EndRun(l) ==
  /\ pc[l] = "run"
  /\ turn[l] = 0
  /\ pc' = [pc EXCEPT ![l] = "wait"]
  /\ UNCHANGED <<kernel, objects, next_, active, cur, tasks, turn>>

----------------------------------------------------------------------------
AcceptorStep ==
  \/ HandleListen
  \/ \E c \in Conns : Accept(c)
  \/ AcceptFails
  \/ OnNewConnection

ReactorLoopStep(l) ==
  \/ EpollWait(l)
  \/ \E c \in Conns : HandleEvent(l, c)
  \/ HandlerReturns(l)
  \/ CreateConnection(l)
  \/ InsertConnection(l)
  \/ SwapFunctors(l)
  \/ RunCreate(l)
  \/ EndRun(l)

----------------------------------------------------------------------------
ReactorTypeOK ==
  /\ peer \in [Conns -> {"away", "waiting", "accepted"}]
  /\ open \in [Fds -> Conns \cup {NoConn}]
  /\ fdOf \in [Conns -> Fds \cup {0}]
  /\ object \in [Conns -> {"none", "alive", "freed"}]
  /\ loopOf \in [Conns -> Loops]
  /\ registered \subseteq Conns
  /\ deaf \subseteq Conns
  /\ connections_ \in [Fds -> Conns \cup {NoConn}]
  /\ next_ \in Nat
  /\ next_ < numThreads \/ next_ = 0
  /\ pc \in [Loops -> LoopPC]
  /\ active \in [Loops -> SUBSET (Conns \cup {Listen})]
  /\ cur \in [Loops -> Conns \cup {NoConn}]
  /\ tasks \in [Loops -> Seq(Task)]
  /\ turn \in [Loops -> Nat]

----------------------------------------------------------------------------
(* What the server promises of each connection, seen from outside.         *)
IsOpen(c) == \E f \in Fds : f = fdOf[c] /\ open[f] = c

Stage(c) ==
  LET unwatched == c \notin registered \cup deaf
  IN IF peer[c] # "accepted" THEN peer[c]
     ELSE CASE object[c] = "none" /\ IsOpen(c) -> "accepted"
            [] object[c] = "alive" /\ IsOpen(c) /\ c \in registered \ deaf ->
                 "served"
            [] object[c] = "alive" /\ IsOpen(c) /\ c \in deaf \ registered ->
                 "deaf"
            [] /\ unwatched
               /\ object[c] = "alive" \/ (object[c] = "freed" /\ IsOpen(c)) ->
                 "ending"
            [] object[c] = "freed" /\ ~IsOpen(c) /\ unwatched -> "over"
            [] OTHER -> "lost"
=============================================================================
