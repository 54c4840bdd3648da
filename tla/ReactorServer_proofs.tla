------------------------ MODULE ReactorServer_proofs ------------------------
(***************************************************************************)
(* Theorems about ReactorServer for any number of sub loops (none          *)
(* included), connections and descriptors, with numbers reused or not: the *)
(* safety properties first, from one inductive invariant, and then that it *)
(* implements ConnectionLife.                                              *)
(***************************************************************************)
EXTENDS ReactorServer, TLAPS

----------------------------------------------------------------------------
(* The inductive invariant, part by part.                                  *)

(* A connection that has not been accepted has neither object nor number.  *)
BacklogInv ==
  \A c \in Conns : peer[c] # "accepted" =>
    object[c] = "none" /\ \A f \in Fds : open[f] # c

(* The kernel's table and the numbers that accept() returned agree.        *)
TableInv ==
  \A f \in Fds : open[f] # NoConn => fdOf[open[f]] = f

(* A map entry is open, alive and inserted only once.                      *)
EntryInv ==
  \A f \in Fds : connections_[f] # NoConn =>
    /\ open[f] = connections_[f]
    /\ object[connections_[f]] = "alive"
    /\ \A l \in Loops : cur[l] = connections_[f] => pc[l] # "insert"

(* A registered channel is owned by the map, or about to be.               *)
RegisteredInv ==
  \A c \in registered :
    /\ object[c] = "alive"
    /\ fdOf[c] \in Fds
    /\ \/ connections_[fdOf[c]] = c
       \/ cur[loopOf[c]] = c /\ pc[loopOf[c]] = "insert"

(* Events not dispatched yet belong to channels of this very loop that are *)
(* still registered.                                                       *)
EventInv ==
  \A l \in Loops : \A c \in Conns : c \in active[l] =>
    c \in registered /\ loopOf[c] = l

(* What is known of the connection that a thread works on.                 *)
Creating(l) == pc[l] \in {"new", "create"}

OpenAtHand(l) ==
  /\ cur[l] \in Conns
  /\ FdOfCur(l) \in Fds
  /\ open[FdOfCur(l)] = cur[l]

CreatingInv ==
  \A l \in Loops : Creating(l) =>
    /\ OpenAtHand(l)
    /\ object[cur[l]] = "none"
    /\ \A k \in Loops : Creating(k) /\ cur[k] = cur[l] => k = l

InsertingInv ==
  \A l \in Loops : pc[l] = "insert" =>
    /\ OpenAtHand(l)
    /\ object[cur[l]] = "alive"
    /\ loopOf[cur[l]] = l

HandlingInv ==
  \A l \in Loops : pc[l] \in {"handler", "erase"} =>
    /\ OpenAtHand(l)
    /\ connections_[FdOfCur(l)] = cur[l]
    /\ loopOf[cur[l]] = l
    /\ cur[l] \notin active[l]
    /\ pc[l] = "handler" <=> cur[l] \in registered

ClosingInv ==
  \A l \in Loops : pc[l] = "close" =>
    /\ OpenAtHand(l)
    /\ object[cur[l]] = "freed"
    /\ loopOf[cur[l]] = l

(* A queued functor creates the object of an open descriptor that nobody   *)
(* else is creating.                                                       *)
QueueInv ==
  \A l \in Loops :
    /\ turn[l] <= Len(tasks[l])
    /\ \A i \in 1 .. Len(tasks[l]) :
         /\ tasks[l][i].kind = "create"
         /\ open[tasks[l][i].fd] # NoConn
         /\ object[open[tasks[l][i].fd]] = "none"
         /\ \A k \in Loops : Creating(k) => FdOfCur(k) # tasks[l][i].fd

QueueDistinct ==
  \A l, k \in Loops : \A i \in 1 .. Len(tasks[l]), j \in 1 .. Len(tasks[k]) :
    tasks[l][i].fd = tasks[k][j].fd => l = k /\ i = j

(* An open descriptor is served, or its thread is on the way to close it. *)
HeldAt(place, c) == \E l \in Loops : cur[l] = c /\ pc[l] = place

ServedInv ==
  \A f \in Fds : open[f] # NoConn =>
    \/ object[open[f]] = "none" \/ open[f] \in deaf
    \/ object[open[f]] = "alive" /\ open[f] \in registered
    \/ object[open[f]] = "alive" /\ HeldAt("erase", open[f])
    \/ HeldAt("close", open[f])

ServerInv ==
  /\ ReactorTypeOK
  /\ BacklogInv /\ TableInv /\ EntryInv /\ RegisteredInv /\ EventInv
  /\ CreatingInv /\ InsertingInv /\ HandlingInv /\ ClosingInv
  /\ QueueInv /\ QueueDistinct /\ ServedInv

----------------------------------------------------------------------------
(* The steps that only move a thread from one place to another.            *)
LEMMA ConnectKeepsInv ==
  ASSUME ServerInv, NEW c \in Conns, Connect(c)
  PROVE  ServerInv'
<1> USE DEF ServerInv, ReactorTypeOK, Connect, objects, loops
<1>1. ReactorTypeOK' /\ BacklogInv'
  BY DEF BacklogInv
<1>2. QED
  BY <1>1 DEF TableInv, EntryInv, RegisteredInv, EventInv, CreatingInv,
     InsertingInv, HandlingInv, ClosingInv, Creating, OpenAtHand, FdOfCur,
     QueueInv, QueueDistinct, ServedInv, HeldAt

LEMMA EpollWaitKeepsInv ==
  ASSUME ServerInv, NEW l \in Loops, EpollWait(l)
  PROVE  ServerInv'
<1> USE DEF ServerInv, ReactorTypeOK, EpollWait, kernel, objects
<1>1. ReactorTypeOK'
  BY DEF Ready, LoopPC
<1>2. BacklogInv' /\ TableInv' /\ EntryInv' /\ RegisteredInv'
  BY DEF BacklogInv, TableInv, EntryInv, RegisteredInv
<1>3. EventInv'
  BY ReactorAssumption DEF EventInv, Ready
<1>4. CreatingInv' /\ InsertingInv' /\ ClosingInv'
  BY DEF CreatingInv, InsertingInv, ClosingInv, Creating, OpenAtHand, FdOfCur
<1>5. HandlingInv'
  BY DEF HandlingInv, OpenAtHand, FdOfCur
<1>6. QueueInv' /\ QueueDistinct'
  BY DEF QueueInv, QueueDistinct, Creating, FdOfCur
<1>7. ServedInv'
  BY DEF ServedInv, HeldAt
<1>8. QED
  BY <1>1, <1>2, <1>3, <1>4, <1>5, <1>6, <1>7

LEMMA HandleEventKeepsInv ==
  ASSUME ServerInv, NEW l \in Loops, NEW c \in Conns, HandleEvent(l, c)
  PROVE  ServerInv'
<1> USE DEF ServerInv, ReactorTypeOK, HandleEvent, kernel, objects
<1>1. ReactorTypeOK'
  BY DEF LoopPC
<1>2. /\ c \in registered
      /\ loopOf[c] = l
      /\ fdOf[c] \in Fds
      /\ connections_[fdOf[c]] = c
      /\ open[fdOf[c]] = c
  BY ReactorAssumption DEF EventInv, RegisteredInv, EntryInv
<1>3. BacklogInv' /\ TableInv' /\ EntryInv' /\ RegisteredInv'
  BY DEF BacklogInv, TableInv, EntryInv, RegisteredInv
<1>4. EventInv'
  BY DEF EventInv
<1>5. CreatingInv' /\ InsertingInv' /\ ClosingInv'
  BY DEF CreatingInv, InsertingInv, ClosingInv, Creating, OpenAtHand, FdOfCur
<1>6. HandlingInv'
  BY <1>2 DEF HandlingInv, OpenAtHand, FdOfCur
<1>7. QueueInv' /\ QueueDistinct'
  BY DEF QueueInv, QueueDistinct, Creating, FdOfCur
<1>8. ServedInv'
  BY DEF ServedInv, HeldAt
<1>9. QED
  BY <1>1, <1>3, <1>4, <1>5, <1>6, <1>7, <1>8

LEMMA HandleListenKeepsInv ==
  ASSUME ServerInv, HandleListen
  PROVE  ServerInv'
<1> USE DEF ServerInv, ReactorTypeOK, HandleListen, kernel, objects
<1>1. ReactorTypeOK'
  BY DEF LoopPC
<1>2. BacklogInv' /\ TableInv' /\ EntryInv' /\ RegisteredInv' /\ EventInv'
  BY DEF BacklogInv, TableInv, EntryInv, RegisteredInv, EventInv
<1>3. CreatingInv' /\ InsertingInv' /\ ClosingInv'
  BY DEF CreatingInv, InsertingInv, ClosingInv, Creating, OpenAtHand, FdOfCur
<1>4. HandlingInv'
  BY DEF HandlingInv, OpenAtHand, FdOfCur
<1>5. QueueInv' /\ QueueDistinct'
  BY DEF QueueInv, QueueDistinct, Creating, FdOfCur
<1>6. ServedInv'
  BY DEF ServedInv, HeldAt
<1>7. QED
  BY <1>1, <1>2, <1>3, <1>4, <1>5, <1>6

LEMMA HandlerReturnsKeepsInv ==
  ASSUME ServerInv, NEW l \in Loops, HandlerReturns(l)
  PROVE  ServerInv'
<1> USE DEF ServerInv, ReactorTypeOK, HandlerReturns, kernel, objects
<1>1. ReactorTypeOK'
  BY DEF LoopPC
<1>2. BacklogInv' /\ TableInv' /\ EntryInv' /\ RegisteredInv' /\ EventInv'
  BY DEF BacklogInv, TableInv, EntryInv, RegisteredInv, EventInv
<1>3. CreatingInv' /\ InsertingInv' /\ ClosingInv'
  BY DEF CreatingInv, InsertingInv, ClosingInv, Creating, OpenAtHand, FdOfCur
<1>4. HandlingInv'
  BY DEF HandlingInv, OpenAtHand, FdOfCur
<1>5. QueueInv' /\ QueueDistinct'
  BY DEF QueueInv, QueueDistinct, Creating, FdOfCur
<1>6. ServedInv'
  BY DEF ServedInv, HeldAt
<1>7. QED
  BY <1>1, <1>2, <1>3, <1>4, <1>5, <1>6

(* The steps that change a program counter, or the length of the batch,    *)
(* and nothing that the invariant ties to that counter.                    *)
LEMMA ControlStepKeepsInv ==
  ASSUME ServerInv, NEW l \in Loops, AcceptFails \/ SwapFunctors(l) \/ EndRun(l)
  PROVE  ServerInv'
<1> USE DEF ServerInv, ReactorTypeOK, kernel, objects
<1>1. PICK k \in Loops, p \in {"dispatch", "run", "wait"} :
        /\ pc[k] \in {"accept", "dispatch", "run"}
        /\ pc' = [pc EXCEPT ![k] = p]
  BY ReactorAssumption
     DEF AcceptFails, SwapFunctors, EndRun, Loops, mainLoop_, LoopPC
<1>2. UNCHANGED <<kernel, objects, next_, active, cur, tasks>>
  BY DEF AcceptFails, SwapFunctors, EndRun
<1>3. /\ turn' \in [Loops -> Nat]
      /\ \A m \in Loops : turn'[m] <= Len(tasks[m])
  <2>1. CASE turn' = turn
    BY <2>1 DEF QueueInv
  <2>2. CASE turn' = [turn EXCEPT ![l] = Len(tasks[l])]
    BY <2>2 DEF QueueInv
  <2>3. QED
    BY <2>1, <2>2 DEF AcceptFails, SwapFunctors, EndRun
<1>4. ReactorTypeOK'
  BY <1>1, <1>2, <1>3 DEF LoopPC
<1>5. BacklogInv' /\ TableInv' /\ EntryInv' /\ RegisteredInv' /\ EventInv'
  BY <1>1, <1>2 DEF BacklogInv, TableInv, EntryInv, RegisteredInv, EventInv
<1>6. CreatingInv' /\ InsertingInv' /\ ClosingInv'
  BY <1>1, <1>2
     DEF CreatingInv, InsertingInv, ClosingInv, Creating, OpenAtHand, FdOfCur
<1>7. HandlingInv'
  BY <1>1, <1>2 DEF HandlingInv, OpenAtHand, FdOfCur
<1>8. \A m \in Loops : Creating(m)' => Creating(m)
  BY <1>1 DEF Creating
<1>9. QueueInv'
  BY <1>2, <1>3, <1>8 DEF QueueInv, FdOfCur
<1>10. QueueDistinct'
  BY <1>2 DEF QueueDistinct
<1>11. ServedInv'
  BY <1>1, <1>2 DEF ServedInv, HeldAt
<1>12. QED
  BY <1>4, <1>5, <1>6, <1>7, <1>9, <1>10, <1>11

----------------------------------------------------------------------------
(* accept() finds a number that no entry of the map uses: an entry would   *)
(* be open.                                                                *)
LEMMA AcceptKeepsInv ==
  ASSUME ServerInv, NEW c \in Conns, Accept(c)
  PROVE  ServerInv'
<1> USE DEF ServerInv, ReactorTypeOK
<1>1. PICK fd \in Fds :
        /\ open[fd] = NoConn
        /\ open' = [open EXCEPT ![fd] = c]
        /\ fdOf' = [fdOf EXCEPT ![c] = fd]
  BY DEF Accept, LowestFree, FreeFds
<1>2. /\ mainLoop_ \in Loops
      /\ pc[mainLoop_] = "accept"
      /\ pc' = [pc EXCEPT ![mainLoop_] = "new"]
      /\ cur' = [cur EXCEPT ![mainLoop_] = c]
      /\ peer' = [peer EXCEPT ![c] = "accepted"]
      /\ UNCHANGED <<objects, next_, active, tasks, turn>>
  BY ReactorAssumption DEF Accept, Loops, mainLoop_
<1>3. object[c] = "none" /\ \A f \in Fds : open[f] # c
  BY DEF Accept, Waiting, BacklogInv
<1>4. connections_[fd] = NoConn /\ c \notin registered
  BY <1>1, <1>3 DEF EntryInv, RegisteredInv
<1> USE DEF objects
<1>5. ReactorTypeOK'
  BY <1>1, <1>2 DEF LoopPC
<1>6. BacklogInv' /\ TableInv' /\ EventInv'
  BY <1>1, <1>2, <1>3, ReactorAssumption DEF BacklogInv, TableInv, EventInv
<1>7. EntryInv'
  BY <1>1, <1>2, <1>3, <1>4, ReactorAssumption DEF EntryInv
<1>8. RegisteredInv'
  <2> SUFFICES ASSUME NEW d \in registered
               PROVE  /\ object[d] = "alive"
                      /\ fdOf'[d] \in Fds
                      /\ \/ connections_[fdOf'[d]] = d
                         \/ cur'[loopOf[d]] = d /\ pc'[loopOf[d]] = "insert"
    BY <1>2 DEF RegisteredInv
  <2>1. d # c /\ fdOf'[d] = fdOf[d]
    BY <1>1, <1>4
  <2>2. QED
    BY <1>2, <2>1 DEF RegisteredInv
<1>9. \A k \in Loops : k # mainLoop_ /\ OpenAtHand(k) =>
        /\ OpenAtHand(k)'
        /\ cur[k] # c
        /\ FdOfCur(k) # fd
        /\ FdOfCur(k)' = FdOfCur(k)
  BY <1>1, <1>2, <1>3, ReactorAssumption DEF OpenAtHand, FdOfCur
<1>10. OpenAtHand(mainLoop_)' /\ FdOfCur(mainLoop_)' = fd
  BY <1>1, <1>2 DEF OpenAtHand, FdOfCur
<1>11. CreatingInv'
  BY <1>2, <1>3, <1>9, <1>10 DEF CreatingInv, Creating
<1>12. InsertingInv' /\ HandlingInv' /\ ClosingInv'
  BY <1>2, <1>9 DEF InsertingInv, HandlingInv, ClosingInv
<1>13. QueueInv'
  BY <1>1, <1>2, <1>3, <1>9, <1>10, ReactorAssumption
     DEF QueueInv, CreatingInv, Creating, Task
<1>14. QueueDistinct'
  BY <1>2 DEF QueueDistinct
<1>15. ServedInv'
  <2>1. \A f \in Fds : open[f] # NoConn => open[f] \in Conns
    OBVIOUS
  <2>2. /\ \A f \in Fds : f # fd => open'[f] = open[f]
        /\ open'[fd] = c
    BY <1>1
  <2>3. /\ \A k \in Loops : pc[k] \in {"erase", "close"} =>
             pc'[k] = pc[k] /\ cur'[k] = cur[k]
        /\ UNCHANGED <<object, registered, deaf>>
    BY <1>2
  <2>4. ServedInv
    OBVIOUS
  <2> HIDE DEF ServerInv, ReactorTypeOK
  <2>5. QED
    BY <1>3, <2>1, <2>2, <2>3, <2>4 DEF ServedInv, HeldAt
<1>16. QED
  BY <1>5, <1>6, <1>7, <1>8, <1>11, <1>12, <1>13, <1>14, <1>15

(* The accepted connection goes to the end of a sub loop's queue, or on to *)
(* its creation on the main loop.                                          *)
LEMMA OnNewConnectionKeepsInv ==
  ASSUME ServerInv, OnNewConnection
  PROVE  ServerInv'
<1> USE DEF ServerInv, ReactorTypeOK
<1>1. /\ mainLoop_ \in Loops
      /\ pc[mainLoop_] = "new"
      /\ UNCHANGED <<kernel, objects, active, turn>>
  BY ReactorAssumption DEF OnNewConnection, Loops, mainLoop_
<1>2. next_' \in Nat /\ (next_' < numThreads \/ next_' = 0)
  BY ReactorAssumption DEF OnNewConnection, AdvanceNext
<1>3. OpenAtHand(mainLoop_) /\ object[cur[mainLoop_]] = "none"
  BY <1>1 DEF CreatingInv, Creating
<1> USE DEF kernel, objects
<1>4. BacklogInv' /\ TableInv' /\ EventInv'
  BY <1>1 DEF BacklogInv, TableInv, EventInv
<1>5. CASE NextLoop = mainLoop_
  <2>1. /\ pc' = [pc EXCEPT ![mainLoop_] = "create"]
        /\ UNCHANGED <<cur, tasks>>
    BY <1>5 DEF OnNewConnection
  <2>2. ReactorTypeOK'
    BY <1>1, <1>2, <2>1 DEF LoopPC
  <2>3. EntryInv' /\ RegisteredInv'
    BY <1>1, <2>1 DEF EntryInv, RegisteredInv
  <2>4. CreatingInv' /\ InsertingInv' /\ ClosingInv'
    BY <1>1, <2>1
       DEF CreatingInv, InsertingInv, ClosingInv, Creating, OpenAtHand, FdOfCur
  <2>5. HandlingInv'
    BY <1>1, <2>1 DEF HandlingInv, OpenAtHand, FdOfCur
  <2>6. QueueInv' /\ QueueDistinct'
    BY <1>1, <2>1 DEF QueueInv, QueueDistinct, Creating, FdOfCur
  <2>7. ServedInv'
    BY <1>1, <2>1 DEF ServedInv, HeldAt
  <2>8. QED
    BY <1>4, <2>2, <2>3, <2>4, <2>5, <2>6, <2>7
<1>6. CASE NextLoop # mainLoop_
  <2> DEFINE n == NextLoop
             fd == FdOfCur(mainLoop_)
             task == [kind |-> "create", fd |-> fd]
  <2>1. /\ n \in Loops
        /\ task \in Task
        /\ pc' = [pc EXCEPT ![mainLoop_] = "accept"]
        /\ cur' = [cur EXCEPT ![mainLoop_] = NoConn]
        /\ tasks' = [tasks EXCEPT ![n] = Append(@, task)]
    BY <1>3, <1>6, ReactorAssumption
       DEF OnNewConnection, QueueInLoop, NextLoop, Loops, mainLoop_, Task,
           OpenAtHand
  <2>2. open[fd] = cur[mainLoop_] /\ fd \in Fds
    BY <1>3 DEF OpenAtHand
  <2> HIDE DEF n, fd
  <2>3. ReactorTypeOK'
    BY <1>1, <1>2, <2>1 DEF LoopPC
  <2>4. EntryInv' /\ RegisteredInv'
    BY <1>1, <2>1, ReactorAssumption DEF EntryInv, RegisteredInv
  <2>5. CreatingInv' /\ InsertingInv' /\ ClosingInv'
    BY <1>1, <2>1
       DEF CreatingInv, InsertingInv, ClosingInv, Creating, OpenAtHand, FdOfCur
  <2>6. HandlingInv'
    BY <1>1, <2>1 DEF HandlingInv, OpenAtHand, FdOfCur
  <2>7. \A k \in Loops : Creating(k)' => Creating(k) /\ FdOfCur(k)' = FdOfCur(k)
                                         /\ FdOfCur(k) # fd
    BY <1>1, <2>1, <2>2 DEF CreatingInv, Creating, OpenAtHand, FdOfCur
  <2>8. \A k \in Loops : \A i \in 1 .. Len(tasks[k]) : tasks[k][i].fd # fd
    BY <1>1 DEF QueueInv, Creating, fd
  <2>9. \A k \in Loops : \A i \in 1 .. Len(tasks'[k]) :
          \/ i \in 1 .. Len(tasks[k]) /\ tasks'[k][i] = tasks[k][i]
          \/ k = n /\ i = Len(tasks[n]) + 1 /\ tasks'[k][i] = task
    BY <2>1
  <2>10. QueueInv'
    BY <1>1, <1>3, <2>1, <2>2, <2>7, <2>9, ReactorAssumption
       DEF QueueInv, OpenAtHand
  <2>11. QueueDistinct'
    <3> SUFFICES ASSUME NEW k \in Loops, NEW m \in Loops,
                        NEW i \in 1 .. Len(tasks'[k]),
                        NEW j \in 1 .. Len(tasks'[m]),
                        tasks'[k][i].fd = tasks'[m][j].fd
                 PROVE  k = m /\ i = j
      BY DEF QueueDistinct
    <3>1. task.fd = fd
      OBVIOUS
    <3>2. CASE i \in 1 .. Len(tasks[k]) /\ tasks'[k][i] = tasks[k][i]
      <4>1. tasks'[k][i].fd # fd
        BY <2>8, <3>2
      <4>2. j \in 1 .. Len(tasks[m]) /\ tasks'[m][j] = tasks[m][j]
        BY <2>9, <3>1, <4>1
      <4>3. QED
        BY <3>2, <4>2 DEF QueueDistinct
    <3>3. CASE k = n /\ i = Len(tasks[n]) + 1 /\ tasks'[k][i] = task
      <4>1. ~(j \in 1 .. Len(tasks[m]) /\ tasks'[m][j] = tasks[m][j])
        BY <2>8, <3>1, <3>3
      <4>2. QED
        BY <2>9, <3>3, <4>1
    <3>4. QED
      BY <2>9, <3>2, <3>3
  <2>12. ServedInv'
    BY <1>1, <2>1 DEF ServedInv, HeldAt
  <2>13. QED
    BY <1>4, <2>3, <2>4, <2>5, <2>6, <2>10, <2>11, <2>12
<1>7. QED
  BY <1>5, <1>6

----------------------------------------------------------------------------
(* enableReading() comes before the insertion: until then the thread that  *)
(* creates the connection stands in for the map.                           *)
LEMMA CreateConnectionKeepsInv ==
  ASSUME ServerInv, NEW l \in Loops, CreateConnection(l)
  PROVE  ServerInv'
<1> DEFINE c == cur[l]
<1> USE DEF ServerInv, ReactorTypeOK
<1>1. /\ pc[l] = "create"
      /\ c \in Conns
      /\ fdOf[c] \in Fds
      /\ open[fdOf[c]] = c
      /\ object[c] = "none"
      /\ \A k \in Loops : Creating(k) /\ cur[k] = c => k = l
  BY DEF CreateConnection, CreatingInv, Creating, OpenAtHand, FdOfCur
<1>2. /\ object' = [object EXCEPT ![c] = "alive"]
      /\ loopOf' = [loopOf EXCEPT ![c] = l]
      /\ registered' \in {registered, registered \cup {c}}
      /\ deaf' \in {deaf, deaf \cup {c}}
      /\ c \in registered' \/ c \in deaf'
      /\ pc' = [pc EXCEPT ![l] = "insert"]
      /\ UNCHANGED <<kernel, connections_, next_, active, cur, tasks, turn>>
  BY DEF CreateConnection, EnableReading
<1> USE DEF kernel
<1>3. c \notin registered /\ \A f \in Fds : connections_[f] # c
  BY <1>1, ReactorAssumption DEF RegisteredInv, EntryInv
<1> HIDE DEF c
<1>4. ReactorTypeOK'
  BY <1>1, <1>2 DEF LoopPC
<1>5. BacklogInv' /\ TableInv'
  BY <1>1, <1>2 DEF BacklogInv, TableInv
<1>6. EntryInv'
  BY <1>1, <1>2, <1>3 DEF EntryInv, c
<1>7. RegisteredInv'
  BY <1>1, <1>2, <1>3 DEF RegisteredInv, c
<1>8. EventInv'
  BY <1>2, <1>3 DEF EventInv
<1>9. \A k \in Loops : k # l /\ OpenAtHand(k) =>
        /\ OpenAtHand(k)' /\ FdOfCur(k)' = FdOfCur(k)
        /\ cur'[k] = cur[k] /\ pc'[k] = pc[k]
  BY <1>2 DEF OpenAtHand, FdOfCur
<1>10. \A k \in Loops : Creating(k)' => Creating(k) /\ k # l
  BY <1>2 DEF Creating
<1>11. CreatingInv'
  BY <1>1, <1>2, <1>9, <1>10 DEF CreatingInv
<1>12. InsertingInv' /\ ClosingInv'
  BY <1>1, <1>2 DEF InsertingInv, ClosingInv, OpenAtHand, FdOfCur, c
<1>13. HandlingInv'
  BY <1>1, <1>2, <1>3 DEF HandlingInv, OpenAtHand, FdOfCur
<1>14. QueueInv' /\ QueueDistinct'
  <2>1. \A k \in Loops : \A i \in 1 .. Len(tasks[k]) : tasks[k][i].fd # fdOf[c]
    BY <1>1 DEF QueueInv, Creating, FdOfCur, c
  <2>2. \A k \in Loops : \A i \in 1 .. Len(tasks[k]) : tasks[k][i].fd \in Fds
    <3> SUFFICES ASSUME NEW k \in Loops, NEW i \in 1 .. Len(tasks[k])
                 PROVE  tasks[k][i].fd \in Fds
      OBVIOUS
    <3>1. tasks[k] \in Seq(Task)
      OBVIOUS
    <3>2. tasks[k][i] \in Task
      BY <3>1
    <3>3. QED
      BY <3>2 DEF Task
  <2>3. \A f \in Fds : open[f] = c => fdOf[c] = f
    BY <1>1, ReactorAssumption DEF TableInv
  <2>4. \A k \in Loops : \A i \in 1 .. Len(tasks[k]) : open[tasks[k][i].fd] # c
    BY <2>1, <2>2, <2>3
  <2>5. QED
    BY <1>2, <1>10, <2>2, <2>4 DEF QueueInv, QueueDistinct, FdOfCur
<1>15. ServedInv'
  BY <1>1, <1>2 DEF ServedInv, HeldAt
<1>16. QED
  BY <1>4, <1>5, <1>6, <1>7, <1>8, <1>11, <1>12, <1>13, <1>14, <1>15

(* The key under which the connection is inserted is free, so that the     *)
(* assignment destroys nothing.                                            *)
LEMMA InsertConnectionKeepsInv ==
  ASSUME ServerInv, NEW l \in Loops, InsertConnection(l)
  PROVE  ServerInv'
<1> DEFINE c == cur[l]
           fd == fdOf[c]
<1> USE DEF ServerInv, ReactorTypeOK
<1>1. /\ pc[l] = "insert"
      /\ c \in Conns
      /\ fd \in Fds
      /\ open[fd] = c
      /\ object[c] = "alive"
      /\ loopOf[c] = l
      /\ connections_[fd] = NoConn
  BY DEF InsertConnection, InsertingInv, EntryInv, OpenAtHand, FdOfCur
<1>2. PICK p \in {"accept", "run"} : pc' = [pc EXCEPT ![l] = p]
  BY DEF InsertConnection
<1>3. /\ connections_' = [connections_ EXCEPT ![fd] = c]
      /\ object' = object
      /\ cur' = [cur EXCEPT ![l] = NoConn]
      /\ UNCHANGED <<kernel, loopOf, registered, deaf, next_, active, tasks,
                     turn>>
  BY <1>1, ReactorAssumption DEF InsertConnection, DestroyOwnedBy, FdOfCur
<1> USE DEF kernel
<1>4. \A k \in Loops : pc[k] = "insert" /\ cur[k] = c => k = l
  BY <1>1 DEF InsertingInv
<1> HIDE DEF fd
<1>5. ReactorTypeOK'
  BY <1>1, <1>2, <1>3 DEF LoopPC
<1>6. BacklogInv' /\ TableInv' /\ EventInv'
  BY <1>3 DEF BacklogInv, TableInv, EventInv
<1>7. EntryInv'
  BY <1>1, <1>2, <1>3, <1>4, ReactorAssumption DEF EntryInv
<1>8. RegisteredInv'
  BY <1>1, <1>2, <1>3, ReactorAssumption DEF RegisteredInv, fd
<1>9. \A k \in Loops : k # l => /\ cur'[k] = cur[k] /\ pc'[k] = pc[k]
                                /\ FdOfCur(k)' = FdOfCur(k)
                                /\ OpenAtHand(k) => OpenAtHand(k)'
  BY <1>3, <1>2 DEF OpenAtHand, FdOfCur
<1>10. pc'[l] \in {"accept", "run"}
  BY <1>2
<1>11. CreatingInv'
  BY <1>3, <1>9, <1>10 DEF CreatingInv, Creating
<1>12. InsertingInv'
  BY <1>3, <1>9, <1>10 DEF InsertingInv
<1>13. HandlingInv' /\ ClosingInv'
  BY <1>1, <1>2, <1>3 DEF HandlingInv, ClosingInv, OpenAtHand, FdOfCur
<1>14. QueueInv' /\ QueueDistinct'
  <2>1. \A k \in Loops : Creating(k)' => Creating(k) /\ k # l
    BY <1>9, <1>10 DEF Creating
  <2>2. QueueInv /\ QueueDistinct
    OBVIOUS
  <2> HIDE DEF ServerInv, ReactorTypeOK
  <2>3. QueueInv'
    BY <1>3, <1>9, <2>1, <2>2 DEF QueueInv
  <2>4. QueueDistinct'
    BY <1>3, <2>2 DEF QueueDistinct
  <2>5. QED
    BY <2>3, <2>4
<1>15. ServedInv'
  BY <1>1, <1>2, <1>3 DEF ServedInv, HeldAt
<1>16. QED
  BY <1>5, <1>6, <1>7, <1>8, <1>11, <1>12, <1>13, <1>14, <1>15

(* The functor taken from the queue creates what no other thread creates.  *)
LEMMA RunCreateKeepsInv ==
  ASSUME ServerInv, NEW l \in Loops, RunCreate(l)
  PROVE  ServerInv'
<1> DEFINE fd == tasks[l][1].fd
           c == open[fd]
<1> USE DEF ServerInv, ReactorTypeOK
<1>1. /\ pc[l] = "run"
      /\ turn[l] > 0
      /\ 1 \in 1 .. Len(tasks[l])
      /\ tasks[l][1] \in Task
  BY DEF RunCreate, NextTaskIs, QueueInv
<1>2. /\ fd \in Fds
      /\ c \in Conns
      /\ fdOf[c] = fd
      /\ object[c] = "none"
      /\ \A k \in Loops : Creating(k) => FdOfCur(k) # fd
  BY <1>1 DEF QueueInv, TableInv, Task
<1>3. /\ tasks' = [tasks EXCEPT ![l] = Tail(@)]
      /\ turn' = [turn EXCEPT ![l] = @ - 1]
      /\ cur' = [cur EXCEPT ![l] = c]
      /\ pc' = [pc EXCEPT ![l] = "create"]
      /\ UNCHANGED <<kernel, objects, next_, active>>
  BY <1>1 DEF RunCreate, TaskTaken
<1> USE DEF kernel, objects
<1>4. \A i \in 1 .. Len(tasks'[l]) :
        i + 1 \in 1 .. Len(tasks[l]) /\ tasks'[l][i] = tasks[l][i + 1]
  BY <1>1, <1>3
<1>5. \A k \in Loops : \A i \in 1 .. Len(tasks'[k]) : tasks'[k][i].fd # fd
  BY <1>1, <1>3, <1>4 DEF QueueDistinct
<1> HIDE DEF c, fd
<1>6. ReactorTypeOK'
  BY <1>1, <1>2, <1>3 DEF LoopPC
<1>7. BacklogInv' /\ TableInv' /\ EventInv'
  BY <1>3 DEF BacklogInv, TableInv, EventInv
<1>8. EntryInv' /\ RegisteredInv'
  BY <1>1, <1>2, <1>3 DEF EntryInv, RegisteredInv
<1>9. \A k \in Loops : k # l => /\ cur'[k] = cur[k] /\ pc'[k] = pc[k]
                                /\ FdOfCur(k)' = FdOfCur(k)
                                /\ OpenAtHand(k) => OpenAtHand(k)'
  BY <1>3 DEF OpenAtHand, FdOfCur
<1>10. FdOfCur(l)' = fd /\ OpenAtHand(l)'
  BY <1>2, <1>3 DEF OpenAtHand, FdOfCur, c
<1>11. CreatingInv'
  BY <1>2, <1>3, <1>9, <1>10 DEF CreatingInv, Creating, FdOfCur
<1>12. InsertingInv' /\ HandlingInv' /\ ClosingInv'
  <2>1. pc'[l] = "create"
    BY <1>3
  <2>2. InsertingInv /\ HandlingInv /\ ClosingInv
    OBVIOUS
  <2> HIDE DEF ServerInv, ReactorTypeOK
  <2>3. QED
    BY <1>3, <1>9, <2>1, <2>2 DEF InsertingInv, HandlingInv, ClosingInv
<1>13. QueueInv'
  <2>1. \A k \in Loops : turn'[k] <= Len(tasks'[k])
    BY <1>1, <1>3 DEF QueueInv
  <2>2. \A k \in Loops : \A i \in 1 .. Len(tasks'[k]) :
          \E j \in 1 .. Len(tasks[k]) : tasks'[k][i] = tasks[k][j]
    BY <1>3, <1>4
  <2>3. \A k \in Loops : Creating(k)' => k = l \/ Creating(k)
    BY <1>9 DEF Creating
  <2>4. ASSUME NEW k \in Loops, NEW i \in 1 .. Len(tasks'[k])
        PROVE  /\ tasks'[k][i].kind = "create"
               /\ open[tasks'[k][i].fd] # NoConn
               /\ object[open[tasks'[k][i].fd]] = "none"
               /\ \A m \in Loops : Creating(m)' => FdOfCur(m)' # tasks'[k][i].fd
    <3>1. PICK j \in 1 .. Len(tasks[k]) : tasks'[k][i] = tasks[k][j]
      BY <2>2
    <3>2. \A m \in Loops : Creating(m) => FdOfCur(m) # tasks'[k][i].fd
      BY <3>1 DEF QueueInv
    <3>3. \A m \in Loops : Creating(m)' => FdOfCur(m)' # tasks'[k][i].fd
      BY <1>5, <1>9, <1>10, <2>3, <3>2
    <3>4. QED
      BY <3>1, <3>3 DEF QueueInv
  <2> HIDE DEF ServerInv, ReactorTypeOK
  <2>5. QED
    BY <1>3, <2>1, <2>4 DEF QueueInv
<1>14. QueueDistinct'
  BY <1>3, <1>4 DEF QueueDistinct
<1>15. ServedInv'
  BY <1>1, <1>2, <1>3 DEF ServedInv, HeldAt
<1>16. QED
  BY <1>6, <1>7, <1>8, <1>11, <1>12, <1>13, <1>14, <1>15

----------------------------------------------------------------------------
(* removeConnection, step by step.  The number is closed only when no      *)
(* entry uses it any more.                                                 *)
LEMMA RemoveConnectionKeepsInv ==
  ASSUME ServerInv, NEW l \in Loops, RemoveConnection(l)
  PROVE  ServerInv'
<1> DEFINE c == cur[l]
<1> USE DEF ServerInv, ReactorTypeOK
<1>1. /\ pc[l] = "handler"
      /\ c \in Conns
      /\ loopOf[c] = l
      /\ c \notin active[l]
      /\ connections_[fdOf[c]] = c
      /\ object[c] = "alive"
  BY ReactorAssumption
     DEF RemoveConnection, HandlingInv, OpenAtHand, FdOfCur, RegisteredInv
<1>2. /\ registered' = registered \ {c}
      /\ pc' = [pc EXCEPT ![l] = "erase"]
      /\ UNCHANGED <<kernel, object, loopOf, deaf, connections_, next_, active,
                     cur, tasks, turn>>
  BY DEF RemoveConnection, DisableAll
<1> USE DEF kernel
<1>3. ReactorTypeOK'
  BY <1>2 DEF LoopPC
<1>4. BacklogInv' /\ TableInv' /\ EntryInv' /\ RegisteredInv'
  BY <1>1, <1>2 DEF BacklogInv, TableInv, EntryInv, RegisteredInv
<1>5. EventInv'
  BY <1>1, <1>2 DEF EventInv
<1>6. CreatingInv' /\ InsertingInv' /\ ClosingInv'
  BY <1>2
     DEF CreatingInv, InsertingInv, ClosingInv, Creating, OpenAtHand, FdOfCur
<1>7. HandlingInv'
  BY <1>1, <1>2 DEF HandlingInv, OpenAtHand, FdOfCur
<1>8. QueueInv' /\ QueueDistinct'
  BY <1>1, <1>2 DEF QueueInv, QueueDistinct, Creating, FdOfCur
<1>9. ServedInv'
  BY <1>1, <1>2 DEF ServedInv, HeldAt
<1>10. QED
  BY <1>3, <1>4, <1>5, <1>6, <1>7, <1>8, <1>9

LEMMA EraseClientKeepsInv ==
  ASSUME ServerInv, NEW l \in Loops, EraseClient(l)
  PROVE  ServerInv'
<1> DEFINE c == cur[l]
           fd == fdOf[c]
<1> USE DEF ServerInv, ReactorTypeOK
<1>1. /\ pc[l] = "erase"
      /\ c \in Conns
      /\ fd \in Fds
      /\ open[fd] = c
      /\ loopOf[c] = l
      /\ connections_[fd] = c
      /\ object[c] = "alive"
      /\ c \notin registered
  BY ReactorAssumption
     DEF EraseClient, HandlingInv, OpenAtHand, FdOfCur, EntryInv
<1>2. /\ connections_' = [connections_ EXCEPT ![fd] = NoConn]
      /\ object' = [object EXCEPT ![c] = "freed"]
      /\ pc' = [pc EXCEPT ![l] = "close"]
      /\ UNCHANGED <<kernel, loopOf, registered, deaf, next_, active, cur,
                     tasks, turn>>
  BY <1>1 DEF EraseClient, DestroyOwnedBy, FdOfCur
<1> USE DEF kernel
<1>3. \A f \in Fds : connections_[f] = c => f = fd
  <2>1. \A f \in Fds : connections_[f] = c => open[f] = c
    BY <1>1, ReactorAssumption DEF EntryInv
  <2>2. \A f \in Fds : open[f] = c => fdOf[c] = f
    BY <1>1, ReactorAssumption DEF TableInv
  <2>3. QED
    BY <2>1, <2>2
<1>4. \A k \in Loops : pc[k] \in {"insert", "handler", "erase"} /\ cur[k] = c =>
        k = l
  BY <1>1 DEF InsertingInv, HandlingInv
<1> HIDE DEF c, fd
<1>5. ReactorTypeOK'
  BY <1>1, <1>2 DEF LoopPC
<1>6. BacklogInv' /\ TableInv' /\ EventInv'
  BY <1>1, <1>2 DEF BacklogInv, TableInv, EventInv
<1>7. EntryInv'
  BY <1>1, <1>2, <1>3, ReactorAssumption DEF EntryInv
<1>8. RegisteredInv'
  <2>1. ASSUME NEW d \in registered
        PROVE  /\ object'[d] = "alive"
               /\ fdOf[d] \in Fds
               /\ \/ connections_'[fdOf[d]] = d
                  \/ cur[loopOf[d]] = d /\ pc'[loopOf[d]] = "insert"
    <3>1. d \in Conns /\ d # c
      BY <1>1
    <3>2. object[d] = "alive" /\ fdOf[d] \in Fds
      BY DEF RegisteredInv
    <3>3. CASE connections_[fdOf[d]] = d
      BY <1>1, <1>2, <3>1, <3>2, <3>3
    <3>4. CASE cur[loopOf[d]] = d /\ pc[loopOf[d]] = "insert"
      BY <1>1, <1>2, <3>1, <3>2, <3>4
    <3>5. QED
      BY <3>3, <3>4 DEF RegisteredInv
  <2> HIDE DEF ServerInv, ReactorTypeOK
  <2>2. QED
    BY <1>2, <2>1 DEF RegisteredInv
<1>9. \A k \in Loops : /\ FdOfCur(k)' = FdOfCur(k)
                       /\ OpenAtHand(k)' <=> OpenAtHand(k)
                       /\ k # l => pc'[k] = pc[k]
  BY <1>2 DEF OpenAtHand, FdOfCur
<1>10. pc'[l] = "close" /\ cur' = cur /\ OpenAtHand(l)
  BY <1>1, <1>2 DEF OpenAtHand, FdOfCur, c, fd
<1>11. CreatingInv'
  BY <1>1, <1>2, <1>9, <1>10 DEF CreatingInv, Creating, OpenAtHand
<1>12. InsertingInv'
  BY <1>1, <1>2, <1>4, <1>9, <1>10 DEF InsertingInv, OpenAtHand
<1>13. HandlingInv'
  BY <1>1, <1>2, <1>4, <1>9, <1>10, ReactorAssumption
     DEF HandlingInv, OpenAtHand, FdOfCur
<1>14. ClosingInv'
  BY <1>1, <1>2, <1>9, <1>10 DEF ClosingInv, OpenAtHand, c
<1>15. QueueInv' /\ QueueDistinct'
  <2>1. \A k \in Loops : Creating(k)' => Creating(k)
    BY <1>9, <1>10 DEF Creating
  <2>2. \A d : object[d] = "none" => object'[d] = "none"
    BY <1>1, <1>2
  <2>3. QueueInv /\ QueueDistinct
    OBVIOUS
  <2> HIDE DEF ServerInv, ReactorTypeOK
  <2>4. QED
    BY <1>2, <1>9, <2>1, <2>2, <2>3 DEF QueueInv, QueueDistinct
<1>16. ServedInv'
  BY <1>1, <1>2, <1>4 DEF ServedInv, HeldAt, c
<1>17. QED
  BY <1>5, <1>6, <1>7, <1>8, <1>11, <1>12, <1>13, <1>14, <1>15, <1>16

LEMMA CloseFdKeepsInv ==
  ASSUME ServerInv, NEW l \in Loops, CloseFd(l)
  PROVE  ServerInv'
<1> DEFINE c == cur[l]
           fd == fdOf[c]
<1> USE DEF ServerInv, ReactorTypeOK
<1>1. /\ pc[l] = "close"
      /\ c \in Conns
      /\ fd \in Fds
      /\ open[fd] = c
      /\ object[c] = "freed"
  BY DEF CloseFd, ClosingInv, OpenAtHand, FdOfCur
<1>2. /\ open' = [open EXCEPT ![fd] = NoConn]
      /\ registered' = registered
      /\ pc' = [pc EXCEPT ![l] = "return"]
      /\ UNCHANGED <<peer, fdOf, object, loopOf, deaf, connections_, next_,
                     active, cur, tasks, turn>>
  BY <1>1 DEF CloseFd, RegisteredInv, FdOfCur
<1>3. \A f \in Fds : open[f] = c => f = fd
  BY <1>1, ReactorAssumption DEF TableInv
<1>4. \A k \in Loops : pc[k] = "close" /\ cur[k] = c => k = l
  BY <1>1 DEF CloseFd, ClosingInv
<1> HIDE DEF c, fd
<1>5. ReactorTypeOK'
  BY <1>1, <1>2 DEF LoopPC
<1>6. BacklogInv' /\ TableInv' /\ EventInv'
  BY <1>1, <1>2, ReactorAssumption DEF BacklogInv, TableInv, EventInv
<1>7. EntryInv' /\ RegisteredInv'
  BY <1>1, <1>2, ReactorAssumption DEF EntryInv, RegisteredInv
<1>8. \A k \in Loops : /\ cur'[k] = cur[k]
                       /\ FdOfCur(k)' = FdOfCur(k)
                       /\ k # l => pc'[k] = pc[k]
                       /\ OpenAtHand(k) /\ cur[k] # c => OpenAtHand(k)'
  BY <1>1, <1>2 DEF OpenAtHand, FdOfCur
<1>9. pc'[l] = "return"
  BY <1>1, <1>2
<1>10. CreatingInv'
  <2>1. \A k \in Loops : Creating(k)' => Creating(k) /\ cur[k] # c
    BY <1>1, <1>8, <1>9 DEF CreatingInv, Creating
  <2>2. QED
    BY <1>2, <1>8, <2>1 DEF CreatingInv
<1>11. InsertingInv'
  BY <1>1, <1>2, <1>8, <1>9 DEF InsertingInv
<1>12. HandlingInv'
  <2>1. \A k \in Loops : pc[k] \in {"handler", "erase"} => cur[k] # c
    <3> SUFFICES ASSUME NEW k \in Loops, pc[k] \in {"handler", "erase"}
                 PROVE  object[cur[k]] = "alive"
      BY <1>1
    <3>1. /\ FdOfCur(k) \in Fds
          /\ cur[k] \in Conns
          /\ connections_[FdOfCur(k)] = cur[k]
      BY DEF HandlingInv, OpenAtHand
    <3>2. QED
      BY <3>1, ReactorAssumption DEF EntryInv
  <2>2. QED
    BY <1>2, <1>8, <1>9, <2>1 DEF HandlingInv
<1>13. ClosingInv'
  BY <1>2, <1>4, <1>8, <1>9 DEF ClosingInv
<1>14. QueueInv' /\ QueueDistinct'
  BY <1>1, <1>2, <1>8, <1>9 DEF QueueInv, QueueDistinct, Creating
<1>15. ServedInv'
  <2>1. \A f \in Fds : open'[f] # NoConn => open'[f] = open[f] /\ open[f] # c
    BY <1>1, <1>2, <1>3
  <2>2. /\ \A k \in Loops : pc[k] \in {"erase", "close"} /\ cur[k] # c =>
             pc'[k] = pc[k]
        /\ UNCHANGED <<object, registered, deaf, cur>>
    BY <1>1, <1>2 DEF c
  <2>3. ServedInv
    OBVIOUS
  <2> HIDE DEF ServerInv, ReactorTypeOK
  <2>4. QED
    BY <2>1, <2>2, <2>3 DEF ServedInv, HeldAt
<1>16. QED
  BY <1>5, <1>6, <1>7, <1>10, <1>11, <1>12, <1>13, <1>14, <1>15

----------------------------------------------------------------------------
LEMMA InitInv == Init => ServerInv
<1> SUFFICES ASSUME Init
             PROVE  ServerInv
  OBVIOUS
<1> USE ReactorAssumption DEF Init, ReactorInit
<1>1. ReactorTypeOK
  BY DEF ReactorTypeOK, LoopPC, Loops, mainLoop_
<1>2. BacklogInv /\ TableInv /\ EntryInv /\ RegisteredInv /\ EventInv
  BY DEF BacklogInv, TableInv, EntryInv, RegisteredInv, EventInv
<1>3. CreatingInv /\ InsertingInv /\ HandlingInv /\ ClosingInv
  BY DEF CreatingInv, InsertingInv, HandlingInv, ClosingInv, Creating
<1>4. QueueInv /\ QueueDistinct /\ ServedInv
  BY DEF QueueInv, QueueDistinct, ServedInv
<1>5. QED
  BY <1>1, <1>2, <1>3, <1>4 DEF ServerInv

LEMMA StepKeepsInv == ServerInv /\ [Next]_reactorVars => ServerInv'
<1> SUFFICES ASSUME ServerInv, [Next]_reactorVars
             PROVE  ServerInv'
  OBVIOUS
<1>1. ASSUME NEW c \in Conns, Connect(c)
      PROVE  ServerInv'
  BY <1>1, ConnectKeepsInv
<1>2. ASSUME NEW l \in Loops, ReactorLoopStep(l)
      PROVE  ServerInv'
  <2>1. ASSUME NEW c \in Conns, HandleEvent(l, c)
        PROVE  ServerInv'
    BY <2>1, HandleEventKeepsInv
  <2>2. QED
    BY <1>2, <2>1, EpollWaitKeepsInv, HandlerReturnsKeepsInv,
       CreateConnectionKeepsInv, InsertConnectionKeepsInv, RunCreateKeepsInv,
       ControlStepKeepsInv
       DEF ReactorLoopStep
<1>3. ASSUME NEW l \in Loops, AcceptorStep
      PROVE  ServerInv'
  BY <1>3, HandleListenKeepsInv, AcceptKeepsInv, ControlStepKeepsInv,
     OnNewConnectionKeepsInv
     DEF AcceptorStep
<1>4. ASSUME NEW l \in Loops,
             RemoveConnection(l) \/ EraseClient(l) \/ CloseFd(l)
      PROVE  ServerInv'
  BY <1>4, RemoveConnectionKeepsInv, EraseClientKeepsInv, CloseFdKeepsInv
<1>5. CASE UNCHANGED reactorVars
  BY <1>5
     DEF reactorVars, kernel, objects, loops, ServerInv, ReactorTypeOK,
         BacklogInv, TableInv, EntryInv, RegisteredInv, EventInv, CreatingInv,
         InsertingInv, HandlingInv, ClosingInv, Creating, OpenAtHand, FdOfCur,
         QueueInv, QueueDistinct, ServedInv, HeldAt
<1>6. QED
  BY <1>1, <1>2, <1>3, <1>4, <1>5 DEF Next, LoopStep

LEMMA InvCorrect == Spec => []ServerInv
BY InitInv, StepKeepsInv, PTL DEF Spec

----------------------------------------------------------------------------
(* The types hold, the round-robin index stays below the number of loops.  *)
THEOREM TypeCorrect == Spec => []ReactorTypeOK
<1>1. ServerInv => ReactorTypeOK
  BY DEF ServerInv
<1>2. QED
  BY <1>1, InvCorrect, PTL

(* No entry of clients_ survives the close of its descriptor.              *)
THEOREM EntriesCorrect == Spec => []EntriesAreOpen
<1>1. ServerInv => EntriesAreOpen
  BY DEF ServerInv, EntryInv, EntriesAreOpen
<1>2. QED
  BY <1>1, InvCorrect, PTL

(* A channel is alive as long as its callback may use it.                  *)
THEOREM ChannelCorrect == Spec => []ChannelAliveWhenUsed
<1>1. ServerInv => ChannelAliveWhenUsed
  BY ReactorAssumption
     DEF ServerInv, HandlingInv, EntryInv, OpenAtHand, FdOfCur,
         ChannelAliveWhenUsed, UsesChannel
<1>2. QED
  BY <1>1, InvCorrect, PTL

(* Neither epoll nor an event array holds the address of a dead channel.   *)
THEOREM EventsCorrect == Spec => []NoDanglingEvent
<1>1. ServerInv => NoDanglingEvent
  BY DEF ServerInv, EventInv, RegisteredInv, NoDanglingEvent
<1>2. QED
  BY <1>1, InvCorrect, PTL

(* An open descriptor has somebody who serves or closes it.                *)
THEOREM FdsCorrect == Spec => []OpenFdIsServed
<1>1. ServerInv => OpenFdIsServed
  BY DEF ServerInv, ServedInv, HeldAt, OpenFdIsServed, UsesChannel, Removing
<1>2. QED
  BY <1>1, InvCorrect, PTL

----------------------------------------------------------------------------
(* ReactorServer implements ConnectionLife: from the invariant above and   *)
(* two facts about descriptors that the refinement mapping needs.          *)

(* An accepted connection keeps its number until its object is destroyed.  *)
NumberInv ==
  \A c \in Conns : peer[c] = "accepted" /\ object[c] # "freed" => IsOpen(c)

(* The object of a connection that epoll has refused is never removed.     *)
DeafInv ==
  \A c \in deaf :
    /\ object[c] = "alive"
    /\ c \notin registered
    /\ \A l \in Loops : cur[l] = c => pc[l] # "erase"

LifeInv == ServerInv /\ NumberInv /\ DeafInv

(* A step of the server is one of ConnectionLife, or none.                 *)
LifeStep == Life!LifeNext \/ UNCHANGED Life!lifeVars

----------------------------------------------------------------------------
(* Stage(d) depends on what the reactor knows of d only.                   *)
LEMMA SameStage ==
  ASSUME NEW d \in Conns,
         peer'[d] = peer[d],
         object'[d] = object[d],
         IsOpen(d)' <=> IsOpen(d),
         d \in registered' <=> d \in registered,
         d \in deaf' <=> d \in deaf
  PROVE  Stage(d)' = Stage(d)
BY DEF Stage

(* When one connection alone changes its stage, ConnectionLife moves.      *)
LEMMA OneMoves ==
  ASSUME NEW c \in Conns, NEW from, NEW to,
         Stage(c) = from,
         Stage(c)' = to,
         \A d \in Conns \ {c} : Stage(d)' = Stage(d)
  PROVE  Life!Move(c, from, to)
BY DEF Life!Move

(* The steps that touch neither a descriptor nor an object.                *)
QuietStep ==
  /\ UNCHANGED <<peer, open, fdOf, object, registered, deaf>>
  /\ \A k \in Loops : pc'[k] = "erase" => pc[k] = "erase" /\ cur'[k] = cur[k]

LEMMA QuietStepKeepsStages ==
  ASSUME LifeInv, QuietStep
  PROVE  NumberInv' /\ DeafInv' /\ LifeStep
<1>1. NumberInv'
  BY DEF LifeInv, NumberInv, QuietStep, IsOpen
<1>2. DeafInv'
  BY DEF LifeInv, DeafInv, QuietStep
<1>3. \A d \in Conns : Stage(d)' = Stage(d)
  BY DEF QuietStep, Stage, IsOpen
<1>4. UNCHANGED Life!lifeVars
  BY <1>3 DEF QuietStep, Life!lifeVars
<1>5. QED
  BY <1>1, <1>2, <1>4 DEF LifeStep

(* InsertConnection is quiet because the key it assigns to is free.        *)
LEMMA QuietSteps ==
  ASSUME LifeInv, NEW l \in Loops,
         \/ EpollWait(l) \/ HandlerReturns(l) \/ SwapFunctors(l)
         \/ RunCreate(l) \/ EndRun(l) \/ InsertConnection(l)
         \/ HandleListen \/ AcceptFails \/ OnNewConnection
         \/ \E c \in Conns : HandleEvent(l, c)
  PROVE  QuietStep
<1> USE DEF LifeInv, ServerInv, ReactorTypeOK, kernel, objects
<1>1. ASSUME EpollWait(l) \/ SwapFunctors(l) \/ EndRun(l) \/ AcceptFails
      PROVE  QuietStep
  BY <1>1 DEF EpollWait, SwapFunctors, EndRun, AcceptFails, QuietStep
<1>2. ASSUME HandlerReturns(l) \/ RunCreate(l) \/ HandleListen
      PROVE  QuietStep
  BY <1>2 DEF HandlerReturns, RunCreate, HandleListen, QuietStep
<1>3. ASSUME NEW c \in Conns, HandleEvent(l, c)
      PROVE  QuietStep
  BY <1>3 DEF HandleEvent, QuietStep
<1>4. ASSUME OnNewConnection
      PROVE  QuietStep
  <2>1. \A k \in Loops : pc'[k] = "erase" => k # mainLoop_ /\ pc[k] = "erase"
    BY <1>4 DEF OnNewConnection
  <2>2. \A k \in Loops : k # mainLoop_ => cur'[k] = cur[k]
    BY <1>4 DEF OnNewConnection
  <2>3. UNCHANGED <<peer, open, fdOf, object, registered, deaf>>
    BY <1>4 DEF OnNewConnection
  <2>4. QED
    BY <2>1, <2>2, <2>3 DEF QuietStep
<1>5. ASSUME InsertConnection(l)
      PROVE  QuietStep
  <2>1. connections_[FdOfCur(l)] = NoConn
    BY <1>5 DEF InsertConnection, InsertingInv, EntryInv, OpenAtHand
  <2>2. object' = object
    BY <1>5, <2>1, ReactorAssumption DEF InsertConnection, DestroyOwnedBy
  <2>3. QED
    BY <1>5, <2>2 DEF InsertConnection, QuietStep
<1>6. QED
  BY <1>1, <1>2, <1>3, <1>4, <1>5

----------------------------------------------------------------------------
(* The steps in the life of one connection.                                *)
LEMMA ConnectArrives ==
  ASSUME LifeInv, NEW c \in Conns, Connect(c)
  PROVE  NumberInv' /\ DeafInv' /\ LifeStep
<1> USE DEF LifeInv, ServerInv, ReactorTypeOK, Connect, objects, loops
<1>1. NumberInv' /\ DeafInv'
  BY DEF NumberInv, DeafInv, IsOpen
<1>2. \A d \in Conns \ {c} : Stage(d)' = Stage(d)
  BY DEF Stage, IsOpen
<1>3. Stage(c) = "away" /\ Stage(c)' = "waiting"
  BY DEF Stage
<1>4. Life!Arrive(c)
  BY <1>2, <1>3, OneMoves DEF Life!Arrive
<1>5. QED
  BY <1>1, <1>4 DEF LifeStep, Life!LifeNext

(* The number accept() returns is held by no other connection.             *)
LEMMA AcceptAccepts ==
  ASSUME LifeInv, NEW c \in Conns, Accept(c)
  PROVE  NumberInv' /\ DeafInv' /\ LifeStep
<1> USE DEF LifeInv, ServerInv, ReactorTypeOK
<1>1. PICK fd \in Fds :
        /\ open[fd] = NoConn
        /\ open' = [open EXCEPT ![fd] = c]
        /\ fdOf' = [fdOf EXCEPT ![c] = fd]
  BY DEF Accept, LowestFree, FreeFds
<1>2. /\ peer[c] = "waiting"
      /\ peer' = [peer EXCEPT ![c] = "accepted"]
      /\ UNCHANGED <<object, registered, deaf>>
      /\ \A k \in Loops : pc'[k] = "erase" => pc[k] = "erase" /\ cur'[k] = cur[k]
  BY DEF Accept, Waiting, objects
<1>3. object[c] = "none"
  BY <1>2 DEF BacklogInv
<1>4. IsOpen(c)'
  BY <1>1 DEF IsOpen
<1>5. \A d \in Conns \ {c} : IsOpen(d)' <=> IsOpen(d)
  BY <1>1, ReactorAssumption DEF IsOpen
<1>6. NumberInv' /\ DeafInv'
  BY <1>2, <1>4, <1>5 DEF NumberInv, DeafInv
<1>7. \A d \in Conns \ {c} : Stage(d)' = Stage(d)
  BY <1>2, <1>5, SameStage
<1>8. Stage(c) = "waiting" /\ Stage(c)' = "accepted"
  BY <1>2, <1>3, <1>4 DEF Stage
<1>9. \A d \in Conns : ~Life!Holds(d, fd)
  <2> SUFFICES ASSUME NEW d \in Conns, Life!Holds(d, fd)
               PROVE  FALSE
    OBVIOUS
  <2>1. Stage(d) \in {"accepted", "served", "deaf", "ending"} /\ fdOf[d] = fd
    BY DEF Life!Holds
  <2>2. ~IsOpen(d)
    BY <1>1, <2>1, ReactorAssumption DEF IsOpen
  <2>3. peer[d] = "accepted" /\ object[d] = "alive"
    BY <2>1, <2>2 DEF Stage
  <2>4. QED
    BY <2>2, <2>3 DEF NumberInv
<1>10. Life!Accept(c)
  BY <1>1, <1>7, <1>8, <1>9, OneMoves DEF Life!Accept
<1>11. QED
  BY <1>6, <1>10 DEF LifeStep, Life!LifeNext

(* enableReading(): epoll takes the channel, or refuses it.                *)
LEMMA CreateServes ==
  ASSUME LifeInv, NEW l \in Loops, CreateConnection(l)
  PROVE  NumberInv' /\ DeafInv' /\ LifeStep
<1> USE DEF LifeInv, ServerInv, ReactorTypeOK
<1>0. PICK c \in Conns : c = cur[l]
  BY DEF CreateConnection, CreatingInv, Creating, OpenAtHand
<1>1. /\ object[c] = "none"
      /\ IsOpen(c)
      /\ peer[c] = "accepted"
      /\ c \notin registered \cup deaf
  <2>1. /\ object[c] = "none"
        /\ fdOf[c] \in Fds
        /\ open[fdOf[c]] = c
    BY <1>0 DEF CreateConnection, CreatingInv, Creating, OpenAtHand, FdOfCur
  <2>2. peer[c] = "accepted"
    BY <2>1 DEF BacklogInv
  <2>3. QED
    BY <2>1, <2>2 DEF IsOpen, RegisteredInv, DeafInv
<1>2. /\ object' = [object EXCEPT ![c] = "alive"]
      /\ pc' = [pc EXCEPT ![l] = "insert"]
      /\ UNCHANGED <<peer, open, fdOf, cur>>
  BY <1>0 DEF CreateConnection, kernel
<1>3. \/ registered' = registered \cup {c} /\ deaf' = deaf
      \/ deaf' = deaf \cup {c} /\ registered' = registered
  BY <1>0 DEF CreateConnection, EnableReading
<1>4. \A k \in Loops : cur[k] = c => pc[k] # "erase"
  <2>1. ASSUME NEW k \in Loops, cur[k] = c, pc[k] = "erase"
        PROVE  object[c] = "alive"
    <3>1. FdOfCur(k) \in Fds /\ connections_[FdOfCur(k)] = c
      BY <2>1 DEF HandlingInv, OpenAtHand
    <3>2. QED
      BY <1>1, <3>1, ReactorAssumption DEF EntryInv
  <2>2. QED
    BY <1>1, <2>1
<1>5. \A d \in Conns : IsOpen(d)' <=> IsOpen(d)
  BY <1>2 DEF IsOpen
<1>6. NumberInv'
  BY <1>1, <1>2, <1>5 DEF NumberInv
<1>7. DeafInv'
  BY <1>0, <1>1, <1>2, <1>3, <1>4 DEF DeafInv
<1>8. \A d \in Conns \ {c} : Stage(d)' = Stage(d)
  BY <1>1, <1>2, <1>3, <1>5, SameStage
<1>9. Stage(c) = "accepted"
  BY <1>1 DEF Stage
<1>10. Stage(c)' = "served" \/ Stage(c)' = "deaf"
  BY <1>1, <1>2, <1>3, <1>5 DEF Stage
<1>11. Life!Serve(c) \/ Life!Deafen(c)
  BY <1>1, <1>2, <1>8, <1>9, <1>10, OneMoves DEF Life!Serve, Life!Deafen
<1>12. QED
  BY <1>1, <1>6, <1>7, <1>11 DEF LifeStep, Life!LifeNext

LEMMA RemoveEnds ==
  ASSUME LifeInv, NEW l \in Loops, RemoveConnection(l)
  PROVE  NumberInv' /\ DeafInv' /\ LifeStep
<1> USE DEF LifeInv, ServerInv, ReactorTypeOK
<1>0. PICK c \in Conns : c = cur[l]
  BY DEF RemoveConnection, HandlingInv, OpenAtHand
<1>1. /\ object[c] = "alive"
      /\ IsOpen(c)
      /\ peer[c] = "accepted"
      /\ c \in registered \ deaf
  <2>1. c \in registered
    BY <1>0 DEF RemoveConnection, HandlingInv, OpenAtHand
  <2>2. object[c] = "alive" /\ c \notin deaf
    BY <2>1 DEF RegisteredInv, DeafInv
  <2>3. peer[c] = "accepted"
    BY <2>1, <2>2 DEF BacklogInv
  <2>4. QED
    BY <2>1, <2>2, <2>3 DEF NumberInv
<1>2. /\ registered' = registered \ {c}
      /\ pc' = [pc EXCEPT ![l] = "erase"]
      /\ UNCHANGED <<peer, open, fdOf, object, deaf, cur>>
  BY <1>0 DEF RemoveConnection, DisableAll, kernel
<1>3. \A d \in Conns : IsOpen(d)' <=> IsOpen(d)
  BY <1>2 DEF IsOpen
<1>4. NumberInv'
  BY <1>2, <1>3 DEF NumberInv
<1>5. DeafInv'
  BY <1>0, <1>1, <1>2 DEF DeafInv
<1>6. \A d \in Conns \ {c} : Stage(d)' = Stage(d)
  BY <1>2, <1>3, SameStage
<1>7. Stage(c) = "served" /\ Stage(c)' = "ending"
  BY <1>1, <1>2, <1>3 DEF Stage
<1>8. Life!End(c)
  BY <1>1, <1>2, <1>6, <1>7, OneMoves DEF Life!End
<1>9. QED
  BY <1>1, <1>4, <1>5, <1>8 DEF LifeStep, Life!LifeNext

(* The connection is ending already, and goes on ending: its descriptor is *)
(* still open.                                                             *)
LEMMA EraseIsInvisible ==
  ASSUME LifeInv, NEW l \in Loops, EraseClient(l)
  PROVE  NumberInv' /\ DeafInv' /\ LifeStep
<1> USE DEF LifeInv, ServerInv, ReactorTypeOK
<1>0. PICK c \in Conns : c = cur[l]
  BY DEF EraseClient, HandlingInv, OpenAtHand
<1>1. /\ FdOfCur(l) \in Fds
      /\ open[FdOfCur(l)] = c
      /\ connections_[FdOfCur(l)] = c
      /\ c \notin registered
  BY <1>0 DEF EraseClient, HandlingInv, OpenAtHand
<1>2. object[c] = "alive" /\ c \notin deaf
  BY <1>0, <1>1, ReactorAssumption DEF EraseClient, EntryInv, DeafInv
<1>3. IsOpen(c) /\ peer[c] = "accepted"
  BY <1>0, <1>1, <1>2 DEF IsOpen, FdOfCur, BacklogInv
<1>4. /\ object' = [object EXCEPT ![c] = "freed"]
      /\ pc' = [pc EXCEPT ![l] = "close"]
      /\ UNCHANGED <<peer, open, fdOf, registered, deaf, cur>>
  BY <1>1 DEF EraseClient, DestroyOwnedBy, kernel
<1>5. \A d \in Conns : IsOpen(d)' <=> IsOpen(d)
  BY <1>4 DEF IsOpen
<1>6. NumberInv' /\ DeafInv'
  BY <1>1, <1>2, <1>4, <1>5 DEF NumberInv, DeafInv
<1>7. \A d \in Conns \ {c} : Stage(d)' = Stage(d)
  BY <1>4, <1>5, SameStage
<1>8. Stage(c) = "ending" /\ Stage(c)' = "ending"
  BY <1>1, <1>2, <1>3, <1>4, <1>5 DEF Stage
<1>9. UNCHANGED Life!lifeVars
  BY <1>4, <1>7, <1>8 DEF Life!lifeVars
<1>10. QED
  BY <1>6, <1>9 DEF LifeStep

LEMMA CloseReleases ==
  ASSUME LifeInv, NEW l \in Loops, CloseFd(l)
  PROVE  NumberInv' /\ DeafInv' /\ LifeStep
<1> USE DEF LifeInv, ServerInv, ReactorTypeOK
<1>0. PICK c \in Conns, fd \in Fds : c = cur[l] /\ fd = fdOf[c]
  BY DEF CloseFd, ClosingInv, OpenAtHand, FdOfCur
<1>1. /\ open[fd] = c
      /\ object[c] = "freed"
  BY <1>0 DEF CloseFd, ClosingInv, OpenAtHand, FdOfCur
<1>2. c \notin registered \cup deaf /\ peer[c] = "accepted"
  BY <1>1 DEF RegisteredInv, DeafInv, BacklogInv
<1>3. /\ open' = [open EXCEPT ![fd] = NoConn]
      /\ registered' = registered
      /\ pc' = [pc EXCEPT ![l] = "return"]
      /\ UNCHANGED <<peer, fdOf, object, deaf, cur>>
  BY <1>0, <1>1, <1>2 DEF CloseFd, FdOfCur
<1>4. IsOpen(c) /\ ~IsOpen(c)'
  BY <1>0, <1>1, <1>3, ReactorAssumption DEF IsOpen
<1>5. \A d \in Conns \ {c} : IsOpen(d)' <=> IsOpen(d)
  BY <1>0, <1>1, <1>3, ReactorAssumption DEF IsOpen
<1>6. NumberInv' /\ DeafInv'
  BY <1>1, <1>3, <1>5 DEF NumberInv, DeafInv
<1>7. \A d \in Conns \ {c} : Stage(d)' = Stage(d)
  BY <1>3, <1>5, SameStage
<1>8. Stage(c) = "ending" /\ Stage(c)' = "over"
  BY <1>1, <1>2, <1>3, <1>4 DEF Stage
<1>9. Life!Release(c)
  BY <1>1, <1>3, <1>7, <1>8, OneMoves DEF Life!Release
<1>10. QED
  BY <1>1, <1>6, <1>9 DEF LifeStep, Life!LifeNext

----------------------------------------------------------------------------
LEMMA LifeInit == Init => LifeInv /\ Life!LifeInit
<1> SUFFICES ASSUME Init
             PROVE  LifeInv /\ Life!LifeInit
  OBVIOUS
<1>1. NumberInv /\ DeafInv
  BY DEF Init, ReactorInit, NumberInv, DeafInv
<1>2. Life!LifeInit
  BY DEF Init, ReactorInit, Stage, Life!LifeInit
<1>3. QED
  BY <1>1, <1>2, InitInv DEF LifeInv

LEMMA LifeStepCorrect ==
  LifeInv /\ [Next]_reactorVars => LifeInv' /\ LifeStep
<1> SUFFICES ASSUME LifeInv, [Next]_reactorVars
             PROVE  LifeInv' /\ LifeStep
  OBVIOUS
<1>1. ServerInv'
  BY StepKeepsInv DEF LifeInv
<1>2. NumberInv' /\ DeafInv' /\ LifeStep
  <2>1. ASSUME NEW c \in Conns, Connect(c) \/ Accept(c)
        PROVE  NumberInv' /\ DeafInv' /\ LifeStep
    BY <2>1, ConnectArrives, AcceptAccepts
  <2>2. ASSUME NEW l \in Loops, ReactorLoopStep(l)
        PROVE  NumberInv' /\ DeafInv' /\ LifeStep
    BY <2>2, QuietSteps, QuietStepKeepsStages, CreateServes
       DEF ReactorLoopStep
  <2>3. ASSUME NEW l \in Loops, AcceptorStep
        PROVE  NumberInv' /\ DeafInv' /\ LifeStep
    BY <2>1, <2>3, QuietSteps, QuietStepKeepsStages DEF AcceptorStep
  <2>4. ASSUME NEW l \in Loops,
               RemoveConnection(l) \/ EraseClient(l) \/ CloseFd(l)
        PROVE  NumberInv' /\ DeafInv' /\ LifeStep
    BY <2>4, RemoveEnds, EraseIsInvisible, CloseReleases
  <2>5. CASE UNCHANGED reactorVars
    <3>1. QuietStep
      BY <2>5 DEF reactorVars, kernel, objects, loops, QuietStep
    <3>2. QED
      BY <3>1, QuietStepKeepsStages
  <2>6. QED
    BY <2>1, <2>2, <2>3, <2>4, <2>5 DEF Next, LoopStep
<1>3. QED
  BY <1>1, <1>2 DEF LifeInv

(* Each connection of stage 3 lives the life ConnectionLife describes.     *)
THEOREM ServerImplementsLife == Spec => ImplementsLife
<1>1. LifeStep => [Life!LifeNext]_Life!lifeVars
  BY DEF LifeStep
<1>2. QED
  BY <1>1, LifeInit, LifeStepCorrect, PTL
  DEF Spec, ImplementsLife, Life!LifeSpec

(* ... and so no descriptor number is ever held by two connections.        *)
THEOREM NumbersCorrect == Spec => []Life!NumbersAreUnique
<1>1. Life!LifeSpec => []Life!NumbersAreUnique
  BY Life!UniqueCorrect
<1>2. QED
  BY <1>1, ServerImplementsLife, PTL DEF ImplementsLife
=============================================================================
