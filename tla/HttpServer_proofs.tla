-------------------------- MODULE HttpServer_proofs --------------------------
(***************************************************************************)
(* Theorems about HttpServer for any number of sub loops (none included),  *)
(* connections and descriptors, and whatever numbers the kernel returns.   *)
(* First, KernelInv: the kernel's numbers, the queues and the threads      *)
(* agree until a thread uses a destroyed object.  Then MapInv:             *)
(* connections_ owns each object from its insertion to the erase that its  *)
(* removal has queued, unless its number has been accepted again before    *)
(* the erase; on it rest the theorems about the life of a channel.         *)
(***************************************************************************)
EXTENDS HttpServer, TLAPS

----------------------------------------------------------------------------
(* The invariant of the code, numbers reused or not, part by part.         *)

(* A connection that has not been accepted has neither object nor number.  *)
BacklogInv ==
  \A c \in Conns : peer[c] # "accepted" =>
    object[c] = "none" /\ \A f \in Fds : open[f] # c

(* The kernel's table and the numbers that accept() returned agree.        *)
TableInv ==
  \A f \in Fds : open[f] # NoConn => fdOf[open[f]] = f

(* What is in the map or marked as closing has been created.               *)
CreatedInv ==
  /\ \A f \in Fds : connections_[f] # NoConn => object[connections_[f]] # "none"
  /\ \A c \in Conns : closing[c] => object[c] # "none"

(* A registered channel has been created, and its descriptor is open.      *)
RegisteredInv ==
  \A c \in registered :
    /\ object[c] # "none"
    /\ ~closing[c]
    /\ fdOf[c] \in Fds
    /\ open[fdOf[c]] = c

(* Events not dispatched yet belong to channels of this very loop that are *)
(* still registered.                                                       *)
EventInv ==
  \A l \in Loops : \A c \in Conns : c \in active[l] =>
    c \in registered /\ loopOf[c] = l

(* What is known of the connection that a thread works on.                 *)
Creating(l) == pc[l] \in {"new", "create"}

OpenAtHand(l) ==
  /\ cur[l] \in Conns
  /\ FdOfCur(l) \in Fds
  /\ open[FdOfCur(l)] = cur[l]

CreatingInv ==
  \A l \in Loops : Creating(l) =>
    /\ OpenAtHand(l)
    /\ object[cur[l]] = "none"
    /\ \A k \in Loops : Creating(k) /\ cur[k] = cur[l] => k = l

(* The rest of the places belong to the connection's own loop.             *)
AtHome(l) == loopOf[cur[l]] = l /\ object[cur[l]] # "none"

InsertingInv ==
  \A l \in Loops : pc[l] = "insert" => OpenAtHand(l) /\ AtHome(l)

HandlingInv ==
  \A l \in Loops : pc[l] = "handler" =>
    /\ OpenAtHand(l) /\ AtHome(l)
    /\ cur[l] \in registered
    /\ cur[l] \notin active[l]

ClosingInv ==
  \A l \in Loops : pc[l] = "close" =>
    /\ OpenAtHand(l) /\ AtHome(l)
    /\ closing[cur[l]]
    /\ cur[l] \notin registered

LeavingInv ==
  \A l \in Loops : pc[l] \in {"queue", "return"} =>
    /\ cur[l] \in Conns
    /\ FdOfCur(l) \in Fds
    /\ open[FdOfCur(l)] # cur[l]
    /\ AtHome(l)
    /\ closing[cur[l]]

(* A queued functor that creates an object has the number of an open       *)
(* descriptor, which no other functor and no thread is creating for.       *)
Queued(l, i, kind) == i \in 1 .. Len(tasks[l]) /\ tasks[l][i].kind = kind

QueueInv ==
  \A l \in Loops : \A i \in 1 .. Len(tasks[l]) :
    Queued(l, i, "create") =>
      /\ open[tasks[l][i].fd] # NoConn
      /\ object[open[tasks[l][i].fd]] = "none"
      /\ \A k \in Loops : Creating(k) => FdOfCur(k) # tasks[l][i].fd

QueueDistinct ==
  \A l, k \in Loops : \A i \in 1 .. Len(tasks[l]), j \in 1 .. Len(tasks[k]) :
    /\ Queued(l, i, "create") /\ Queued(k, j, "create")
    /\ tasks[l][i].fd = tasks[k][j].fd
    => l = k /\ i = j

TurnInv == \A l \in Loops : turn[l] <= Len(tasks[l])

CodeTypeOK == ReactorTypeOK /\ closing \in [Conns -> BOOLEAN]

KernelInv ==
  /\ CodeTypeOK
  /\ BacklogInv /\ TableInv /\ CreatedInv /\ RegisteredInv /\ EventInv
  /\ CreatingInv /\ InsertingInv /\ HandlingInv /\ ClosingInv /\ LeavingInv
  /\ QueueInv /\ QueueDistinct /\ TurnInv

----------------------------------------------------------------------------
(* The invariant of connections_.  KeyInv holds of every number; the rest, *)
(* MapAt(f), of each number f that has never been accepted while it still  *)
(* was a key of the map.                                                   *)

(* An entry is under the number of its connection, which accept() has      *)
(* returned; what epoll has refused has been created.                      *)
KeyInv ==
  /\ \A c \in Conns : peer[c] # "accepted" => fdOf[c] = 0
  /\ \A c \in deaf : object[c] # "none"
  /\ \A f \in Fds : connections_[f] # NoConn => fdOf[connections_[f]] = f

(* An entry is alive.  Its descriptor is open, or has been closed by       *)
(* removeConnection and denotes nothing since.                             *)
EntryAt(f) ==
  connections_[f] # NoConn =>
    LET c == connections_[f]
    IN /\ object[c] = "alive"
       /\ open[f] = c \/ (open[f] = NoConn /\ closing[c])
       /\ \A l \in Loops : cur[l] = c => pc[l] # "insert"

(* An object is in the map, or about to be inserted.                       *)
OwnedAt(f) ==
  \A c \in Conns : fdOf[c] = f /\ object[c] = "alive" =>
    \/ connections_[f] = c
    \/ cur[loopOf[c]] = c /\ pc[loopOf[c]] = "insert"

(* Registered channels are alive, those being created become so, and one   *)
(* in its callback is in the map.                                          *)
InCallbackOf(l) == pc[l] \in {"handler", "close", "queue", "return"}

AliveAt(f) ==
  /\ \A c \in registered : fdOf[c] = f => object[c] = "alive"
  /\ \A l \in Loops : pc[l] = "insert" /\ FdOfCur(l) = f =>
       object[cur[l]] = "alive"
  /\ \A l \in Loops : InCallbackOf(l) /\ FdOfCur(l) = f =>
       connections_[f] = cur[l]

(* A connection that epoll has refused is never removed.                   *)
DeafAt(f) ==
  \A c \in deaf : fdOf[c] = f =>
    object[c] = "alive" /\ c \notin registered /\ ~closing[c]

(* A queued erase is for a connection of this loop that has been closed,   *)
(* and it is the only one.                                                 *)
ErasesOf(f, l, i) == Queued(l, i, "erase") /\ tasks[l][i].fd = f

EraseAt(f) ==
  \A l \in Loops : \A i \in 1 .. Len(tasks[l]) : ErasesOf(f, l, i) =>
    /\ connections_[f] # NoConn
    /\ loopOf[connections_[f]] = l
    /\ open[f] = NoConn
    /\ \A k \in Loops : pc[k] = "queue" => FdOfCur(k) # f
    /\ \A k \in Loops : \A j \in 1 .. Len(tasks[k]) :
         ErasesOf(f, k, j) => k = l /\ j = i

(* An open descriptor is served, or its thread is on the way to close it.  *)
ServedAt(f) ==
  open[f] # NoConn =>
    \/ object[open[f]] = "none" \/ open[f] \in deaf
    \/ /\ object[open[f]] = "alive"
       /\ \/ open[f] \in registered
          \/ \E l \in Loops : cur[l] = open[f] /\ pc[l] = "close"

MapAt(f) ==
  EntryAt(f) /\ OwnedAt(f) /\ AliveAt(f) /\ DeafAt(f) /\ EraseAt(f) /\ ServedAt(f)

MapInv == KeyInv /\ \A f \in Fds \ reused : MapAt(f)

----------------------------------------------------------------------------
(* The steps that only move a thread from one place to another.            *)
LEMMA ConnectKeepsKernel ==
  ASSUME KernelInv, NEW c \in Conns, Connect(c), UNCHANGED closing
  PROVE  KernelInv'
<1> USE DEF KernelInv, CodeTypeOK, ReactorTypeOK, Connect, objects, loops
<1>1. CodeTypeOK' /\ BacklogInv'
  BY DEF BacklogInv
<1>2. TableInv' /\ CreatedInv' /\ RegisteredInv' /\ EventInv'
  BY DEF TableInv, CreatedInv, RegisteredInv, EventInv
<1>3. CreatingInv' /\ InsertingInv' /\ HandlingInv' /\ ClosingInv' /\ LeavingInv'
  BY DEF CreatingInv, InsertingInv, HandlingInv, ClosingInv, LeavingInv,
     Creating, OpenAtHand, AtHome, FdOfCur
<1>4. QueueInv' /\ QueueDistinct' /\ TurnInv'
  BY DEF QueueInv, QueueDistinct, TurnInv, Queued, Creating, FdOfCur
<1>5. QED
  BY <1>1, <1>2, <1>3, <1>4

LEMMA EpollWaitKeepsKernel ==
  ASSUME KernelInv, NEW l \in Loops, EpollWait(l), UNCHANGED closing
  PROVE  KernelInv'
<1> USE DEF KernelInv, CodeTypeOK, ReactorTypeOK, EpollWait, kernel, objects
<1>1. CodeTypeOK'
  BY DEF Ready, LoopPC
<1>2. BacklogInv' /\ TableInv' /\ CreatedInv' /\ RegisteredInv'
  BY DEF BacklogInv, TableInv, CreatedInv, RegisteredInv
<1>3. EventInv'
  BY ReactorAssumption DEF EventInv, Ready
<1>4. CreatingInv' /\ InsertingInv' /\ ClosingInv' /\ LeavingInv'
  BY DEF CreatingInv, InsertingInv, ClosingInv, LeavingInv, Creating,
     OpenAtHand, AtHome, FdOfCur
<1>5. HandlingInv'
  BY DEF HandlingInv, OpenAtHand, AtHome, FdOfCur
<1>6. QueueInv' /\ QueueDistinct' /\ TurnInv'
  BY DEF QueueInv, QueueDistinct, TurnInv, Queued, Creating, FdOfCur
<1>7. QED
  BY <1>1, <1>2, <1>3, <1>4, <1>5, <1>6

LEMMA HandleEventKeepsKernel ==
  ASSUME KernelInv, NEW l \in Loops, NEW c \in Conns, HandleEvent(l, c),
         UNCHANGED closing
  PROVE  KernelInv'
<1> USE DEF KernelInv, CodeTypeOK, ReactorTypeOK, HandleEvent, kernel, objects
<1>1. CodeTypeOK'
  BY DEF LoopPC
<1>2. /\ c \in registered
      /\ loopOf[c] = l
      /\ object[c] # "none"
      /\ fdOf[c] \in Fds
      /\ open[fdOf[c]] = c
  BY ReactorAssumption DEF EventInv, RegisteredInv
<1>3. BacklogInv' /\ TableInv' /\ CreatedInv' /\ RegisteredInv' /\ EventInv'
  BY DEF BacklogInv, TableInv, CreatedInv, RegisteredInv, EventInv
<1>4. CreatingInv' /\ InsertingInv' /\ ClosingInv' /\ LeavingInv'
  BY DEF CreatingInv, InsertingInv, ClosingInv, LeavingInv, Creating,
     OpenAtHand, AtHome, FdOfCur
<1>5. HandlingInv'
  BY <1>2 DEF HandlingInv, OpenAtHand, AtHome, FdOfCur
<1>6. QueueInv' /\ QueueDistinct' /\ TurnInv'
  BY DEF QueueInv, QueueDistinct, TurnInv, Queued, Creating, FdOfCur
<1>7. QED
  BY <1>1, <1>3, <1>4, <1>5, <1>6

LEMMA HandleListenKeepsKernel ==
  ASSUME KernelInv, HandleListen, UNCHANGED closing
  PROVE  KernelInv'
<1> USE DEF KernelInv, CodeTypeOK, ReactorTypeOK, HandleListen, kernel, objects
<1>1. CodeTypeOK'
  BY DEF LoopPC
<1>2. BacklogInv' /\ TableInv' /\ CreatedInv' /\ RegisteredInv' /\ EventInv'
  BY DEF BacklogInv, TableInv, CreatedInv, RegisteredInv, EventInv
<1>3. CreatingInv' /\ InsertingInv' /\ ClosingInv' /\ LeavingInv'
  BY DEF CreatingInv, InsertingInv, ClosingInv, LeavingInv, Creating,
     OpenAtHand, AtHome, FdOfCur
<1>4. HandlingInv'
  BY DEF HandlingInv, OpenAtHand, AtHome, FdOfCur
<1>5. QueueInv' /\ QueueDistinct' /\ TurnInv'
  BY DEF QueueInv, QueueDistinct, TurnInv, Queued, Creating, FdOfCur
<1>6. QED
  BY <1>1, <1>2, <1>3, <1>4, <1>5

LEMMA HandlerReturnsKeepsKernel ==
  ASSUME KernelInv, NEW l \in Loops, HandlerReturns(l), UNCHANGED closing
  PROVE  KernelInv'
<1> USE DEF KernelInv, CodeTypeOK, ReactorTypeOK, HandlerReturns, kernel, objects
<1>1. CodeTypeOK'
  BY DEF LoopPC
<1>2. BacklogInv' /\ TableInv' /\ CreatedInv' /\ RegisteredInv' /\ EventInv'
  BY DEF BacklogInv, TableInv, CreatedInv, RegisteredInv, EventInv
<1>3. CreatingInv' /\ InsertingInv' /\ ClosingInv' /\ LeavingInv'
  BY DEF CreatingInv, InsertingInv, ClosingInv, LeavingInv, Creating,
     OpenAtHand, AtHome, FdOfCur
<1>4. HandlingInv'
  BY DEF HandlingInv, OpenAtHand, AtHome, FdOfCur
<1>5. QueueInv' /\ QueueDistinct' /\ TurnInv'
  BY DEF QueueInv, QueueDistinct, TurnInv, Queued, Creating, FdOfCur
<1>6. QED
  BY <1>1, <1>2, <1>3, <1>4, <1>5

LEMMA ControlStepKeepsKernel ==
  ASSUME KernelInv, NEW l \in Loops, AcceptFails \/ SwapFunctors(l) \/ EndRun(l),
         UNCHANGED closing
  PROVE  KernelInv'
<1> USE DEF KernelInv, CodeTypeOK, ReactorTypeOK, kernel, objects
<1>1. PICK k \in Loops, p \in {"dispatch", "run", "wait"} :
        /\ pc[k] \in {"accept", "dispatch", "run"}
        /\ pc' = [pc EXCEPT ![k] = p]
  BY ReactorAssumption
     DEF AcceptFails, SwapFunctors, EndRun, Loops, mainLoop_, LoopPC
<1>2. UNCHANGED <<kernel, objects, next_, active, cur, tasks>>
  BY DEF AcceptFails, SwapFunctors, EndRun
<1>3. turn' \in [Loops -> Nat] /\ TurnInv'
  <2>1. CASE turn' = turn
    BY <1>2, <2>1 DEF TurnInv
  <2>2. CASE turn' = [turn EXCEPT ![l] = Len(tasks[l])]
    BY <1>2, <2>2 DEF TurnInv
  <2>3. QED
    BY <2>1, <2>2 DEF AcceptFails, SwapFunctors, EndRun
<1>4. CodeTypeOK'
  BY <1>1, <1>2, <1>3 DEF LoopPC
<1>5. BacklogInv' /\ TableInv' /\ CreatedInv' /\ RegisteredInv' /\ EventInv'
  BY <1>2 DEF BacklogInv, TableInv, CreatedInv, RegisteredInv, EventInv
<1>6. CreatingInv' /\ InsertingInv' /\ ClosingInv' /\ LeavingInv'
  BY <1>1, <1>2
     DEF CreatingInv, InsertingInv, ClosingInv, LeavingInv, Creating,
         OpenAtHand, AtHome, FdOfCur
<1>7. HandlingInv'
  BY <1>1, <1>2 DEF HandlingInv, OpenAtHand, AtHome, FdOfCur
<1>8. \A m \in Loops : Creating(m)' => Creating(m)
  BY <1>1 DEF Creating
<1>9. QueueInv' /\ QueueDistinct'
  BY <1>2, <1>8 DEF QueueInv, QueueDistinct, Queued, FdOfCur
<1> HIDE DEF CodeTypeOK, ReactorTypeOK, Creating
<1>10. QED
  BY <1>3, <1>4, <1>5, <1>6, <1>7, <1>9

----------------------------------------------------------------------------
(* Every functor has a number.                                             *)
LEMMA TaskNumbers ==
  ASSUME KernelInv
  PROVE  \A k \in Loops : \A i \in 1 .. Len(tasks[k]) :
           tasks[k][i] \in Task /\ tasks[k][i].fd \in Fds
<1> SUFFICES ASSUME NEW k \in Loops, NEW i \in 1 .. Len(tasks[k])
             PROVE  tasks[k][i] \in Task /\ tasks[k][i].fd \in Fds
  OBVIOUS
<1>1. tasks[k] \in Seq(Task)
  BY DEF KernelInv, CodeTypeOK, ReactorTypeOK
<1>2. tasks[k][i] \in Task
  BY <1>1
<1>3. QED
  BY <1>2 DEF Task

(* accept(): a connection that nothing else refers to gets a number that   *)
(* denotes nothing.                                                        *)
LEMMA AcceptKeepsKernel ==
  ASSUME KernelInv, NEW c \in Conns, Accept(c), UNCHANGED closing
  PROVE  KernelInv'
<1> USE DEF KernelInv, CodeTypeOK, ReactorTypeOK
<1>1. PICK fd \in Fds :
        /\ open[fd] = NoConn
        /\ open' = [open EXCEPT ![fd] = c]
        /\ fdOf' = [fdOf EXCEPT ![c] = fd]
  BY DEF Accept, LowestFree, FreeFds
<1>2. /\ mainLoop_ \in Loops
      /\ pc[mainLoop_] = "accept"
      /\ pc' = [pc EXCEPT ![mainLoop_] = "new"]
      /\ cur' = [cur EXCEPT ![mainLoop_] = c]
      /\ peer' = [peer EXCEPT ![c] = "accepted"]
      /\ UNCHANGED <<objects, next_, active, tasks, turn>>
  BY ReactorAssumption DEF Accept, Loops, mainLoop_
<1>3. object[c] = "none" /\ \A f \in Fds : open[f] # c
  BY DEF Accept, Waiting, BacklogInv
<1>4. c \notin registered /\ ~closing[c]
  BY <1>3 DEF RegisteredInv, CreatedInv
<1> USE DEF objects
<1>5. CodeTypeOK'
  BY <1>1, <1>2 DEF LoopPC
<1>6. BacklogInv' /\ TableInv' /\ CreatedInv' /\ EventInv'
  BY <1>1, <1>2, <1>3, ReactorAssumption
     DEF BacklogInv, TableInv, CreatedInv, EventInv
<1>7. RegisteredInv'
  BY <1>1, <1>2, <1>3, <1>4, ReactorAssumption DEF RegisteredInv
<1>8. \A k \in Loops : k # mainLoop_ =>
        pc'[k] = pc[k] /\ cur'[k] = cur[k] /\ active'[k] = active[k]
  BY <1>2
<1>9. \A k \in Loops : k # mainLoop_ /\ OpenAtHand(k) =>
        /\ OpenAtHand(k)'
        /\ cur[k] # c
        /\ FdOfCur(k) # fd
        /\ FdOfCur(k)' = FdOfCur(k)
  BY <1>1, <1>2, <1>3, ReactorAssumption DEF OpenAtHand, FdOfCur
<1>10. OpenAtHand(mainLoop_)' /\ FdOfCur(mainLoop_)' = fd
  BY <1>1, <1>2 DEF OpenAtHand, FdOfCur
<1>11. CreatingInv'
  BY <1>2, <1>3, <1>9, <1>10 DEF CreatingInv, Creating
<1>12. InsertingInv' /\ HandlingInv' /\ ClosingInv'
  BY <1>2, <1>9 DEF InsertingInv, HandlingInv, ClosingInv, AtHome
<1>13. LeavingInv'
  <2> SUFFICES ASSUME NEW k \in Loops, pc'[k] \in {"queue", "return"}
               PROVE  /\ cur'[k] \in Conns
                      /\ FdOfCur(k)' \in Fds
                      /\ open'[FdOfCur(k)'] # cur'[k]
                      /\ AtHome(k)'
                      /\ closing'[cur'[k]]
    BY DEF LeavingInv
  <2>1. k # mainLoop_ /\ pc[k] \in {"queue", "return"} /\ cur'[k] = cur[k]
    BY <1>2, <1>8
  <2>2. cur[k] \in Conns /\ closing[cur[k]] /\ cur[k] # c
    BY <1>4, <2>1 DEF LeavingInv
  <2>3. FdOfCur(k)' = FdOfCur(k)
    BY <1>1, <2>1, <2>2 DEF FdOfCur
  <2>4. FdOfCur(k) \in Fds /\ open[FdOfCur(k)] # cur[k] /\ AtHome(k)
    BY <2>1 DEF LeavingInv
  <2>5. open'[FdOfCur(k)] # cur[k]
    BY <1>1, <2>2, <2>4
  <2>6. AtHome(k)'
    BY <1>2, <2>1, <2>4 DEF AtHome
  <2>7. QED
    BY <2>1, <2>2, <2>3, <2>4, <2>5, <2>6
<1>14. \A k \in Loops : \A i \in 1 .. Len(tasks[k]) : tasks[k][i].fd \in Fds
  BY TaskNumbers
<1>15. QueueInv'
  <2> SUFFICES ASSUME NEW k \in Loops, NEW i \in 1 .. Len(tasks[k]),
                      Queued(k, i, "create")
               PROVE  /\ open'[tasks[k][i].fd] # NoConn
                      /\ object[open'[tasks[k][i].fd]] = "none"
                      /\ \A m \in Loops : Creating(m)' =>
                           FdOfCur(m)' # tasks[k][i].fd
    BY <1>2 DEF QueueInv, Queued
  <2> DEFINE f == tasks[k][i].fd
  <2>1. /\ f \in Fds
        /\ open[f] # NoConn
        /\ object[open[f]] = "none"
        /\ \A m \in Loops : Creating(m) => FdOfCur(m) # f
    BY <1>14 DEF QueueInv
  <2> HIDE DEF f
  <2>2. f # fd /\ open'[f] = open[f]
    BY <1>1, <2>1
  <2>3. ASSUME NEW m \in Loops, Creating(m)'
        PROVE  FdOfCur(m)' # f
    <3>1. CASE m = mainLoop_
      BY <1>10, <2>2, <3>1
    <3>2. CASE m # mainLoop_
      <4>1. Creating(m)
        BY <1>8, <2>3, <3>2 DEF Creating
      <4>2. FdOfCur(m)' = FdOfCur(m)
        BY <1>9, <3>2, <4>1 DEF CreatingInv
      <4>3. QED
        BY <2>1, <4>1, <4>2
    <3>3. QED
      BY <3>1, <3>2
  <2>4. QED
    BY <2>1, <2>2, <2>3 DEF f
<1>16. QueueDistinct' /\ TurnInv'
  <2>1. QueueDistinct /\ TurnInv
    OBVIOUS
  <2> HIDE DEF KernelInv, CodeTypeOK, ReactorTypeOK
  <2>2. QED
    BY <1>2, <2>1 DEF QueueDistinct, Queued, TurnInv
<1>17. QED
  BY <1>5, <1>6, <1>7, <1>11, <1>12, <1>13, <1>15, <1>16

(* A functor is added to the end of a queue.                               *)
LEMMA AppendedTask ==
  ASSUME KernelInv, NEW n \in Loops, NEW task \in Task,
         tasks' = [tasks EXCEPT ![n] = Append(@, task)]
  PROVE  /\ tasks' \in [Loops -> Seq(Task)]
         /\ \A k \in Loops : \A i \in 1 .. Len(tasks'[k]) :
              \/ i \in 1 .. Len(tasks[k]) /\ tasks'[k][i] = tasks[k][i]
              \/ k = n /\ i = Len(tasks[n]) + 1 /\ tasks'[k][i] = task
         /\ \A k \in Loops : Len(tasks[k]) <= Len(tasks'[k])
<1> USE DEF KernelInv, CodeTypeOK, ReactorTypeOK
<1>1. tasks' \in [Loops -> Seq(Task)]
  OBVIOUS
<1>2. tasks[n] \in Seq(Task) /\ tasks'[n] = Append(tasks[n], task)
  OBVIOUS
<1>3. Len(tasks'[n]) = Len(tasks[n]) + 1 /\ Len(tasks[n]) \in Nat
  BY <1>2
<1>4. \A k \in Loops : k # n => tasks'[k] = tasks[k] /\ Len(tasks[k]) \in Nat
  OBVIOUS
<1>5. \A i \in 1 .. Len(tasks'[n]) :
        \/ i \in 1 .. Len(tasks[n]) /\ tasks'[n][i] = tasks[n][i]
        \/ i = Len(tasks[n]) + 1 /\ tasks'[n][i] = task
  <2>1. \A s \in Seq(Task) : \A i \in 1 .. Len(Append(s, task)) :
          \/ i \in 1 .. Len(s) /\ Append(s, task)[i] = s[i]
          \/ i = Len(s) + 1 /\ Append(s, task)[i] = task
    OBVIOUS
  <2>2. QED
    BY <1>2, <2>1
<1>6. QED
  BY <1>1, <1>3, <1>4, <1>5

(* The accepted connection goes to the end of a sub loop's queue, or on to *)
(* its creation on the main loop.                                          *)
LEMMA OnNewConnectionKeepsKernel ==
  ASSUME KernelInv, OnNewConnection, UNCHANGED closing
  PROVE  KernelInv'
<1> USE DEF KernelInv, CodeTypeOK, ReactorTypeOK
<1>1. /\ mainLoop_ \in Loops
      /\ pc[mainLoop_] = "new"
      /\ UNCHANGED <<kernel, objects, active, turn>>
  BY ReactorAssumption DEF OnNewConnection, Loops, mainLoop_
<1>2. next_' \in Nat /\ (next_' < numThreads \/ next_' = 0)
  BY ReactorAssumption DEF OnNewConnection, AdvanceNext
<1>3. OpenAtHand(mainLoop_) /\ object[cur[mainLoop_]] = "none"
  BY <1>1 DEF CreatingInv, Creating
<1> USE DEF kernel, objects
<1>4. BacklogInv' /\ TableInv' /\ CreatedInv' /\ RegisteredInv' /\ EventInv'
  BY <1>1 DEF BacklogInv, TableInv, CreatedInv, RegisteredInv, EventInv
<1>5. CASE NextLoop = mainLoop_
  <2>1. /\ pc' = [pc EXCEPT ![mainLoop_] = "create"]
        /\ UNCHANGED <<cur, tasks>>
    BY <1>5 DEF OnNewConnection
  <2>2. CodeTypeOK'
    BY <1>1, <1>2, <2>1 DEF LoopPC
  <2>3. CreatingInv' /\ InsertingInv' /\ ClosingInv' /\ LeavingInv'
    BY <1>1, <2>1
       DEF CreatingInv, InsertingInv, ClosingInv, LeavingInv, Creating,
           OpenAtHand, AtHome, FdOfCur
  <2>4. HandlingInv'
    BY <1>1, <2>1 DEF HandlingInv, OpenAtHand, AtHome, FdOfCur
  <2>5. QueueInv' /\ QueueDistinct' /\ TurnInv'
    BY <1>1, <2>1 DEF QueueInv, QueueDistinct, Queued, TurnInv, Creating, FdOfCur
  <2>6. QED
    BY <1>4, <2>2, <2>3, <2>4, <2>5
<1>6. CASE NextLoop # mainLoop_
  <2> DEFINE n == NextLoop
             fd == FdOfCur(mainLoop_)
             task == [kind |-> "create", fd |-> fd]
  <2>1. /\ n \in Loops
        /\ task \in Task
        /\ pc' = [pc EXCEPT ![mainLoop_] = "accept"]
        /\ cur' = [cur EXCEPT ![mainLoop_] = NoConn]
        /\ tasks' = [tasks EXCEPT ![n] = Append(@, task)]
    BY <1>3, <1>6, ReactorAssumption
       DEF OnNewConnection, QueueInLoop, NextLoop, Loops, mainLoop_, Task,
           OpenAtHand
  <2>2. open[fd] = cur[mainLoop_] /\ fd \in Fds /\ cur[mainLoop_] \in Conns
    BY <1>3 DEF OpenAtHand
  <2>3. task.fd = fd
    OBVIOUS
  <2> HIDE DEF n, fd, task
  <2>4. /\ tasks' \in [Loops -> Seq(Task)]
        /\ \A k \in Loops : \A i \in 1 .. Len(tasks'[k]) :
             \/ i \in 1 .. Len(tasks[k]) /\ tasks'[k][i] = tasks[k][i]
             \/ k = n /\ i = Len(tasks[n]) + 1 /\ tasks'[k][i] = task
        /\ \A k \in Loops : Len(tasks[k]) <= Len(tasks'[k])
    BY <2>1, AppendedTask
  <2>5. CodeTypeOK'
    BY <1>1, <1>2, <2>1, <2>4 DEF LoopPC
  <2>6. CreatingInv' /\ InsertingInv' /\ ClosingInv' /\ LeavingInv'
    BY <1>1, <2>1
       DEF CreatingInv, InsertingInv, ClosingInv, LeavingInv, Creating,
           OpenAtHand, AtHome, FdOfCur
  <2>7. HandlingInv'
    BY <1>1, <2>1 DEF HandlingInv, OpenAtHand, AtHome, FdOfCur
  <2>8. \A k \in Loops : Creating(k)' =>
          Creating(k) /\ FdOfCur(k)' = FdOfCur(k) /\ FdOfCur(k) # fd
    BY <1>1, <2>1, <2>2 DEF CreatingInv, Creating, OpenAtHand, FdOfCur
  <2>9. \A k \in Loops : \A i \in 1 .. Len(tasks[k]) :
          Queued(k, i, "create") => tasks[k][i].fd # fd
    BY <1>1 DEF QueueInv, Creating, fd
  <2>10. QueueInv'
    <3> SUFFICES ASSUME NEW k \in Loops, NEW i \in 1 .. Len(tasks'[k]),
                        Queued(k, i, "create")'
                 PROVE  /\ open[tasks'[k][i].fd] # NoConn
                        /\ object[open[tasks'[k][i].fd]] = "none"
                        /\ \A m \in Loops : Creating(m)' =>
                             FdOfCur(m)' # tasks'[k][i].fd
      BY <1>1 DEF QueueInv
    <3>1. CASE i \in 1 .. Len(tasks[k]) /\ tasks'[k][i] = tasks[k][i]
      <4>1. Queued(k, i, "create")
        BY <3>1 DEF Queued
      <4>2. QED
        BY <2>8, <3>1, <4>1 DEF QueueInv
    <3>2. CASE tasks'[k][i] = task
      BY <1>3, <2>2, <2>3, <2>8, <3>2, ReactorAssumption
    <3>3. QED
      BY <2>4, <3>1, <3>2
  <2>11. QueueDistinct'
    <3> SUFFICES ASSUME NEW k \in Loops, NEW m \in Loops,
                        NEW i \in 1 .. Len(tasks'[k]),
                        NEW j \in 1 .. Len(tasks'[m]),
                        Queued(k, i, "create")', Queued(m, j, "create")',
                        tasks'[k][i].fd = tasks'[m][j].fd
                 PROVE  k = m /\ i = j
      BY DEF QueueDistinct
    <3>1. CASE i \in 1 .. Len(tasks[k]) /\ tasks'[k][i] = tasks[k][i]
      <4>1. Queued(k, i, "create")
        BY <3>1 DEF Queued
      <4>2. tasks'[k][i].fd # fd
        BY <2>9, <3>1, <4>1
      <4>3. j \in 1 .. Len(tasks[m]) /\ tasks'[m][j] = tasks[m][j]
        BY <2>3, <2>4, <4>2
      <4>4. Queued(m, j, "create")
        BY <4>3 DEF Queued
      <4>5. QED
        BY <3>1, <4>1, <4>3, <4>4 DEF QueueDistinct
    <3>2. CASE k = n /\ i = Len(tasks[n]) + 1 /\ tasks'[k][i] = task
      <4>1. ~(j \in 1 .. Len(tasks[m]) /\ tasks'[m][j] = tasks[m][j])
        BY <2>3, <2>9, <3>2 DEF Queued
      <4>2. QED
        BY <2>4, <3>2, <4>1
    <3>3. QED
      BY <2>4, <3>1, <3>2
  <2>12. TurnInv'
    <3>1. \A k \in Loops : turn[k] \in Nat /\ Len(tasks[k]) \in Nat
                           /\ Len(tasks'[k]) \in Nat
      BY <2>4
    <3>2. QED
      BY <1>1, <2>4, <3>1 DEF TurnInv
  <2>13. QED
    BY <1>4, <2>5, <2>6, <2>7, <2>10, <2>11, <2>12
<1>7. QED
  BY <1>5, <1>6

----------------------------------------------------------------------------
(* The creation of the object that nobody else creates.                    *)
LEMMA CreateConnectionKeepsKernel ==
  ASSUME KernelInv, NEW l \in Loops, CreateConnection(l), UNCHANGED closing
  PROVE  KernelInv'
<1> DEFINE c == cur[l]
<1> USE DEF KernelInv, CodeTypeOK, ReactorTypeOK
<1>1. /\ pc[l] = "create"
      /\ c \in Conns
      /\ fdOf[c] \in Fds
      /\ open[fdOf[c]] = c
      /\ object[c] = "none"
      /\ \A k \in Loops : Creating(k) /\ cur[k] = c => k = l
  BY DEF CreateConnection, CreatingInv, Creating, OpenAtHand, FdOfCur
<1>2. /\ object' = [object EXCEPT ![c] = "alive"]
      /\ loopOf' = [loopOf EXCEPT ![c] = l]
      /\ registered' \in {registered, registered \cup {c}}
      /\ deaf' \in {deaf, deaf \cup {c}}
      /\ pc' = [pc EXCEPT ![l] = "insert"]
      /\ UNCHANGED <<kernel, connections_, next_, active, cur, tasks, turn>>
  BY DEF CreateConnection, EnableReading
<1> USE DEF kernel
<1>3. c \notin registered /\ ~closing[c]
  BY <1>1 DEF RegisteredInv, CreatedInv
<1>4. \A k \in Loops : \A i \in 1 .. Len(tasks[k]) :
        Queued(k, i, "create") => tasks[k][i].fd # fdOf[c]
  BY <1>1 DEF QueueInv, Creating, FdOfCur, c
<1> HIDE DEF c
<1>5. CodeTypeOK'
  BY <1>1, <1>2 DEF LoopPC
<1>6. BacklogInv' /\ TableInv' /\ CreatedInv'
  BY <1>1, <1>2, ReactorAssumption DEF BacklogInv, TableInv, CreatedInv
<1>7. RegisteredInv' /\ EventInv'
  BY <1>1, <1>2, <1>3 DEF RegisteredInv, EventInv
<1>8. \A k \in Loops : /\ FdOfCur(k)' = FdOfCur(k)
                       /\ OpenAtHand(k)' <=> OpenAtHand(k)
                       /\ cur'[k] = cur[k]
                       /\ k # l => pc'[k] = pc[k]
                       /\ k # l /\ AtHome(k) /\ cur[k] \in Conns => AtHome(k)'
  BY <1>1, <1>2 DEF OpenAtHand, FdOfCur, AtHome
<1>9. pc'[l] = "insert" /\ OpenAtHand(l) /\ AtHome(l)'
  BY <1>1, <1>2 DEF OpenAtHand, AtHome, FdOfCur, c
<1>10. \A k \in Loops : Creating(k)' => Creating(k) /\ k # l
  BY <1>8, <1>9 DEF Creating
<1>11. CreatingInv'
  BY <1>1, <1>2, <1>8, <1>10 DEF CreatingInv, OpenAtHand
<1>12. InsertingInv'
  BY <1>8, <1>9 DEF InsertingInv, OpenAtHand
<1>13. HandlingInv'
  BY <1>1, <1>2, <1>8, <1>9 DEF HandlingInv, OpenAtHand
<1>14. ClosingInv'
  BY <1>1, <1>2, <1>3, <1>8, <1>9 DEF ClosingInv, OpenAtHand
<1>15. LeavingInv'
  BY <1>2, <1>8, <1>9 DEF LeavingInv
<1>16. QueueInv'
  <2> SUFFICES ASSUME NEW k \in Loops, NEW i \in 1 .. Len(tasks[k]),
                      Queued(k, i, "create")
               PROVE  /\ open[tasks[k][i].fd] # NoConn
                      /\ object'[open[tasks[k][i].fd]] = "none"
                      /\ \A m \in Loops : Creating(m)' =>
                           FdOfCur(m)' # tasks[k][i].fd
    BY <1>2 DEF QueueInv, Queued
  <2>1. /\ tasks[k][i].fd \in Fds
        /\ open[tasks[k][i].fd] # NoConn
        /\ object[open[tasks[k][i].fd]] = "none"
        /\ \A m \in Loops : Creating(m) => FdOfCur(m) # tasks[k][i].fd
    BY TaskNumbers DEF QueueInv
  <2>2. open[tasks[k][i].fd] # c
    BY <1>1, <1>4, <2>1 DEF TableInv
  <2>3. QED
    BY <1>2, <1>8, <1>10, <2>1, <2>2
<1>17. QueueDistinct' /\ TurnInv'
  <2>1. QueueDistinct /\ TurnInv
    OBVIOUS
  <2> HIDE DEF KernelInv, CodeTypeOK, ReactorTypeOK
  <2>2. QED
    BY <1>2, <2>1 DEF QueueDistinct, Queued, TurnInv
<1>18. QED
  BY <1>5, <1>6, <1>7, <1>11, <1>12, <1>13, <1>14, <1>15, <1>16, <1>17

(* A step that may destroy objects, and changes nothing else that the      *)
(* queues are about.                                                       *)
LEMMA QueueKept ==
  ASSUME KernelInv,
         UNCHANGED <<open, fdOf, tasks>>,
         \A d \in Conns : object[d] = "none" => object'[d] = "none",
         \A k \in Loops : Creating(k)' => Creating(k) /\ cur'[k] = cur[k]
  PROVE  QueueInv' /\ QueueDistinct'
<1>1. QueueDistinct'
  BY DEF KernelInv, QueueDistinct, Queued
<1>2. QueueInv'
  <2> SUFFICES ASSUME NEW k \in Loops, NEW i \in 1 .. Len(tasks[k]),
                      Queued(k, i, "create")
               PROVE  /\ open[tasks[k][i].fd] # NoConn
                      /\ object'[open[tasks[k][i].fd]] = "none"
                      /\ \A m \in Loops : Creating(m)' =>
                           FdOfCur(m)' # tasks[k][i].fd
    BY DEF QueueInv, Queued
  <2>1. /\ tasks[k][i].fd \in Fds
        /\ open[tasks[k][i].fd] # NoConn
        /\ object[open[tasks[k][i].fd]] = "none"
        /\ \A m \in Loops : Creating(m) => FdOfCur(m) # tasks[k][i].fd
    BY TaskNumbers DEF KernelInv, QueueInv
  <2>2. open[tasks[k][i].fd] \in Conns
    BY <2>1 DEF KernelInv, CodeTypeOK, ReactorTypeOK
  <2>3. QED
    BY <2>1, <2>2 DEF FdOfCur
<1>3. QED
  BY <1>1, <1>2

(* The insertion destroys at most what an entry owned.                     *)
LEMMA InsertConnectionKeepsKernel ==
  ASSUME KernelInv, NEW l \in Loops, InsertConnection(l), UNCHANGED closing
  PROVE  KernelInv'
<1> DEFINE c == cur[l]
           fd == fdOf[c]
<1> USE DEF KernelInv, CodeTypeOK, ReactorTypeOK
<1>1. /\ pc[l] = "insert"
      /\ c \in Conns
      /\ fd \in Fds
      /\ open[fd] = c
      /\ object[c] # "none"
  BY DEF InsertConnection, InsertingInv, OpenAtHand, AtHome, FdOfCur
<1>2. PICK p \in {"accept", "run"} : pc' = [pc EXCEPT ![l] = p]
  BY DEF InsertConnection
<1>3. /\ connections_' = [connections_ EXCEPT ![fd] = c]
      /\ object' = [d \in Conns |-> IF d = connections_[fd] THEN "freed"
                                    ELSE object[d]]
      /\ cur' = [cur EXCEPT ![l] = NoConn]
      /\ UNCHANGED <<kernel, loopOf, registered, deaf, next_, active, tasks,
                     turn>>
  BY <1>1 DEF InsertConnection, DestroyOwnedBy, FdOfCur
<1>4. \A d \in Conns : object'[d] = "none" <=> object[d] = "none"
  BY <1>1, <1>3, ReactorAssumption DEF CreatedInv
<1> USE DEF kernel
<1> HIDE DEF c, fd
<1>5. CodeTypeOK'
  BY <1>1, <1>2, <1>3 DEF LoopPC
<1>6. BacklogInv' /\ TableInv' /\ EventInv'
  BY <1>3, <1>4 DEF BacklogInv, TableInv, EventInv
<1>7. CreatedInv'
  BY <1>1, <1>3, <1>4, ReactorAssumption DEF CreatedInv
<1>8. RegisteredInv'
  BY <1>3, <1>4 DEF RegisteredInv
<1>9. \A k \in Loops : k # l => /\ cur'[k] = cur[k] /\ pc'[k] = pc[k]
                                /\ FdOfCur(k)' = FdOfCur(k)
                                /\ OpenAtHand(k) => OpenAtHand(k)'
                                /\ cur[k] \in Conns /\ AtHome(k) => AtHome(k)'
  BY <1>2, <1>3, <1>4 DEF OpenAtHand, FdOfCur, AtHome
<1>10. pc'[l] \in {"accept", "run"}
  BY <1>2
<1>11. \A k \in Loops : Creating(k)' => Creating(k) /\ k # l
  BY <1>9, <1>10 DEF Creating
<1>12. CreatingInv'
  BY <1>3, <1>4, <1>9, <1>11 DEF CreatingInv, OpenAtHand
<1>13. InsertingInv' /\ ClosingInv' /\ LeavingInv'
  BY <1>3, <1>9, <1>10 DEF InsertingInv, ClosingInv, LeavingInv, OpenAtHand
<1>14. HandlingInv'
  BY <1>3, <1>9, <1>10 DEF HandlingInv, OpenAtHand
<1>15. QueueInv' /\ QueueDistinct'
  BY <1>3, <1>4, <1>9, <1>11, QueueKept
<1>16. TurnInv'
  BY <1>3 DEF TurnInv
<1>17. QED
  BY <1>5, <1>6, <1>7, <1>8, <1>12, <1>13, <1>14, <1>15, <1>16

(* The first functor is taken: the others move up.                         *)
LEMMA TakenTask ==
  ASSUME KernelInv, NEW l \in Loops, pc[l] = "run", turn[l] > 0, TaskTaken(l)
  PROVE  /\ tasks' \in [Loops -> Seq(Task)]
         /\ turn' \in [Loops -> Nat]
         /\ TurnInv'
         /\ 1 \in 1 .. Len(tasks[l])
         /\ Head(tasks[l]) = tasks[l][1]
         /\ \A i \in 1 .. Len(tasks'[l]) :
              i + 1 \in 1 .. Len(tasks[l]) /\ tasks'[l][i] = tasks[l][i + 1]
         /\ \A k \in Loops : k # l => tasks'[k] = tasks[k]
<1> USE DEF KernelInv, CodeTypeOK, ReactorTypeOK, TaskTaken
<1>1. tasks[l] \in Seq(Task) /\ turn[l] \in Nat /\ turn[l] <= Len(tasks[l])
  BY DEF TurnInv
<1>2. 1 \in 1 .. Len(tasks[l]) /\ tasks[l] # <<>>
  BY <1>1
<1>3. \A s \in Seq(Task) : s # <<>> =>
        /\ Head(s) = s[1]
        /\ Tail(s) \in Seq(Task)
        /\ Len(Tail(s)) = Len(s) - 1
        /\ \A i \in 1 .. Len(s) - 1 : Tail(s)[i] = s[i + 1]
  OBVIOUS
<1>4. tasks' = [tasks EXCEPT ![l] = Tail(@)] /\ turn' = [turn EXCEPT ![l] = @ - 1]
  OBVIOUS
<1>5. PICK t : t = Tail(tasks[l])
  OBVIOUS
<1>6. /\ t \in Seq(Task)
      /\ Len(t) = Len(tasks[l]) - 1
      /\ \A i \in 1 .. Len(tasks[l]) - 1 : t[i] = tasks[l][i + 1]
  BY <1>1, <1>2, <1>3, <1>5
<1>7. tasks' = [tasks EXCEPT ![l] = t]
  BY <1>4, <1>5
<1>8. tasks'[l] = t /\ \A k \in Loops : k # l => tasks'[k] = tasks[k]
  BY <1>7
<1>9. tasks' \in [Loops -> Seq(Task)]
  BY <1>6, <1>7
<1>10. turn' \in [Loops -> Nat] /\ TurnInv'
  BY <1>1, <1>4, <1>6, <1>8 DEF TurnInv
<1>11. \A i \in 1 .. Len(tasks'[l]) :
         i + 1 \in 1 .. Len(tasks[l]) /\ tasks'[l][i] = tasks[l][i + 1]
  BY <1>1, <1>6, <1>8
<1>12. QED
  BY <1>1, <1>2, <1>3, <1>8, <1>9, <1>10, <1>11

(* The queues keep their properties when functors leave them, whatever     *)
(* the step may destroy.                                                   *)
LEMMA QueueShrunk ==
  ASSUME KernelInv, NEW l \in Loops, pc[l] = "run", turn[l] > 0, TaskTaken(l),
         UNCHANGED <<open, fdOf>>,
         \A d \in Conns : object[d] = "none" => object'[d] = "none",
         \A k \in Loops : Creating(k)' =>
           \/ Creating(k) /\ cur'[k] = cur[k]
           \/ FdOfCur(k)' = tasks[l][1].fd /\ Queued(l, 1, "create")
  PROVE  QueueInv' /\ QueueDistinct'
<1>1. \A k \in Loops : \A i \in 1 .. Len(tasks'[k]) :
        \E j \in 1 .. Len(tasks[k]) :
          /\ tasks'[k][i] = tasks[k][j]
          /\ IF k = l THEN j = i + 1 ELSE j = i
  BY TakenTask
<1>2. QueueDistinct'
  <2> SUFFICES ASSUME NEW k \in Loops, NEW m \in Loops,
                      NEW i \in 1 .. Len(tasks'[k]),
                      NEW j \in 1 .. Len(tasks'[m]),
                      Queued(k, i, "create")', Queued(m, j, "create")',
                      tasks'[k][i].fd = tasks'[m][j].fd
               PROVE  k = m /\ i = j
    BY DEF QueueDistinct
  <2>1. PICK p \in 1 .. Len(tasks[k]) :
          tasks'[k][i] = tasks[k][p] /\ IF k = l THEN p = i + 1 ELSE p = i
    BY <1>1
  <2>2. PICK q \in 1 .. Len(tasks[m]) :
          tasks'[m][j] = tasks[m][q] /\ IF m = l THEN q = j + 1 ELSE q = j
    BY <1>1
  <2>3. k = m /\ p = q
    BY <2>1, <2>2 DEF KernelInv, QueueDistinct, Queued
  <2>4. QED
    BY <2>1, <2>2, <2>3
<1>3. QueueInv'
  <2> SUFFICES ASSUME NEW k \in Loops, NEW i \in 1 .. Len(tasks'[k]),
                      Queued(k, i, "create")'
               PROVE  /\ open[tasks'[k][i].fd] # NoConn
                      /\ object'[open[tasks'[k][i].fd]] = "none"
                      /\ \A m \in Loops : Creating(m)' =>
                           FdOfCur(m)' # tasks'[k][i].fd
    BY DEF QueueInv
  <2>1. PICK j \in 1 .. Len(tasks[k]) :
          tasks'[k][i] = tasks[k][j] /\ IF k = l THEN j = i + 1 ELSE j = i
    BY <1>1
  <2>2. Queued(k, j, "create")
    BY <2>1 DEF Queued
  <2>3. /\ tasks[k][j].fd \in Fds
        /\ open[tasks[k][j].fd] # NoConn
        /\ object[open[tasks[k][j].fd]] = "none"
        /\ \A m \in Loops : Creating(m) => FdOfCur(m) # tasks[k][j].fd
    BY <2>2, TaskNumbers DEF KernelInv, QueueInv
  <2>4. object'[open[tasks[k][j].fd]] = "none"
    BY <2>3 DEF KernelInv, CodeTypeOK, ReactorTypeOK
  <2>5. ASSUME NEW m \in Loops, Creating(m)'
        PROVE  FdOfCur(m)' # tasks[k][j].fd
    <3>1. CASE Creating(m) /\ cur'[m] = cur[m]
      BY <2>3, <3>1 DEF FdOfCur
    <3>2. CASE FdOfCur(m)' = tasks[l][1].fd /\ Queued(l, 1, "create")
      <4>1. 1 \in 1 .. Len(tasks[l])
        BY TakenTask
      <4>2. ~(k = l /\ j = 1)
        BY <2>1
      <4>3. tasks[k][j].fd # tasks[l][1].fd
        BY <2>2, <3>2, <4>1, <4>2 DEF KernelInv, QueueDistinct
      <4>4. QED
        BY <3>2, <4>3
    <3>3. QED
      BY <2>5, <3>1, <3>2
  <2>6. QED
    BY <2>1, <2>3, <2>4, <2>5
<1>4. QED
  BY <1>2, <1>3

(* The functor taken from the queue creates what no other thread creates.  *)
LEMMA RunCreateKeepsKernel ==
  ASSUME KernelInv, NEW l \in Loops, RunCreate(l), UNCHANGED closing
  PROVE  KernelInv'
<1> DEFINE fd == tasks[l][1].fd
           c == open[fd]
<1> USE DEF KernelInv, CodeTypeOK, ReactorTypeOK
<1>1. pc[l] = "run" /\ turn[l] > 0 /\ TaskTaken(l)
  BY DEF RunCreate, NextTaskIs
<1>2. 1 \in 1 .. Len(tasks[l]) /\ Head(tasks[l]) = tasks[l][1]
  BY <1>1, TakenTask
<1>3. Queued(l, 1, "create")
  BY <1>2 DEF RunCreate, NextTaskIs, Queued
<1>4. /\ fd \in Fds
      /\ c \in Conns
      /\ fdOf[c] = fd
      /\ object[c] = "none"
      /\ \A k \in Loops : Creating(k) => FdOfCur(k) # fd
  BY <1>2, <1>3, TaskNumbers DEF QueueInv, TableInv
<1>5. /\ cur' = [cur EXCEPT ![l] = c]
      /\ pc' = [pc EXCEPT ![l] = "create"]
      /\ UNCHANGED <<kernel, objects, next_, active>>
  BY <1>2 DEF RunCreate
<1>6. /\ tasks' \in [Loops -> Seq(Task)]
      /\ turn' \in [Loops -> Nat]
      /\ TurnInv'
  BY <1>1, TakenTask
<1> USE DEF kernel, objects
<1> HIDE DEF c, fd
<1>7. CodeTypeOK'
  BY <1>4, <1>5, <1>6 DEF LoopPC
<1>8. BacklogInv' /\ TableInv' /\ CreatedInv' /\ RegisteredInv' /\ EventInv'
  BY <1>5 DEF BacklogInv, TableInv, CreatedInv, RegisteredInv, EventInv
<1>9. \A k \in Loops : k # l => /\ cur'[k] = cur[k] /\ pc'[k] = pc[k]
                                /\ FdOfCur(k)' = FdOfCur(k)
                                /\ OpenAtHand(k) => OpenAtHand(k)'
                                /\ AtHome(k) => AtHome(k)'
  BY <1>5 DEF OpenAtHand, FdOfCur, AtHome
<1>10. FdOfCur(l)' = fd /\ OpenAtHand(l)' /\ pc'[l] = "create" /\ cur'[l] = c
  BY <1>4, <1>5 DEF OpenAtHand, FdOfCur, c
<1>11. CreatingInv'
  BY <1>4, <1>5, <1>9, <1>10 DEF CreatingInv, Creating, FdOfCur
<1>12. InsertingInv' /\ ClosingInv' /\ LeavingInv'
  BY <1>5, <1>9, <1>10 DEF InsertingInv, ClosingInv, LeavingInv
<1>13. HandlingInv'
  BY <1>5, <1>9, <1>10 DEF HandlingInv
<1>14. QueueInv' /\ QueueDistinct'
  <2>1. \A k \in Loops : Creating(k)' =>
          \/ Creating(k) /\ cur'[k] = cur[k]
          \/ FdOfCur(k)' = tasks[l][1].fd /\ Queued(l, 1, "create")
    BY <1>3, <1>9, <1>10 DEF Creating, fd
  <2>2. QED
    BY <1>1, <1>5, <2>1, QueueShrunk
<1>15. QED
  BY <1>6, <1>7, <1>8, <1>11, <1>12, <1>13, <1>14

----------------------------------------------------------------------------
(* removeConnection, step by step.                                         *)
LEMMA RemoveConnectionKeepsKernel ==
  ASSUME KernelInv, NEW l \in Loops, RemoveConnection(l)
  PROVE  KernelInv'
<1> DEFINE c == cur[l]
<1> USE DEF KernelInv, CodeTypeOK, ReactorTypeOK
<1>1. /\ pc[l] = "handler"
      /\ c \in Conns
      /\ loopOf[c] = l
      /\ object[c] # "none"
      /\ c \notin active[l]
  BY DEF RemoveConnection, HandlingInv, OpenAtHand, AtHome
<1>2. /\ closing' = [closing EXCEPT ![c] = TRUE]
      /\ registered' = registered \ {c}
      /\ pc' = [pc EXCEPT ![l] = "close"]
      /\ UNCHANGED <<kernel, object, loopOf, deaf, connections_, next_, active,
                     cur, tasks, turn>>
  BY DEF RemoveConnection, DisableAll
<1> USE DEF kernel
<1>3. CodeTypeOK'
  BY <1>2 DEF LoopPC
<1>4. BacklogInv' /\ TableInv' /\ CreatedInv'
  BY <1>1, <1>2 DEF BacklogInv, TableInv, CreatedInv
<1>5. RegisteredInv' /\ EventInv'
  BY <1>1, <1>2 DEF RegisteredInv, EventInv
<1>6. CreatingInv' /\ InsertingInv' /\ LeavingInv'
  BY <1>2
     DEF CreatingInv, InsertingInv, LeavingInv, Creating, OpenAtHand, AtHome,
         FdOfCur
<1>7. HandlingInv' /\ ClosingInv'
  BY <1>1, <1>2 DEF HandlingInv, ClosingInv, OpenAtHand, AtHome, FdOfCur
<1>8. QueueInv' /\ QueueDistinct'
  BY <1>2, QueueKept DEF Creating
<1>9. TurnInv'
  BY <1>2 DEF TurnInv
<1>10. QED
  BY <1>3, <1>4, <1>5, <1>6, <1>7, <1>8, <1>9

(* close() closes the descriptor of this very connection.                  *)
LEMMA CloseFdKeepsKernel ==
  ASSUME KernelInv, NEW l \in Loops, CloseFd(l)
  PROVE  KernelInv'
<1> DEFINE c == cur[l]
           fd == fdOf[c]
<1> USE DEF KernelInv, CodeTypeOK, ReactorTypeOK
<1>1. /\ pc[l] = "close"
      /\ c \in Conns
      /\ fd \in Fds
      /\ open[fd] = c
      /\ object[c] # "none"
      /\ closing[c]
      /\ c \notin registered
      /\ loopOf[c] = l
  BY DEF CloseFd, ClosingInv, OpenAtHand, AtHome, FdOfCur
<1>2. /\ open' = [open EXCEPT ![fd] = NoConn]
      /\ registered' = registered
      /\ pc' = [pc EXCEPT ![l] = "queue"]
      /\ UNCHANGED <<peer, fdOf, object, loopOf, deaf, connections_, next_,
                     active, cur, tasks, turn, closing>>
  BY <1>1 DEF CloseFd, FdOfCur
<1>3. \A f \in Fds : open[f] = c => f = fd
  BY <1>1, ReactorAssumption DEF TableInv
<1>4. \A k \in Loops : cur[k] = c /\ AtHome(k) => k = l
  BY <1>1 DEF AtHome
<1> HIDE DEF c, fd
<1>5. CodeTypeOK'
  BY <1>1, <1>2 DEF LoopPC
<1>6. BacklogInv' /\ TableInv' /\ CreatedInv' /\ EventInv'
  BY <1>1, <1>2, ReactorAssumption
     DEF BacklogInv, TableInv, CreatedInv, EventInv
<1>7. RegisteredInv'
  BY <1>1, <1>2, <1>3, ReactorAssumption DEF RegisteredInv
<1>8. \A k \in Loops : /\ cur'[k] = cur[k]
                       /\ FdOfCur(k)' = FdOfCur(k)
                       /\ k # l => pc'[k] = pc[k]
                       /\ AtHome(k)' <=> AtHome(k)
                       /\ OpenAtHand(k) /\ cur[k] # c => OpenAtHand(k)'
  BY <1>1, <1>2 DEF OpenAtHand, FdOfCur, AtHome
<1>9. pc'[l] = "queue"
  BY <1>1, <1>2
<1>10. CreatingInv'
  <2>1. \A k \in Loops : Creating(k)' => Creating(k) /\ cur[k] # c
    BY <1>1, <1>8, <1>9 DEF CreatingInv, Creating
  <2>2. QED
    BY <1>2, <1>8, <2>1 DEF CreatingInv
<1>11. InsertingInv' /\ ClosingInv'
  BY <1>2, <1>4, <1>8, <1>9 DEF InsertingInv, ClosingInv
<1>12. HandlingInv'
  BY <1>2, <1>4, <1>8, <1>9 DEF HandlingInv
<1>13. LeavingInv'
  <2>1. ASSUME NEW k \in Loops, k # l, pc[k] \in {"queue", "return"}
        PROVE  open'[FdOfCur(k)] # cur[k]
    BY <1>1, <1>2, <2>1, ReactorAssumption DEF LeavingInv
  <2>2. /\ cur[l] \in Conns /\ FdOfCur(l) \in Fds /\ AtHome(l) /\ closing[cur[l]]
        /\ open'[FdOfCur(l)] # cur[l]
    BY <1>1, <1>2, ReactorAssumption DEF AtHome, FdOfCur, c, fd
  <2>3. QED
    BY <1>2, <1>8, <1>9, <2>1, <2>2 DEF LeavingInv
<1>14. QueueInv'
  <2> SUFFICES ASSUME NEW k \in Loops, NEW i \in 1 .. Len(tasks[k]),
                      Queued(k, i, "create")
               PROVE  /\ open'[tasks[k][i].fd] # NoConn
                      /\ object[open'[tasks[k][i].fd]] = "none"
                      /\ \A m \in Loops : Creating(m)' =>
                           FdOfCur(m)' # tasks[k][i].fd
    BY <1>2 DEF QueueInv, Queued
  <2>1. /\ tasks[k][i].fd \in Fds
        /\ open[tasks[k][i].fd] # NoConn
        /\ object[open[tasks[k][i].fd]] = "none"
        /\ \A m \in Loops : Creating(m) => FdOfCur(m) # tasks[k][i].fd
    BY TaskNumbers DEF QueueInv
  <2>2. tasks[k][i].fd # fd
    BY <1>1, <2>1
  <2>3. \A m \in Loops : Creating(m)' => Creating(m)
    BY <1>8, <1>9 DEF Creating
  <2>4. QED
    BY <1>2, <1>8, <2>1, <2>2, <2>3
<1>15. QueueDistinct' /\ TurnInv'
  <2>1. QueueDistinct /\ TurnInv
    OBVIOUS
  <2> HIDE DEF KernelInv, CodeTypeOK, ReactorTypeOK
  <2>2. QED
    BY <1>2, <2>1 DEF QueueDistinct, Queued, TurnInv
<1>16. QED
  BY <1>5, <1>6, <1>7, <1>10, <1>11, <1>12, <1>13, <1>14, <1>15

LEMMA QueueEraseKeepsKernel ==
  ASSUME KernelInv, NEW l \in Loops, QueueErase(l)
  PROVE  KernelInv'
<1> DEFINE task == [kind |-> "erase", fd |-> FdOfCur(l)]
<1> USE DEF KernelInv, CodeTypeOK, ReactorTypeOK
<1>1. pc[l] = "queue" /\ loopOf[cur[l]] = l /\ FdOfCur(l) \in Fds
  BY DEF QueueErase, LeavingInv, AtHome
<1>2. /\ tasks' = [tasks EXCEPT ![l] = Append(@, task)]
      /\ pc' = [pc EXCEPT ![l] = "return"]
      /\ UNCHANGED <<kernel, objects, next_, active, cur, turn, closing>>
  BY <1>1 DEF QueueErase, QueueInLoop
<1>3. task \in Task /\ task.kind # "create"
  BY <1>1 DEF Task
<1> HIDE DEF task
<1>4. /\ tasks' \in [Loops -> Seq(Task)]
      /\ \A k \in Loops : \A i \in 1 .. Len(tasks'[k]) :
           \/ i \in 1 .. Len(tasks[k]) /\ tasks'[k][i] = tasks[k][i]
           \/ k = l /\ i = Len(tasks[l]) + 1 /\ tasks'[k][i] = task
      /\ \A k \in Loops : Len(tasks[k]) <= Len(tasks'[k])
  BY <1>2, <1>3, AppendedTask
<1> USE DEF kernel, objects
<1>5. CodeTypeOK'
  BY <1>2, <1>4 DEF LoopPC
<1>6. BacklogInv' /\ TableInv' /\ CreatedInv' /\ RegisteredInv' /\ EventInv'
  BY <1>2 DEF BacklogInv, TableInv, CreatedInv, RegisteredInv, EventInv
<1>7. CreatingInv' /\ InsertingInv' /\ ClosingInv' /\ LeavingInv'
  BY <1>1, <1>2
     DEF CreatingInv, InsertingInv, ClosingInv, LeavingInv, Creating,
         OpenAtHand, AtHome, FdOfCur
<1>8. HandlingInv'
  BY <1>2 DEF HandlingInv, OpenAtHand, AtHome, FdOfCur
<1>9. \A k \in Loops : \A i \in 1 .. Len(tasks'[k]) :
        Queued(k, i, "create")' =>
          /\ Queued(k, i, "create")
          /\ i \in 1 .. Len(tasks[k])
          /\ tasks'[k][i] = tasks[k][i]
  BY <1>3, <1>4 DEF Queued
<1>10. \A m \in Loops : Creating(m)' => Creating(m)
  BY <1>2 DEF Creating
<1>11. QueueInv'
  BY <1>2, <1>9, <1>10 DEF QueueInv, FdOfCur
<1>12. QueueDistinct'
  BY <1>9 DEF QueueDistinct
<1>13. TurnInv'
  <2>1. \A k \in Loops : turn[k] \in Nat /\ Len(tasks[k]) \in Nat
                         /\ Len(tasks'[k]) \in Nat
    BY <1>4
  <2>2. QED
    BY <1>2, <1>4, <2>1 DEF TurnInv
<1>14. QED
  BY <1>5, <1>6, <1>7, <1>8, <1>11, <1>12, <1>13

(* The erase takes the entry that the key has by now, whatever it is.      *)
LEMMA RunEraseKeepsKernel ==
  ASSUME KernelInv, NEW l \in Loops, RunErase(l)
  PROVE  KernelInv'
<1> DEFINE fd == tasks[l][1].fd
<1> USE DEF KernelInv, CodeTypeOK, ReactorTypeOK
<1>1. pc[l] = "run" /\ turn[l] > 0 /\ TaskTaken(l)
  BY DEF RunErase, NextTaskIs
<1>2. 1 \in 1 .. Len(tasks[l]) /\ Head(tasks[l]) = tasks[l][1]
  BY <1>1, TakenTask
<1>3. fd \in Fds
  BY <1>2, TaskNumbers
<1>4. /\ connections_' = [connections_ EXCEPT ![fd] = NoConn]
      /\ object' = [d \in Conns |-> IF d = connections_[fd] THEN "freed"
                                    ELSE object[d]]
      /\ UNCHANGED <<kernel, loopOf, registered, deaf, next_, pc, active, cur,
                     closing>>
  BY <1>2 DEF RunErase, DestroyOwnedBy
<1>5. \A d \in Conns : object'[d] = "none" <=> object[d] = "none"
  BY <1>3, <1>4, ReactorAssumption DEF CreatedInv
<1>6. /\ tasks' \in [Loops -> Seq(Task)]
      /\ turn' \in [Loops -> Nat]
      /\ TurnInv'
  BY <1>1, TakenTask
<1> USE DEF kernel
<1> HIDE DEF fd
<1>7. CodeTypeOK'
  BY <1>3, <1>4, <1>6 DEF LoopPC
<1>8. BacklogInv' /\ TableInv' /\ RegisteredInv' /\ EventInv'
  BY <1>4, <1>5 DEF BacklogInv, TableInv, RegisteredInv, EventInv
<1>9. CreatedInv'
  BY <1>3, <1>4, <1>5 DEF CreatedInv
<1>10. \A k \in Loops : /\ FdOfCur(k)' = FdOfCur(k)
                        /\ OpenAtHand(k)' <=> OpenAtHand(k)
                        /\ cur[k] \in Conns => (AtHome(k)' <=> AtHome(k))
                        /\ Creating(k)' <=> Creating(k)
  BY <1>4, <1>5 DEF OpenAtHand, AtHome, FdOfCur, Creating
<1>11. CreatingInv'
  BY <1>4, <1>5, <1>10 DEF CreatingInv, OpenAtHand
<1>12. InsertingInv' /\ ClosingInv' /\ LeavingInv'
  BY <1>4, <1>10 DEF InsertingInv, ClosingInv, LeavingInv, OpenAtHand
<1>13. HandlingInv'
  BY <1>4, <1>10 DEF HandlingInv, OpenAtHand
<1>14. QueueInv' /\ QueueDistinct'
  BY <1>1, <1>4, <1>5, <1>10, QueueShrunk
<1>15. QED
  BY <1>6, <1>7, <1>8, <1>9, <1>11, <1>12, <1>13, <1>14

----------------------------------------------------------------------------
LEMMA InitKernel == Init => KernelInv
<1> SUFFICES ASSUME Init
             PROVE  KernelInv
  OBVIOUS
<1> USE ReactorAssumption DEF Init, ReactorInit
<1>1. CodeTypeOK
  BY DEF CodeTypeOK, ReactorTypeOK, LoopPC, Loops, mainLoop_
<1>2. BacklogInv /\ TableInv /\ CreatedInv /\ RegisteredInv /\ EventInv
  BY DEF BacklogInv, TableInv, CreatedInv, RegisteredInv, EventInv
<1>3. CreatingInv /\ InsertingInv /\ HandlingInv /\ ClosingInv /\ LeavingInv
  BY DEF CreatingInv, InsertingInv, HandlingInv, ClosingInv, LeavingInv, Creating
<1>4. QueueInv /\ QueueDistinct /\ TurnInv
  BY DEF QueueInv, QueueDistinct, TurnInv, Queued
<1>5. QED
  BY <1>1, <1>2, <1>3, <1>4 DEF KernelInv

LEMMA NextKeepsKernel ==
  ASSUME KernelInv, [Next]_serverVars, ~corrupt'
  PROVE  KernelInv'
<1>1. ASSUME NEW c \in Conns, Connect(c), UNCHANGED closing
      PROVE  KernelInv'
  BY <1>1, ConnectKeepsKernel
<1>2. ASSUME NEW l \in Loops, ReactorLoopStep(l), UNCHANGED closing
      PROVE  KernelInv'
  <2>1. ASSUME NEW c \in Conns, HandleEvent(l, c)
        PROVE  KernelInv'
    BY <1>2, <2>1, HandleEventKeepsKernel
  <2>2. QED
    BY <1>2, <2>1, EpollWaitKeepsKernel, HandlerReturnsKeepsKernel,
       CreateConnectionKeepsKernel, InsertConnectionKeepsKernel,
       RunCreateKeepsKernel, ControlStepKeepsKernel
       DEF ReactorLoopStep
<1>3. ASSUME NEW l \in Loops, AcceptorStep, UNCHANGED closing
      PROVE  KernelInv'
  BY <1>3, HandleListenKeepsKernel, AcceptKeepsKernel, ControlStepKeepsKernel,
     OnNewConnectionKeepsKernel
     DEF AcceptorStep
<1>4. ASSUME NEW l \in Loops,
             RemoveConnection(l) \/ CloseFd(l) \/ QueueErase(l) \/ RunErase(l)
      PROVE  KernelInv'
  BY <1>4, RemoveConnectionKeepsKernel, CloseFdKeepsKernel,
     QueueEraseKeepsKernel, RunEraseKeepsKernel
<1>5. CASE UNCHANGED serverVars
  BY <1>5
     DEF serverVars, reactorVars, kernel, objects, loops, KernelInv, CodeTypeOK,
         ReactorTypeOK, BacklogInv, TableInv, CreatedInv, RegisteredInv,
         EventInv, CreatingInv, InsertingInv, HandlingInv, ClosingInv,
         LeavingInv, Creating, OpenAtHand, AtHome, FdOfCur, QueueInv,
         QueueDistinct, TurnInv, Queued
<1>6. QED
  BY <1>1, <1>2, <1>3, <1>4, <1>5 DEF Next, LoopStep, UseDestroyed

(* Nothing but clients moves once a destroyed object has been used.        *)
LEMMA CorruptStays ==
  ASSUME corrupt, [Next]_serverVars
  PROVE  corrupt' /\ (UNCHANGED serverVars \/ \E c \in Conns : Connect(c))
BY DEF Next, LoopStep, serverVars

LEMMA NextKeepsTypes ==
  ASSUME TypeOK, corrupt \/ KernelInv, [Next]_serverVars
  PROVE  TypeOK'
<1> USE DEF TypeOK
<1>1. CASE corrupt
  <2>1. UNCHANGED serverVars \/ \E c \in Conns : Connect(c)
    BY <1>1, CorruptStays
  <2>2. UNCHANGED <<closing, reused, corrupt>>
    BY <1>1 DEF Next, LoopStep, serverVars
  <2>3. CASE UNCHANGED serverVars
    BY <2>3 DEF serverVars, reactorVars, kernel, objects, loops, ReactorTypeOK
  <2>4. ASSUME NEW c \in Conns, Connect(c)
        PROVE  ReactorTypeOK'
    BY <2>4 DEF Connect, objects, loops, ReactorTypeOK
  <2>5. QED
    BY <2>1, <2>2, <2>3, <2>4
<1>2. ASSUME NEW l \in Loops, UseDestroyed(l)
      PROVE  TypeOK'
  BY <1>2 DEF UseDestroyed, objects, loops, ReactorTypeOK
<1>3. CASE ~corrupt'
  <2>1. KernelInv
    BY <1>3, CorruptStays
  <2>2. ReactorTypeOK' /\ closing' \in [Conns -> BOOLEAN]
    BY <1>3, <2>1, NextKeepsKernel DEF KernelInv, CodeTypeOK
  <2>3. reused' \subseteq Fds
    <3>1. UNCHANGED reused \/ RecordReuse
      BY DEF Next, LoopStep, UseDestroyed, serverVars
    <3>2. QED
      BY <3>1 DEF RecordReuse
  <2>4. UNCHANGED corrupt \/ corrupt' = TRUE
    BY DEF Next, LoopStep, UseDestroyed, serverVars
  <2>5. QED
    BY <2>2, <2>3, <2>4
<1>4. ~corrupt /\ corrupt' => \E l \in Loops : UseDestroyed(l)
  BY DEF Next, LoopStep, serverVars
<1>5. QED
  BY <1>1, <1>2, <1>3, <1>4

LEMMA KernelCorrect == Spec => [](TypeOK /\ (corrupt \/ KernelInv))
<1>1. Init => TypeOK /\ KernelInv
  BY InitKernel DEF Init, TypeOK, KernelInv, CodeTypeOK
<1>2. TypeOK /\ (corrupt \/ KernelInv) /\ [Next]_serverVars =>
        (TypeOK /\ (corrupt \/ KernelInv))'
  BY NextKeepsTypes, NextKeepsKernel, CorruptStays
<1>3. QED
  BY <1>1, <1>2, PTL DEF Spec

(* The types hold, the round-robin index stays below the number of loops   *)
(* and every functor has a descriptor's number.                            *)
THEOREM TypeCorrect == Spec => []TypeOK
BY KernelCorrect, PTL

(* Until a thread uses a destroyed object, a descriptor is only ever       *)
(* closed by the thread that is removing its own connection, after         *)
(* removeConnection has taken it out of epoll (HttpServer.cpp:186-188): a  *)
(* late or second close() does not hit the connection that has the number  *)
(* by then, even when it has been reused.                                  *)
ClosedByItsOwner ==
  \A f \in Fds : open[f] # NoConn /\ open'[f] # open[f] =>
    /\ open'[f] = NoConn
    /\ closing[open[f]]
    /\ \E l \in Loops : /\ pc[l] = "close"
                        /\ cur[l] = open[f]
                        /\ loopOf[cur[l]] = l

THEOREM CloseCorrect == Spec => [][ClosedByItsOwner \/ corrupt']_serverVars
<1>1. (corrupt \/ KernelInv) /\ [Next]_serverVars =>
        [ClosedByItsOwner \/ corrupt']_serverVars
  <2> SUFFICES ASSUME corrupt \/ KernelInv, [Next]_serverVars, ~corrupt'
               PROVE  ClosedByItsOwner
    OBVIOUS
  <2>0. KernelInv
    BY CorruptStays
  <2>1. ASSUME NEW l \in Loops, CloseFd(l)
        PROVE  ClosedByItsOwner
    <3>1. /\ pc[l] = "close" /\ OpenAtHand(l) /\ AtHome(l) /\ closing[cur[l]]
          /\ open' = [open EXCEPT ![FdOfCur(l)] = NoConn]
      BY <2>0, <2>1 DEF CloseFd, KernelInv, ClosingInv
    <3>2. open \in [Fds -> Conns \cup {NoConn}]
      BY <2>0 DEF KernelInv, CodeTypeOK, ReactorTypeOK
    <3>3. QED
      BY <3>1, <3>2 DEF ClosedByItsOwner, OpenAtHand, AtHome
  <2>2. ASSUME NEW c \in Conns, Accept(c)
        PROVE  ClosedByItsOwner
    <3>1. PICK fd \in Fds : open[fd] = NoConn /\ open' = [open EXCEPT ![fd] = c]
      BY <2>2 DEF Accept, LowestFree, FreeFds
    <3>2. open \in [Fds -> Conns \cup {NoConn}]
      BY <2>0 DEF KernelInv, CodeTypeOK, ReactorTypeOK
    <3>3. QED
      BY <3>1, <3>2 DEF ClosedByItsOwner
  <2>3. CASE UNCHANGED open
    BY <2>3 DEF ClosedByItsOwner
  <2>4. ASSUME NEW l \in Loops, ReactorLoopStep(l)
        PROVE  UNCHANGED open
    BY <2>4
       DEF ReactorLoopStep, EpollWait, HandleEvent, HandlerReturns,
           CreateConnection, InsertConnection, SwapFunctors, RunCreate, EndRun,
           kernel
  <2>5. ASSUME NEW l \in Loops, RemoveConnection(l) \/ QueueErase(l) \/ RunErase(l)
        PROVE  UNCHANGED open
    BY <2>5 DEF RemoveConnection, QueueErase, RunErase, kernel
  <2>6. ASSUME AcceptorStep
        PROVE  ClosedByItsOwner
    <3>1. HandleListen \/ AcceptFails \/ OnNewConnection => UNCHANGED open
      BY DEF HandleListen, AcceptFails, OnNewConnection, kernel
    <3>2. QED
      BY <2>2, <2>3, <2>6, <3>1 DEF AcceptorStep
  <2>7. ASSUME NEW c \in Conns, Connect(c)
        PROVE  UNCHANGED open
    BY <2>7 DEF Connect
  <2>8. CASE UNCHANGED serverVars
    BY <2>3, <2>8 DEF serverVars, reactorVars, kernel
  <2>9. QED
    BY <2>1, <2>3, <2>4, <2>5, <2>6, <2>7, <2>8 DEF Next, LoopStep, UseDestroyed
<1>2. QED
  BY <1>1, KernelCorrect, PTL DEF Spec

----------------------------------------------------------------------------
(* The map, number by number, and each step as one in the life of a        *)
(* connection.  A step moves within one number, which keeps MapAt of the   *)
(* others.  When that number has been reused, ConnectionLife lets its      *)
(* connections change as they may (Confuse).                               *)

(* What the reactor knows of d.                                            *)
SameConn(d) ==
  /\ fdOf'[d] = fdOf[d]
  /\ object'[d] = object[d]
  /\ loopOf'[d] = loopOf[d]
  /\ closing'[d] = closing[d]
  /\ d \in registered' <=> d \in registered
  /\ d \in deaf' <=> d \in deaf

(* Erases of f that stay queued, or move up when functors before them      *)
(* leave.                                                                  *)
EraseKept(f, s) ==
  \A k \in Loops : \A i \in 1 .. Len(tasks'[k]) : ErasesOf(f, k, i)' =>
    /\ i + s[k] \in 1 .. Len(tasks[k])
    /\ ErasesOf(f, k, i + s[k])

(* A thread that begins a callback does so on the connection of the map.   *)
ThreadsKept(f) ==
  /\ \A k \in Loops : pc[k] \in {"insert", "close"} /\ FdOfCur(k) = f =>
       pc'[k] = pc[k] /\ cur'[k] = cur[k]
  /\ \A k \in Loops :
       (pc[k] = "insert" \/ InCallbackOf(k))' /\ FdOfCur(k)' = f =>
         \/ pc'[k] = pc[k] /\ cur'[k] = cur[k]
         \/ pc'[k] = "handler" /\ connections_[f] = cur'[k]

Untouched(f, s) ==
  /\ open'[f] = open[f]
  /\ connections_'[f] = connections_[f]
  /\ \A d \in Conns : fdOf[d] = f \/ fdOf'[d] = f => SameConn(d)
  /\ ThreadsKept(f)
  /\ EraseKept(f, s)

(* Threads at work on a connection.                                        *)
LEMMA ThreadsAtWork ==
  ASSUME KernelInv, NEW l \in Loops, pc[l] = "insert" \/ InCallbackOf(l)
  PROVE  /\ cur[l] \in Conns
         /\ FdOfCur(l) = fdOf[cur[l]]
         /\ FdOfCur(l) \in Fds
         /\ loopOf[cur[l]] = l
         /\ object[cur[l]] # "none"
         /\ pc[l] \in {"insert", "handler", "close"} =>
              open[FdOfCur(l)] = cur[l]
         /\ pc[l] \in {"queue", "return"} => open[FdOfCur(l)] # cur[l]
BY DEF KernelInv, InCallbackOf, InsertingInv, HandlingInv, ClosingInv,
       LeavingInv, OpenAtHand, AtHome, FdOfCur

LEMMA UntouchedKeeps ==
  ASSUME KernelInv, KernelInv', KeyInv, NEW f \in Fds, MapAt(f),
         NEW s \in [Loops -> Nat], Untouched(f, s)
  PROVE  MapAt(f)'
<1>1. /\ open'[f] = open[f]
      /\ connections_'[f] = connections_[f]
      /\ \A d \in Conns : fdOf[d] = f \/ fdOf'[d] = f => SameConn(d)
  BY DEF Untouched
<1>2. \A k \in Loops : pc[k] \in {"insert", "close"} /\ FdOfCur(k) = f =>
        pc'[k] = pc[k] /\ cur'[k] = cur[k]
  BY DEF Untouched, ThreadsKept
<1>3. \A k \in Loops :
        (pc[k] = "insert" \/ InCallbackOf(k))' /\ FdOfCur(k)' = f =>
          /\ cur'[k] \in Conns /\ SameConn(cur'[k])
          /\ \/ /\ pc'[k] = pc[k] /\ cur'[k] = cur[k]
                /\ FdOfCur(k) = f
             \/ pc'[k] = "handler" /\ connections_[f] = cur'[k]
  <2> SUFFICES ASSUME NEW k \in Loops,
                      (pc[k] = "insert" \/ InCallbackOf(k))', FdOfCur(k)' = f
               PROVE  /\ cur'[k] \in Conns /\ SameConn(cur'[k])
                      /\ \/ /\ pc'[k] = pc[k] /\ cur'[k] = cur[k]
                            /\ FdOfCur(k) = f
                         \/ pc'[k] = "handler" /\ connections_[f] = cur'[k]
    OBVIOUS
  <2>1. cur'[k] \in Conns /\ fdOf'[cur'[k]] = f
    BY ThreadsAtWork DEF InCallbackOf, KernelInv, InsertingInv, HandlingInv,
       ClosingInv, LeavingInv, OpenAtHand, FdOfCur
  <2>2. SameConn(cur'[k])
    BY <1>1, <2>1
  <2>3. fdOf[cur'[k]] = f
    BY <2>1, <2>2 DEF SameConn
  <2>4. \/ pc'[k] = pc[k] /\ cur'[k] = cur[k]
        \/ pc'[k] = "handler" /\ connections_[f] = cur'[k]
    BY DEF Untouched, ThreadsKept
  <2>5. QED
    BY <2>1, <2>2, <2>3, <2>4 DEF FdOfCur
<1>4. /\ connections_[f] \in Conns \cup {NoConn}
      /\ open[f] \in Conns \cup {NoConn}
      /\ \A d \in Conns : loopOf[d] \in Loops
      /\ deaf' \subseteq Conns /\ registered' \subseteq Conns
  BY DEF KernelInv, CodeTypeOK, ReactorTypeOK
<1>5. EntryAt(f)'
  <2> SUFFICES ASSUME NEW c \in Conns, c = connections_[f]
               PROVE  /\ object'[c] = "alive"
                      /\ open'[f] = c \/ (open'[f] = NoConn /\ closing'[c])
                      /\ \A l \in Loops : cur'[l] = c => pc'[l] # "insert"
    BY <1>1, <1>4 DEF EntryAt
  <2>1. fdOf[c] = f /\ SameConn(c) /\ c # NoConn
    BY <1>1, ReactorAssumption DEF KeyInv
  <2>2. /\ object[c] = "alive"
        /\ open[f] = c \/ (open[f] = NoConn /\ closing[c])
        /\ \A l \in Loops : cur[l] = c => pc[l] # "insert"
    BY <2>1 DEF MapAt, EntryAt
  <2>3. ASSUME NEW l \in Loops, cur'[l] = c, pc'[l] = "insert"
        PROVE  FALSE
    <3>1. FdOfCur(l)' = f
      BY <2>1, <2>3 DEF FdOfCur, SameConn
    <3>2. pc[l] = "insert" /\ cur[l] = c
      BY <1>3, <2>3, <3>1
    <3>3. QED
      BY <2>2, <3>2
  <2>4. QED
    BY <1>1, <2>1, <2>2, <2>3 DEF SameConn
<1>6. OwnedAt(f)'
  <2> SUFFICES ASSUME NEW c \in Conns, fdOf'[c] = f, object'[c] = "alive"
               PROVE  \/ connections_'[f] = c
                      \/ cur'[loopOf'[c]] = c /\ pc'[loopOf'[c]] = "insert"
    BY DEF OwnedAt
  <2>1. SameConn(c)
    BY <1>1
  <2>2. \/ connections_[f] = c
        \/ cur[loopOf[c]] = c /\ pc[loopOf[c]] = "insert"
    BY <2>1 DEF SameConn, MapAt, OwnedAt
  <2>3. ASSUME cur[loopOf[c]] = c, pc[loopOf[c]] = "insert"
        PROVE  cur'[loopOf[c]] = c /\ pc'[loopOf[c]] = "insert"
    <3>1. FdOfCur(loopOf[c]) = f
      BY <2>1, <2>3 DEF FdOfCur, SameConn
    <3>2. QED
      BY <1>2, <1>4, <2>3, <3>1
  <2>4. QED
    BY <1>1, <2>1, <2>2, <2>3 DEF SameConn
<1>7. AliveAt(f)'
  <2>1. \A c \in registered' : fdOf'[c] = f => object'[c] = "alive"
    BY <1>1, <1>4 DEF SameConn, MapAt, AliveAt
  <2>2. \A l \in Loops : pc'[l] = "insert" /\ FdOfCur(l)' = f =>
          object'[cur'[l]] = "alive"
    BY <1>3 DEF SameConn, MapAt, AliveAt
  <2>3. \A l \in Loops : InCallbackOf(l)' /\ FdOfCur(l)' = f =>
          connections_[f] = cur'[l]
    <3> SUFFICES ASSUME NEW l \in Loops, InCallbackOf(l)', FdOfCur(l)' = f
                 PROVE  connections_[f] = cur'[l]
      OBVIOUS
    <3>1. CASE pc'[l] = "handler" /\ connections_[f] = cur'[l]
      BY <3>1
    <3>2. CASE pc'[l] = pc[l] /\ cur'[l] = cur[l] /\ FdOfCur(l) = f
      BY <3>2 DEF InCallbackOf, MapAt, AliveAt
    <3>3. QED
      BY <1>3, <3>1, <3>2
  <2>4. QED
    BY <1>1, <2>1, <2>2, <2>3 DEF AliveAt
<1>8. DeafAt(f)'
  BY <1>1, <1>4 DEF SameConn, MapAt, DeafAt
<1>9. EraseAt(f)'
  <2> SUFFICES ASSUME NEW l \in Loops, NEW i \in 1 .. Len(tasks'[l]),
                      ErasesOf(f, l, i)'
               PROVE  /\ connections_'[f] # NoConn
                      /\ loopOf'[connections_'[f]] = l
                      /\ open'[f] = NoConn
                      /\ \A k \in Loops : pc'[k] = "queue" => FdOfCur(k)' # f
                      /\ \A k \in Loops : \A j \in 1 .. Len(tasks'[k]) :
                           ErasesOf(f, k, j)' => k = l /\ j = i
    BY DEF EraseAt
  <2>1. i + s[l] \in 1 .. Len(tasks[l]) /\ ErasesOf(f, l, i + s[l])
    BY DEF Untouched, EraseKept
  <2>2. /\ connections_[f] # NoConn
        /\ loopOf[connections_[f]] = l
        /\ open[f] = NoConn
        /\ \A k \in Loops : pc[k] = "queue" => FdOfCur(k) # f
    BY <2>1 DEF MapAt, EraseAt
  <2>3. loopOf'[connections_[f]] = l
    BY <1>1, <1>4, <2>2 DEF SameConn, KeyInv
  <2>4. \A k \in Loops : pc'[k] = "queue" => FdOfCur(k)' # f
    BY <1>3, <2>2 DEF InCallbackOf
  <2>5. ASSUME NEW k \in Loops, NEW j \in 1 .. Len(tasks'[k]),
               ErasesOf(f, k, j)'
        PROVE  k = l /\ j = i
    <3>1. j + s[k] \in 1 .. Len(tasks[k]) /\ ErasesOf(f, k, j + s[k])
      BY <2>5 DEF Untouched, EraseKept
    <3>2. k = l /\ j + s[k] = i + s[l]
      BY <2>1, <3>1 DEF MapAt, EraseAt
    <3>3. s[k] \in Nat /\ i \in Int /\ j \in Int
      OBVIOUS
    <3>4. QED
      BY <3>2, <3>3
  <2>6. QED
    BY <1>1, <2>2, <2>3, <2>4, <2>5
<1>10. ServedAt(f)'
  <2> SUFFICES ASSUME NEW c \in Conns, c = open[f]
               PROVE  \/ object'[c] = "none" \/ c \in deaf'
                      \/ /\ object'[c] = "alive"
                         /\ \/ c \in registered'
                            \/ \E l \in Loops : cur'[l] = c /\ pc'[l] = "close"
    BY <1>1, <1>4 DEF ServedAt
  <2>1. fdOf[c] = f /\ SameConn(c) /\ c # NoConn
    BY <1>1, ReactorAssumption DEF KernelInv, TableInv
  <2>2. ASSUME NEW l \in Loops, cur[l] = c, pc[l] = "close"
        PROVE  cur'[l] = c /\ pc'[l] = "close"
    BY <1>2, <2>1, <2>2 DEF FdOfCur
  <2>3. QED
    BY <2>1, <2>2 DEF SameConn, MapAt, ServedAt
<1>11. QED
  BY <1>5, <1>6, <1>7, <1>8, <1>9, <1>10 DEF MapAt

LEMMA MapKept ==
  ASSUME KernelInv, KernelInv', MapInv, KeyInv', reused \subseteq reused',
         NEW s \in [Loops -> Nat],
         \A f \in Fds \ reused' : Untouched(f, s) \/ MapAt(f)'
  PROVE  MapInv'
BY UntouchedKeeps DEF MapInv
----------------------------------------------------------------------------
LifeStep == Life!LifeNext

(* Stage(d) depends on what the reactor knows of d only.                   *)
LEMMA SameStage ==
  ASSUME NEW d \in Conns, SameConn(d), peer'[d] = peer[d],
         IsOpen(d)' <=> IsOpen(d)
  PROVE  Stage(d)' = Stage(d)
BY DEF SameConn, Stage

LEMMA StageIsAStage ==
  ASSUME ReactorTypeOK, NEW d \in Conns
  PROVE  Stage(d) \in Life!Stages
BY DEF ReactorTypeOK, Stage, Life!Stages

(* When one connection alone changes its stage, ConnectionLife moves.      *)
LEMMA OneMoves ==
  ASSUME NEW c \in Conns, NEW from, NEW to,
         Stage(c) = from,
         Stage(c)' = to,
         \A d \in Conns \ {c} : Stage(d)' = Stage(d),
         UNCHANGED corrupt
  PROVE  Life!Move(c, from, to)
BY DEF Life!Move

(* When none does, or only some whose numbers have been reused, nothing is *)
(* promised.                                                               *)
LEMMA Confuses ==
  ASSUME KernelInv', UNCHANGED <<fdOf, reused, corrupt>>,
         \A d \in Conns : fdOf[d] \notin reused => Stage(d)' = Stage(d)
  PROVE  LifeStep
<1>1. \A d \in Conns : Stage(d)' \in Life!Stages
  BY StageIsAStage DEF KernelInv, CodeTypeOK, ReactorTypeOK, Stage, Life!Stages
<1>2. Life!Confuse
  BY <1>1 DEF Life!Confuse
<1>3. QED
  BY <1>2 DEF LifeStep, Life!LifeNext

----------------------------------------------------------------------------
(* The steps that touch neither a descriptor nor an object.                *)
LEMMA QuietStep ==
  ASSUME KernelInv, KernelInv', MapInv,
         UNCHANGED <<kernel, objects, closing, reused, corrupt>>,
         NEW s \in [Loops -> Nat],
         \A f \in Fds \ reused : ThreadsKept(f) /\ EraseKept(f, s)
  PROVE  MapInv' /\ LifeStep
<1> USE DEF kernel, objects
<1>1. KeyInv'
  BY DEF MapInv, KeyInv
<1>2. \A f \in Fds \ reused : Untouched(f, s)
  BY DEF Untouched, SameConn
<1>3. MapInv'
  BY <1>1, <1>2, MapKept
<1>4. \A d \in Conns : Stage(d)' = Stage(d)
  BY SameStage DEF SameConn, IsOpen
<1>5. QED
  BY <1>3, <1>4, Confuses

LEMMA SameQueues ==
  ASSUME KernelInv, UNCHANGED tasks
  PROVE  \E s \in [Loops -> Nat] : \A f \in Fds : EraseKept(f, s)
<1> DEFINE zero == [k \in Loops |-> 0]
<1>1. \A k \in Loops : \A i \in 1 .. Len(tasks[k]) : i + zero[k] = i
  <2>1. \A k \in Loops : Len(tasks[k]) \in Nat /\ zero[k] = 0
    BY DEF KernelInv, CodeTypeOK, ReactorTypeOK
  <2>2. QED
    BY <2>1
<1>2. zero \in [Loops -> Nat]
  OBVIOUS
<1> HIDE DEF zero
<1>3. \A f \in Fds : EraseKept(f, zero)
  BY <1>1 DEF EraseKept, ErasesOf, Queued
<1>4. QED
  BY <1>2, <1>3

LEMMA QuietSteps ==
  ASSUME KernelInv, KernelInv', MapInv, UNCHANGED <<closing, reused, corrupt>>,
         NEW l \in Loops,
         \/ EpollWait(l) \/ HandlerReturns(l) \/ SwapFunctors(l) \/ EndRun(l)
         \/ HandleListen \/ AcceptFails
         \/ \E c \in Conns : HandleEvent(l, c)
  PROVE  MapInv' /\ LifeStep
<1>1. UNCHANGED <<kernel, objects, tasks>>
  BY DEF EpollWait, HandlerReturns, SwapFunctors, EndRun, HandleListen,
     AcceptFails, HandleEvent
<1>2. pc \in [Loops -> LoopPC] /\ cur \in [Loops -> Conns \cup {NoConn}]
  BY DEF KernelInv, CodeTypeOK, ReactorTypeOK
<1>3. ASSUME NEW f \in Fds \ reused
      PROVE  ThreadsKept(f)
  <2>1. ASSUME EpollWait(l) \/ SwapFunctors(l) \/ EndRun(l) \/ AcceptFails
        PROVE  ThreadsKept(f)
    BY <1>2, <2>1
       DEF EpollWait, SwapFunctors, EndRun, AcceptFails, ThreadsKept, InCallbackOf
  <2>2. ASSUME HandlerReturns(l) \/ HandleListen
        PROVE  ThreadsKept(f)
    BY <1>2, <2>2 DEF HandlerReturns, HandleListen, ThreadsKept, InCallbackOf
  <2>3. ASSUME NEW c \in Conns, HandleEvent(l, c)
        PROVE  ThreadsKept(f)
    <3>1. /\ c \in registered /\ pc[l] = "dispatch"
          /\ open[fdOf[c]] = c /\ fdOf[c] \in Fds
      BY <2>3 DEF HandleEvent, KernelInv, EventInv, RegisteredInv
    <3>2. /\ cur'[l] = c /\ pc'[l] = "handler"
          /\ \A k \in Loops \ {l} : pc'[k] = pc[k] /\ cur'[k] = cur[k]
      BY <1>2, <2>3 DEF HandleEvent
    <3>3. FdOfCur(l)' = fdOf[c]
      BY <1>1, <3>2 DEF FdOfCur, kernel
    <3>4. ASSUME fdOf[c] = f
          PROVE  connections_[f] = c
      <4>1. object[c] = "alive"
        BY <3>1, <3>4 DEF MapInv, MapAt, AliveAt
      <4>2. connections_[f] = c \/ (cur[loopOf[c]] = c /\ pc[loopOf[c]] = "insert")
        BY <3>4, <4>1 DEF MapInv, MapAt, OwnedAt
      <4>3. loopOf[c] = l
        BY <2>3 DEF HandleEvent, KernelInv, EventInv
      <4>4. QED
        BY <3>1, <4>2, <4>3
    <3>5. QED
      BY <3>1, <3>2, <3>3, <3>4 DEF ThreadsKept
  <2>4. QED
    BY <2>1, <2>2, <2>3
<1>4. PICK s \in [Loops -> Nat] : \A f \in Fds : EraseKept(f, s)
  BY <1>1, SameQueues
<1>5. QED
  BY <1>1, <1>3, <1>4, QuietStep

LEMMA OnNewConnectionIsQuiet ==
  ASSUME KernelInv, KernelInv', MapInv, UNCHANGED <<closing, reused, corrupt>>,
         OnNewConnection
  PROVE  MapInv' /\ LifeStep
<1> USE DEF KernelInv, CodeTypeOK, ReactorTypeOK
<1>1. /\ mainLoop_ \in Loops
      /\ pc[mainLoop_] = "new"
      /\ UNCHANGED <<kernel, objects>>
  BY ReactorAssumption DEF OnNewConnection, Loops, mainLoop_
<1>2. \A f \in Fds : ThreadsKept(f)
  <2>1. /\ \A k \in Loops : k # mainLoop_ => pc'[k] = pc[k] /\ cur'[k] = cur[k]
        /\ pc'[mainLoop_] \in {"create", "accept"}
    BY <1>1 DEF OnNewConnection
  <2> HIDE DEF KernelInv, CodeTypeOK, ReactorTypeOK
  <2>2. QED
    BY <1>1, <2>1 DEF ThreadsKept, InCallbackOf
<1>3. \E s \in [Loops -> Nat] : \A f \in Fds : EraseKept(f, s)
  <2>1. CASE UNCHANGED tasks
    BY <2>1, SameQueues
  <2>2. CASE NextLoop # mainLoop_
    <3> DEFINE n == NextLoop
               task == [kind |-> "create", fd |-> FdOfCur(mainLoop_)]
               zero == [k \in Loops |-> 0]
    <3>1. FdOfCur(mainLoop_) \in Fds
      BY <1>1 DEF CreatingInv, Creating, OpenAtHand
    <3>2. /\ n \in Loops
          /\ task \in Task
          /\ task.kind # "erase"
          /\ tasks' = [tasks EXCEPT ![n] = Append(@, task)]
      BY <2>2, <3>1, ReactorAssumption
         DEF OnNewConnection, QueueInLoop, NextLoop, Loops, mainLoop_, Task
    <3> HIDE DEF n, task
    <3>3. \A k \in Loops : \A i \in 1 .. Len(tasks'[k]) :
            \/ i \in 1 .. Len(tasks[k]) /\ tasks'[k][i] = tasks[k][i]
            \/ tasks'[k][i] = task
      BY <3>2, AppendedTask
    <3>4. \A k \in Loops : \A i \in 1 .. Len(tasks[k]) : i + zero[k] = i
      <4>1. \A k \in Loops : Len(tasks[k]) \in Nat /\ zero[k] = 0
        OBVIOUS
      <4>2. QED
        BY <4>1
    <3>5. zero \in [Loops -> Nat]
      OBVIOUS
    <3> HIDE DEF zero, KernelInv, CodeTypeOK, ReactorTypeOK
    <3>6. \A f \in Fds : EraseKept(f, zero)
      BY <3>2, <3>3, <3>4 DEF EraseKept, ErasesOf, Queued
    <3>7. QED
      BY <3>5, <3>6
  <2>3. QED
    BY <2>1, <2>2 DEF OnNewConnection
<1>4. QED
  BY <1>1, <1>2, <1>3, QuietStep

(* What the erases of f become when a functor leaves its queue.            *)
LEMMA ShiftedQueue ==
  ASSUME KernelInv, NEW l \in Loops, pc[l] = "run", turn[l] > 0, TaskTaken(l)
  PROVE  \E s \in [Loops -> Nat] : s[l] = 1 /\ \A f \in Fds : EraseKept(f, s)
<1> DEFINE shift == [k \in Loops |-> IF k = l THEN 1 ELSE 0]
<1>1. /\ \A i \in 1 .. Len(tasks'[l]) :
           i + 1 \in 1 .. Len(tasks[l]) /\ tasks'[l][i] = tasks[l][i + 1]
      /\ \A k \in Loops : k # l => tasks'[k] = tasks[k]
  BY TakenTask
<1>2. \A k \in Loops : Len(tasks[k]) \in Nat
  BY DEF KernelInv, CodeTypeOK, ReactorTypeOK
<1>3. shift \in [Loops -> Nat]
  OBVIOUS
<1>4. \A f \in Fds : EraseKept(f, shift)
  BY <1>1, <1>2 DEF EraseKept, ErasesOf, Queued
<1>5. shift[l] = 1
  OBVIOUS
<1> HIDE DEF shift
<1>6. QED
  BY <1>3, <1>4, <1>5

LEMMA RunCreateIsQuiet ==
  ASSUME KernelInv, KernelInv', MapInv, UNCHANGED <<closing, reused, corrupt>>,
         NEW l \in Loops, RunCreate(l)
  PROVE  MapInv' /\ LifeStep
<1>1. pc[l] = "run" /\ turn[l] > 0 /\ TaskTaken(l)
  BY DEF RunCreate, NextTaskIs
<1>2. pc \in [Loops -> LoopPC] /\ cur \in [Loops -> Conns \cup {NoConn}]
  BY DEF KernelInv, CodeTypeOK, ReactorTypeOK
<1>3. \A f \in Fds : ThreadsKept(f)
  BY <1>1, <1>2 DEF RunCreate, ThreadsKept, InCallbackOf
<1>4. \E s \in [Loops -> Nat] : \A f \in Fds : EraseKept(f, s)
  BY <1>1, ShiftedQueue
<1>5. UNCHANGED <<kernel, objects>>
  BY DEF RunCreate
<1>6. QED
  BY <1>3, <1>4, <1>5, QuietStep
----------------------------------------------------------------------------
(* A step of the thread of l on the number n.                              *)
OnNumber(l, n) ==
  /\ UNCHANGED <<peer, fdOf, reused, corrupt>>
  /\ \A f \in Fds \ {n} : open'[f] = open[f] /\ connections_'[f] = connections_[f]
  /\ \A d \in Conns : fdOf[d] # n => SameConn(d)
  /\ \A k \in Loops \ {l} : pc'[k] = pc[k] /\ cur'[k] = cur[k]
  /\ pc[l] \in {"insert", "close"} => FdOfCur(l) = n
  /\ (pc[l] = "insert" \/ InCallbackOf(l))' => FdOfCur(l)' = n

LEMMA OnNumberKeeps ==
  ASSUME KernelInv, KernelInv', MapInv, KeyInv',
         NEW l \in Loops, NEW n \in Fds, OnNumber(l, n),
         NEW s \in [Loops -> Nat], \A f \in Fds \ {n} : EraseKept(f, s),
         n \notin reused => MapAt(n)'
  PROVE  MapInv'
<1>1. ASSUME NEW f \in Fds, f # n
      PROVE  Untouched(f, s)
  <2>1. \A k \in Loops \ {l} : /\ pc'[k] = pc[k] /\ cur'[k] = cur[k]
                               /\ FdOfCur(k)' = FdOfCur(k)
    BY DEF OnNumber, FdOfCur
  <2>2. ThreadsKept(f)
    BY <1>1, <2>1 DEF OnNumber, ThreadsKept
  <2>3. QED
    BY <1>1, <2>2 DEF OnNumber, Untouched
<1>2. \A f \in Fds \ reused' : Untouched(f, s) \/ MapAt(f)'
  BY <1>1 DEF OnNumber
<1>3. QED
  BY <1>2, MapKept DEF OnNumber

LEMMA OtherStages ==
  ASSUME NEW l \in Loops, NEW n \in Fds, OnNumber(l, n),
         NEW d \in Conns, fdOf[d] # n
  PROVE  Stage(d)' = Stage(d)
<1>1. SameConn(d) /\ peer'[d] = peer[d]
  BY DEF OnNumber
<1>2. IsOpen(d)' <=> IsOpen(d)
  BY DEF OnNumber, IsOpen
<1>3. QED
  BY <1>1, <1>2, SameStage

LEMMA OnReusedNumber ==
  ASSUME KernelInv', NEW l \in Loops, NEW n \in reused \cap Fds, OnNumber(l, n)
  PROVE  LifeStep
<1>1. \A d \in Conns : fdOf[d] \notin reused => Stage(d)' = Stage(d)
  BY OtherStages
<1>2. QED
  BY <1>1, Confuses DEF OnNumber

(* Nobody but c is affected by a step that only c's objects and number     *)
(* take part in.                                                           *)
LEMMA OneOnNumber ==
  ASSUME NEW l \in Loops, NEW n \in Fds, OnNumber(l, n),
         NEW c \in Conns, fdOf[c] = n,
         \A d \in Conns \ {c} : SameConn(d) /\ (IsOpen(d)' <=> IsOpen(d))
  PROVE  \A d \in Conns \ {c} : Stage(d)' = Stage(d)
BY SameStage DEF OnNumber

----------------------------------------------------------------------------
LEMMA ConnectArrives ==
  ASSUME KernelInv, KernelInv', MapInv, UNCHANGED <<closing, reused, corrupt>>,
         NEW c \in Conns, Connect(c)
  PROVE  MapInv' /\ LifeStep
<1> USE DEF Connect, objects, loops
<1>1. /\ peer[c] = "away"
      /\ peer'[c] = "waiting"
      /\ \A d \in Conns \ {c} : peer'[d] = peer[d]
  BY DEF KernelInv, CodeTypeOK, ReactorTypeOK
<1>2. KeyInv'
  BY <1>1 DEF MapInv, KeyInv
<1>3. \A f \in Fds : ThreadsKept(f)
  BY DEF ThreadsKept, InCallbackOf, FdOfCur
<1>4. PICK s \in [Loops -> Nat] : \A f \in Fds : EraseKept(f, s)
  BY SameQueues
<1>5. \A f \in Fds : Untouched(f, s)
  BY <1>3, <1>4 DEF Untouched, SameConn
<1>6. MapInv'
  BY <1>2, <1>5, MapKept
<1>7. \A d \in Conns \ {c} : Stage(d)' = Stage(d)
  BY <1>1, SameStage DEF SameConn, IsOpen
<1>8. Stage(c) = "away" /\ Stage(c)' = "waiting"
  BY <1>1 DEF Stage
<1>9. Life!Arrive(c)
  BY <1>7, <1>8, OneMoves DEF Life!Arrive
<1>10. QED
  BY <1>6, <1>9 DEF LifeStep, Life!LifeNext

(* A connection that holds a number without having it open is ending: its  *)
(* object waits for the erase.                                             *)
LEMMA HolderIsEnding ==
  ASSUME KernelInv, NEW d \in Conns, NEW fd \in Fds, open[fd] = NoConn,
         Life!Holds(d, fd)
  PROVE  Stage(d) = "ending" /\ object[d] = "alive" /\ fdOf[d] = fd
<1>1. Stage(d) \in {"accepted", "served", "deaf", "ending"} /\ fdOf[d] = fd
  BY DEF Life!Holds
<1>2. ~IsOpen(d)
  BY <1>1, ReactorAssumption DEF IsOpen
<1>3. QED
  BY <1>1, <1>2 DEF Stage, KernelInv, CodeTypeOK, ReactorTypeOK

(* The number accept() returns is no key of the map, so that no connection *)
(* holds it; or it is one, and then it is reused from here on.             *)
LEMMA AcceptAccepts ==
  ASSUME KernelInv, KernelInv', MapInv, UNCHANGED <<closing, corrupt>>,
         NEW c \in Conns, Accept(c), RecordReuse
  PROVE  MapInv' /\ LifeStep
<1> USE DEF KernelInv, CodeTypeOK, ReactorTypeOK
<1>1. PICK fd \in Fds :
        /\ open[fd] = NoConn
        /\ open' = [open EXCEPT ![fd] = c]
        /\ fdOf' = [fdOf EXCEPT ![c] = fd]
  BY DEF Accept, LowestFree, FreeFds
<1>2. /\ mainLoop_ \in Loops
      /\ pc[mainLoop_] = "accept"
      /\ peer[c] = "waiting"
      /\ pc' = [pc EXCEPT ![mainLoop_] = "new"]
      /\ cur' = [cur EXCEPT ![mainLoop_] = c]
      /\ peer' = [peer EXCEPT ![c] = "accepted"]
      /\ UNCHANGED <<object, loopOf, registered, deaf, connections_, tasks>>
  BY ReactorAssumption DEF Accept, Waiting, Loops, mainLoop_, objects
<1>3. /\ object[c] = "none"
      /\ fdOf[c] = 0
      /\ \A f \in Fds : open[f] # c
  BY <1>2 DEF BacklogInv, MapInv, KeyInv
<1>4. /\ open'[fd] = c
      /\ fdOf'[c] = fd
      /\ \A f \in Fds \ {fd} : open'[f] = open[f]
      /\ \A d \in Conns \ {c} : fdOf'[d] = fdOf[d] /\ peer'[d] = peer[d]
      /\ peer'[c] = "accepted"
      /\ peer[c] = "waiting"
  BY <1>1, <1>2
<1>5. /\ pc'[mainLoop_] = "new"
      /\ pc[mainLoop_] = "accept"
      /\ \A k \in Loops \ {mainLoop_} : pc'[k] = pc[k] /\ cur'[k] = cur[k]
  BY <1>2
<1>6. /\ connections_[fd] = NoConn => reused' = reused
      /\ connections_[fd] # NoConn => reused' = reused \cup {fd}
  <2> HIDE DEF KernelInv, CodeTypeOK, ReactorTypeOK
  <2>1. \A f \in Fds : open[f] = NoConn /\ open'[f] # NoConn <=> f = fd
    BY <1>1, <1>4, ReactorAssumption
  <2>2. QED
    BY <2>1 DEF RecordReuse
<1>7. \A d \in Conns \ {c} : SameConn(d) /\ (IsOpen(d)' <=> IsOpen(d))
  BY <1>1, <1>2, <1>4, ReactorAssumption DEF SameConn, IsOpen
<1>8. /\ c \notin registered \cup deaf
      /\ \A f \in Fds : connections_[f] # c
  <2>1. c \notin registered /\ c \notin deaf
    BY <1>3 DEF RegisteredInv, MapInv, KeyInv
  <2>2. \A f \in Fds : connections_[f] # c
    BY <1>3, ReactorAssumption DEF CreatedInv
  <2>3. QED
    BY <2>1, <2>2
<1>9. \A k \in Loops : (pc[k] = "insert" \/ InCallbackOf(k))' =>
        /\ k # mainLoop_ /\ pc'[k] = pc[k] /\ cur'[k] = cur[k]
        /\ (pc[k] = "insert" \/ InCallbackOf(k))
        /\ cur[k] \in Conns \ {c}
        /\ FdOfCur(k)' = FdOfCur(k)
        /\ FdOfCur(k) \in Fds
  <2> SUFFICES ASSUME NEW k \in Loops, (pc[k] = "insert" \/ InCallbackOf(k))'
               PROVE  /\ k # mainLoop_ /\ pc'[k] = pc[k] /\ cur'[k] = cur[k]
                      /\ (pc[k] = "insert" \/ InCallbackOf(k))
                      /\ cur[k] \in Conns \ {c}
                      /\ FdOfCur(k)' = FdOfCur(k)
                      /\ FdOfCur(k) \in Fds
    OBVIOUS
  <2> HIDE DEF KernelInv, CodeTypeOK, ReactorTypeOK
  <2>1. k # mainLoop_ /\ pc'[k] = pc[k] /\ cur'[k] = cur[k]
    BY <1>5 DEF InCallbackOf
  <2>2. pc[k] = "insert" \/ InCallbackOf(k)
    BY <2>1 DEF InCallbackOf
  <2>3. cur[k] \in Conns /\ object[cur[k]] # "none" /\ FdOfCur(k) \in Fds
    BY <2>2, ThreadsAtWork
  <2>4. QED
    BY <1>3, <1>4, <2>1, <2>2, <2>3 DEF FdOfCur
<1> HIDE DEF KernelInv, CodeTypeOK, ReactorTypeOK
<1>10. KeyInv'
  BY <1>2, <1>3, <1>4, <1>8 DEF MapInv, KeyInv, KernelInv, CodeTypeOK, ReactorTypeOK
<1>11. PICK s \in [Loops -> Nat] : \A f \in Fds : EraseKept(f, s)
  BY <1>2, SameQueues
<1>12. ASSUME NEW f \in Fds, f # fd
       PROVE  Untouched(f, s)
  <2>1. \A d \in Conns : fdOf[d] = f \/ fdOf'[d] = f => SameConn(d)
    BY <1>3, <1>4, <1>7, <1>12 DEF Fds
  <2>2. \A k \in Loops : pc[k] \in {"insert", "close"} =>
          pc'[k] = pc[k] /\ cur'[k] = cur[k]
    BY <1>5
  <2>3. ThreadsKept(f)
    BY <1>9, <2>2 DEF ThreadsKept
  <2>4. QED
    BY <1>2, <1>4, <1>11, <1>12, <2>1, <2>3 DEF Untouched
<1>13. \A d \in Conns \ {c} : Stage(d)' = Stage(d)
  BY <1>4, <1>7, SameStage
<1>14. Stage(c) = "waiting" /\ Stage(c)' = "accepted"
  <2>1. IsOpen(c)'
    BY <1>4 DEF IsOpen
  <2>2. QED
    BY <1>2, <1>3, <1>4, <2>1 DEF Stage
<1>15. CASE fd \notin reused'
  <2>1. connections_[fd] = NoConn /\ fd \notin reused /\ MapAt(fd)
    BY <1>6, <1>15 DEF MapInv
  <2>2. \A d \in Conns : fdOf[d] = fd => object[d] # "alive"
    <3> SUFFICES ASSUME NEW d \in Conns, fdOf[d] = fd, object[d] = "alive"
                 PROVE  FALSE
      OBVIOUS
    <3>1. loopOf[d] \in Loops
      BY DEF KernelInv, CodeTypeOK, ReactorTypeOK
    <3>2. cur[loopOf[d]] = d /\ pc[loopOf[d]] = "insert"
      BY <2>1, ReactorAssumption DEF MapAt, OwnedAt
    <3>3. open[FdOfCur(loopOf[d])] = d
      BY <3>1, <3>2, ThreadsAtWork
    <3>4. QED
      BY <1>1, <3>2, <3>3, ReactorAssumption DEF FdOfCur
  <2>3. \A k \in Loops : (pc[k] = "insert" \/ InCallbackOf(k))' => FdOfCur(k)' # fd
    <3> SUFFICES ASSUME NEW k \in Loops, (pc[k] = "insert" \/ InCallbackOf(k))',
                        FdOfCur(k)' = fd
                 PROVE  FALSE
      OBVIOUS
    <3>1. /\ FdOfCur(k) = fd /\ cur[k] \in Conns
          /\ pc[k] = "insert" \/ InCallbackOf(k)
      BY <1>9
    <3>2. CASE pc[k] = "insert"
      <4>1. object[cur[k]] = "alive" /\ fdOf[cur[k]] = fd
        BY <2>1, <3>1, <3>2 DEF MapAt, AliveAt, FdOfCur
      <4>2. QED
        BY <2>2, <3>1, <4>1
    <3>3. CASE InCallbackOf(k)
      BY <2>1, <3>1, <3>3, ReactorAssumption DEF MapAt, AliveAt
    <3>4. QED
      BY <3>1, <3>2, <3>3
  <2>4. \A d \in Conns : object'[d] = "alive" => fdOf'[d] # fd
    BY <1>2, <1>3, <1>4, <2>2
  <2>5. EntryAt(fd)' /\ OwnedAt(fd)'
    BY <1>2, <2>1, <2>4 DEF EntryAt, OwnedAt
  <2>6. AliveAt(fd)' /\ DeafAt(fd)'
    <3>0. registered \subseteq Conns /\ deaf \subseteq Conns
      BY DEF KernelInv, CodeTypeOK, ReactorTypeOK
    <3>1. ASSUME NEW d \in registered
          PROVE  fdOf'[d] # fd
      <4>1. d \in Conns \ {c} /\ open[fdOf[d]] = d
        BY <1>8, <3>0 DEF KernelInv, RegisteredInv
      <4>2. QED
        BY <1>1, <1>4, <4>1, ReactorAssumption
    <3>2. ASSUME NEW d \in deaf
          PROVE  fdOf'[d] # fd
      <4>1. d \in Conns \ {c} /\ (fdOf[d] = fd => object[d] = "alive")
        BY <1>8, <2>1, <3>0 DEF MapAt, DeafAt
      <4>2. QED
        BY <1>4, <2>2, <4>1
    <3>3. QED
      BY <1>2, <2>3, <3>1, <3>2 DEF AliveAt, DeafAt
  <2>7. EraseAt(fd)'
    BY <1>2, <2>1 DEF MapAt, EraseAt, ErasesOf, Queued
  <2>8. ServedAt(fd)'
    BY <1>2, <1>3, <1>4 DEF ServedAt
  <2>9. MapAt(fd)'
    BY <2>5, <2>6, <2>7, <2>8 DEF MapAt
  <2>10. \A f \in Fds \ reused' : Untouched(f, s) \/ MapAt(f)'
    BY <1>12, <2>9
  <2>11. MapInv'
    BY <1>6, <1>10, <2>1, <2>10, MapKept
  <2>12. \A d \in Conns : ~Life!Holds(d, fd)
    BY <1>1, <2>2, HolderIsEnding
  <2>13. Life!Accept(c)
    BY <1>1, <1>6, <1>13, <1>14, <2>1, <2>12, OneMoves DEF Life!Accept
  <2>14. QED
    BY <2>11, <2>13 DEF LifeStep, Life!LifeNext
<1>16. CASE fd \in reused'
  <2>1. reused' = reused \cup {fd}
    BY <1>6, <1>16
  <2>2. \A f \in Fds \ reused' : Untouched(f, s) \/ MapAt(f)'
    BY <1>12, <1>16
  <2>3. MapInv'
    BY <1>10, <2>1, <2>2, MapKept
  <2>4. \A d \in Conns : Life!Holds(d, fd) => Stage(d) = "ending"
    BY <1>1, HolderIsEnding
  <2>5. (\E d \in Conns : Life!Holds(d, fd)) \/ fd \in reused
    <3> SUFFICES ASSUME fd \notin reused
                 PROVE  \E d \in Conns : Life!Holds(d, fd)
      OBVIOUS
    <3>1. MapAt(fd) /\ connections_[fd] # NoConn
      BY <1>6, <1>16 DEF MapInv
    <3>2. PICK h \in Conns : h = connections_[fd]
      BY <3>1 DEF KernelInv, CodeTypeOK, ReactorTypeOK
    <3>3. fdOf[h] = fd /\ object[h] = "alive" /\ closing[h]
      BY <1>1, <3>1, <3>2, ReactorAssumption DEF MapInv, KeyInv, MapAt, EntryAt
    <3>4. h \notin registered /\ h \notin deaf /\ peer[h] = "accepted"
      BY <3>1, <3>3 DEF KernelInv, RegisteredInv, BacklogInv, MapAt, DeafAt
    <3>5. ~IsOpen(h)
      BY <1>1, <3>3, ReactorAssumption DEF IsOpen
    <3>6. Stage(h) = "ending"
      BY <3>3, <3>4, <3>5 DEF Stage
    <3>7. QED
      BY <3>3, <3>6 DEF Life!Holds
  <2>6. Life!AcceptEarly(c)
    BY <1>1, <1>13, <1>14, <2>1, <2>4, <2>5, OneMoves DEF Life!AcceptEarly
  <2>7. QED
    BY <2>3, <2>6 DEF LifeStep, Life!LifeNext
<1>17. QED
  BY <1>15, <1>16
----------------------------------------------------------------------------
(* What is known of an open number that is no key of the map.              *)
LEMMA NoEntry ==
  ASSUME KernelInv, NEW n \in Fds, MapAt(n), connections_[n] = NoConn,
         NEW c \in Conns, open[n] = c
  PROVE  /\ \A d \in Conns : fdOf[d] = n /\ object[d] = "alive" =>
              d = c /\ cur[loopOf[c]] = c /\ pc[loopOf[c]] = "insert"
         /\ \A k \in Loops : InCallbackOf(k) => FdOfCur(k) # n
<1>1. ASSUME NEW d \in Conns, fdOf[d] = n, object[d] = "alive"
      PROVE  d = c /\ cur[loopOf[c]] = c /\ pc[loopOf[c]] = "insert"
  <2>1. loopOf[d] \in Loops
    BY DEF KernelInv, CodeTypeOK, ReactorTypeOK
  <2>2. cur[loopOf[d]] = d /\ pc[loopOf[d]] = "insert"
    BY <1>1, ReactorAssumption DEF MapAt, OwnedAt
  <2>3. open[FdOfCur(loopOf[d])] = d
    BY <2>1, <2>2, ThreadsAtWork
  <2>4. QED
    BY <1>1, <2>2, <2>3 DEF FdOfCur
<1>2. ASSUME NEW k \in Loops, InCallbackOf(k), FdOfCur(k) = n
      PROVE  FALSE
  <2>1. cur[k] \in Conns
    BY <1>2, ThreadsAtWork
  <2>2. connections_[n] = cur[k]
    BY <1>2 DEF MapAt, AliveAt
  <2>3. QED
    BY <2>1, <2>2, ReactorAssumption
<1>3. QED
  BY <1>1, <1>2

(* enableReading(): epoll takes the channel, or refuses it.                *)
LEMMA CreateServes ==
  ASSUME KernelInv, KernelInv', MapInv, UNCHANGED <<closing, reused, corrupt>>,
         NEW l \in Loops, CreateConnection(l)
  PROVE  MapInv' /\ LifeStep
<1>0. PICK c \in Conns, n \in Fds : c = cur[l] /\ n = fdOf[c]
  BY DEF CreateConnection, KernelInv, CreatingInv, Creating, OpenAtHand, FdOfCur
<1>1. pc[l] = "create" /\ open[n] = c /\ object[c] = "none"
  BY <1>0
     DEF CreateConnection, KernelInv, CreatingInv, Creating, OpenAtHand, FdOfCur
<1>2. /\ object'[c] = "alive"
      /\ loopOf'[c] = l
      /\ pc'[l] = "insert"
      /\ \A k \in Loops \ {l} : pc'[k] = pc[k]
      /\ \/ c \in registered' /\ deaf' = deaf
         \/ c \in deaf' /\ registered' = registered
      /\ deaf' \subseteq deaf \cup {c}
      /\ UNCHANGED <<peer, open, fdOf, connections_, cur, tasks>>
  BY <1>0
     DEF CreateConnection, EnableReading, kernel, KernelInv, CodeTypeOK,
         ReactorTypeOK
<1>3. \A d \in Conns \ {c} : SameConn(d)
  BY <1>0
     DEF CreateConnection, EnableReading, kernel, KernelInv, CodeTypeOK,
         ReactorTypeOK, SameConn
<1>4. /\ c \notin registered /\ c \notin deaf
      /\ ~closing[c]
      /\ IsOpen(c)
      /\ peer[c] = "accepted"
  BY <1>0, <1>1
     DEF KernelInv, RegisteredInv, CreatedInv, BacklogInv, MapInv, KeyInv, IsOpen
<1>5. \A k \in Loops : FdOfCur(k)' = FdOfCur(k)
  BY <1>2 DEF FdOfCur
<1>6. OnNumber(l, n)
  BY <1>0, <1>1, <1>2, <1>3, <1>5 DEF OnNumber, FdOfCur
<1>7. KeyInv'
  <2>1. \A d \in deaf' : object'[d] # "none"
    BY <1>2, <1>3 DEF MapInv, KeyInv, SameConn, KernelInv, CodeTypeOK, ReactorTypeOK
  <2>2. QED
    BY <1>2, <2>1 DEF MapInv, KeyInv
<1>8. ASSUME n \notin reused
      PROVE  MapAt(n)'
  <2>1. MapAt(n)
    BY <1>8 DEF MapInv
  <2>2. connections_[n] = NoConn
    BY <1>1, <2>1, ReactorAssumption
       DEF MapAt, EntryAt, KernelInv, CodeTypeOK, ReactorTypeOK
  <2>3. /\ \A d \in Conns : fdOf[d] = n => object[d] # "alive"
        /\ \A k \in Loops : InCallbackOf(k) => FdOfCur(k) # n
    BY <1>1, <2>1, <2>2, NoEntry
  <2>4. EntryAt(n)'
    BY <1>2, <2>2 DEF EntryAt
  <2>5. OwnedAt(n)'
    BY <1>0, <1>2, <1>3, <2>3 DEF OwnedAt, SameConn
  <2>6. AliveAt(n)'
    <3>1. ASSUME NEW d \in registered', fdOf[d] = n
          PROVE  object'[d] = "alive"
      <4>1. CASE d # c
        <5>1. d \in Conns
          BY DEF KernelInv, CodeTypeOK, ReactorTypeOK
        <5>2. d \in registered
          BY <1>3, <4>1, <5>1 DEF SameConn
        <5>3. open[n] = d
          BY <3>1, <5>2 DEF KernelInv, RegisteredInv
        <5>4. QED
          BY <1>1, <4>1, <5>3
      <4>2. QED
        BY <1>2, <4>1
    <3>2. ASSUME NEW k \in Loops, pc'[k] = "insert", FdOfCur(k) = n
          PROVE  object'[cur[k]] = "alive"
      <4>1. CASE k # l
        <5>1. pc[k] = "insert"
          BY <1>2, <3>2, <4>1
        <5>2. open[n] = cur[k] /\ object[cur[k]] # "none"
          BY <3>2, <5>1, ThreadsAtWork
        <5>3. QED
          BY <1>1, <5>2
      <4>2. QED
        BY <1>0, <1>2, <4>1
    <3>3. ASSUME NEW k \in Loops, InCallbackOf(k)'
          PROVE  FdOfCur(k) # n
      <4>1. k # l /\ InCallbackOf(k)
        BY <1>2, <3>3 DEF InCallbackOf
      <4>2. QED
        BY <2>3, <4>1
    <3>4. QED
      BY <1>2, <1>5, <3>1, <3>2, <3>3 DEF AliveAt
  <2>7. DeafAt(n)'
    <3> SUFFICES ASSUME NEW d \in deaf', fdOf[d] = n
                 PROVE  object'[d] = "alive" /\ d \notin registered' /\ ~closing[d]
      BY <1>2 DEF DeafAt
    <3>1. CASE d = c
      BY <1>2, <1>4, <3>1
    <3>2. CASE d # c
      <4>1. d \in deaf /\ d \in Conns
        BY <1>2, <3>2 DEF KernelInv, CodeTypeOK, ReactorTypeOK
      <4>2. QED
        BY <2>1, <2>3, <4>1 DEF MapAt, DeafAt
    <3>3. QED
      BY <3>1, <3>2
  <2>8. EraseAt(n)'
    BY <1>2, <2>1, <2>2 DEF MapAt, EraseAt, ErasesOf, Queued
  <2>9. ServedAt(n)'
    BY <1>1, <1>2 DEF ServedAt
  <2>10. QED
    BY <2>4, <2>5, <2>6, <2>7, <2>8, <2>9 DEF MapAt
<1>9. PICK s \in [Loops -> Nat] : \A f \in Fds : EraseKept(f, s)
  BY <1>2, SameQueues
<1>10. MapInv'
  BY <1>6, <1>7, <1>8, <1>9, OnNumberKeeps
<1>11. \A d \in Conns : IsOpen(d)' <=> IsOpen(d)
  BY <1>2 DEF IsOpen
<1>12. \A d \in Conns \ {c} : Stage(d)' = Stage(d)
  BY <1>0, <1>3, <1>6, <1>11, OneOnNumber
<1>13. Stage(c) = "accepted"
  BY <1>1, <1>4 DEF Stage
<1>14. Stage(c)' = "served" \/ Stage(c)' = "deaf"
  BY <1>2, <1>4, <1>11 DEF Stage
<1>15. Life!Serve(c) \/ Life!Deafen(c)
  BY <1>2, <1>12, <1>13, <1>14, OneMoves DEF Life!Serve, Life!Deafen
<1>16. QED
  BY <1>10, <1>15 DEF LifeStep, Life!LifeNext

(* What the destruction of the object under the key n does.                *)
LEMMA DestroyedAt ==
  ASSUME KernelInv, KeyInv, NEW n \in Fds, object' = DestroyOwnedBy(n)
  PROVE  \A d \in Conns :
           /\ object'[d] = "none" <=> object[d] = "none"
           /\ fdOf[d] # n => object'[d] = object[d]
           /\ d # connections_[n] => object'[d] = object[d]
           /\ d = connections_[n] => object'[d] = "freed"
<1> SUFFICES ASSUME NEW d \in Conns
             PROVE  /\ object'[d] = "none" <=> object[d] = "none"
                    /\ fdOf[d] # n => object'[d] = object[d]
                    /\ d # connections_[n] => object'[d] = object[d]
                    /\ d = connections_[n] => object'[d] = "freed"
  OBVIOUS
<1>1. object'[d] = IF d = connections_[n] THEN "freed" ELSE object[d]
  BY DEF DestroyOwnedBy
<1>2. d = connections_[n] => fdOf[d] = n /\ object[d] # "none"
  BY ReactorAssumption DEF KeyInv, KernelInv, CreatedInv
<1>3. QED
  BY <1>1, <1>2

(* The key under which the connection is inserted is free, so that the     *)
(* assignment destroys nothing; or its number has been reused.             *)
LEMMA InsertIsInvisible ==
  ASSUME KernelInv, KernelInv', MapInv, UNCHANGED <<closing, reused, corrupt>>,
         NEW l \in Loops, InsertConnection(l)
  PROVE  MapInv' /\ LifeStep
<1>0. PICK c \in Conns, n \in Fds : c = cur[l] /\ n = fdOf[c]
  BY DEF InsertConnection, KernelInv, InsertingInv, OpenAtHand, FdOfCur
<1>1. pc[l] = "insert" /\ open[n] = c /\ loopOf[c] = l /\ object[c] # "none"
  BY <1>0 DEF InsertConnection, KernelInv, InsertingInv, OpenAtHand, AtHome, FdOfCur
<1>2. /\ connections_'[n] = c
      /\ \A f \in Fds \ {n} : connections_'[f] = connections_[f]
      /\ object' = DestroyOwnedBy(n)
      /\ pc'[l] \in {"accept", "run"}
      /\ \A k \in Loops \ {l} : pc'[k] = pc[k] /\ cur'[k] = cur[k]
      /\ UNCHANGED <<peer, open, fdOf, loopOf, registered, deaf, tasks>>
  BY <1>0
     DEF InsertConnection, FdOfCur, kernel, KernelInv, CodeTypeOK, ReactorTypeOK
<1>3. \A d \in Conns : /\ object'[d] = "none" <=> object[d] = "none"
                       /\ fdOf[d] # n => object'[d] = object[d]
                       /\ d # connections_[n] => object'[d] = object[d]
  BY <1>2, DestroyedAt DEF MapInv
<1>4. \A k \in Loops \ {l} : FdOfCur(k)' = FdOfCur(k)
  BY <1>2 DEF FdOfCur
<1>5. OnNumber(l, n)
  <2>1. \A d \in Conns : fdOf[d] # n => SameConn(d)
    BY <1>2, <1>3 DEF SameConn
  <2>2. FdOfCur(l) = n
    BY <1>0 DEF FdOfCur
  <2>3. ~(pc[l] = "insert" \/ InCallbackOf(l))'
    BY <1>2 DEF InCallbackOf
  <2>4. QED
    BY <1>2, <2>1, <2>2, <2>3 DEF OnNumber
<1>6. KeyInv'
  <2>1. deaf \subseteq Conns
    BY DEF KernelInv, CodeTypeOK, ReactorTypeOK
  <2>2. \A f \in Fds : connections_'[f] # NoConn => fdOf[connections_'[f]] = f
    BY <1>0, <1>2 DEF MapInv, KeyInv
  <2>3. QED
    BY <1>2, <1>3, <2>1, <2>2 DEF MapInv, KeyInv
<1>7. PICK s \in [Loops -> Nat] : \A f \in Fds : EraseKept(f, s)
  BY <1>2, SameQueues
<1>8. CASE n \in reused
  BY <1>5, <1>6, <1>7, <1>8, OnNumberKeeps, OnReusedNumber
<1>9. CASE n \notin reused
  <2>1. MapAt(n)
    BY <1>9 DEF MapInv
  <2>2. connections_[n] = NoConn
    BY <1>0, <1>1, <2>1, ReactorAssumption DEF MapAt, EntryAt
  <2>3. \A d \in Conns : object'[d] = object[d]
    BY <1>3, <2>2, ReactorAssumption
  <2>4. /\ \A d \in Conns : fdOf[d] = n /\ object[d] = "alive" => d = c
        /\ \A k \in Loops : InCallbackOf(k) => FdOfCur(k) # n
    BY <1>1, <2>1, <2>2, NoEntry
  <2>5. object[c] = "alive"
    BY <1>0, <1>1, <2>1 DEF MapAt, AliveAt, FdOfCur
  <2>6. EntryAt(n)'
    <3>1. ASSUME NEW k \in Loops, cur'[k] = c, pc'[k] = "insert"
          PROVE  FALSE
      <4>1. k # l /\ pc[k] = "insert" /\ cur[k] = c
        BY <1>2, <3>1
      <4>2. loopOf[cur[k]] = k
        BY <4>1, ThreadsAtWork
      <4>3. QED
        BY <1>1, <4>1, <4>2
    <3>2. QED
      BY <1>1, <1>2, <2>3, <2>5, <3>1 DEF EntryAt
  <2>7. OwnedAt(n)'
    BY <1>2, <2>3, <2>4 DEF OwnedAt
  <2>8. AliveAt(n)'
    <3>1. \A d \in registered : fdOf[d] = n => object'[d] = "alive"
      BY <2>1, <2>3 DEF MapAt, AliveAt, KernelInv, CodeTypeOK, ReactorTypeOK
    <3>2. ASSUME NEW k \in Loops, pc'[k] = "insert", FdOfCur(k)' = n
          PROVE  object'[cur'[k]] = "alive"
      <4>1. k # l /\ pc[k] = "insert" /\ FdOfCur(k) = n /\ cur'[k] = cur[k]
        BY <1>2, <1>4, <3>2
      <4>2. cur[k] \in Conns
        BY <4>1, ThreadsAtWork
      <4>3. QED
        BY <2>1, <2>3, <4>1, <4>2 DEF MapAt, AliveAt
    <3>3. ASSUME NEW k \in Loops, InCallbackOf(k)'
          PROVE  FdOfCur(k)' # n
      <4>1. k # l /\ InCallbackOf(k)
        BY <1>2, <3>3 DEF InCallbackOf
      <4>2. QED
        BY <1>4, <2>4, <4>1
    <3>4. QED
      BY <1>2, <3>1, <3>2, <3>3 DEF AliveAt
  <2>9. DeafAt(n)'
    BY <1>2, <2>1, <2>3 DEF MapAt, DeafAt, KernelInv, CodeTypeOK, ReactorTypeOK
  <2>10. EraseAt(n)'
    BY <1>2, <2>1, <2>2 DEF MapAt, EraseAt, ErasesOf, Queued
  <2>11. ServedAt(n)'
    <3>1. \A k \in Loops : pc[k] = "close" => pc'[k] = "close" /\ cur'[k] = cur[k]
      BY <1>1, <1>2
    <3>2. QED
      BY <1>1, <1>2, <2>1, <2>3, <3>1 DEF MapAt, ServedAt
  <2>12. MapAt(n)'
    BY <2>6, <2>7, <2>8, <2>9, <2>10, <2>11 DEF MapAt
  <2>13. MapInv'
    BY <1>5, <1>6, <1>7, <2>12, OnNumberKeeps
  <2>14. \A d \in Conns : Stage(d)' = Stage(d)
    BY <1>2, <2>3, SameStage DEF SameConn, IsOpen
  <2>15. QED
    BY <1>2, <2>13, <2>14, Confuses
<1>10. QED
  BY <1>8, <1>9
----------------------------------------------------------------------------
(* removeConnection marks a served connection as closing.                  *)
LEMMA RemoveEnds ==
  ASSUME KernelInv, KernelInv', MapInv, UNCHANGED <<reused, corrupt>>,
         NEW l \in Loops, RemoveConnection(l)
  PROVE  MapInv' /\ LifeStep
<1>0. PICK c \in Conns, n \in Fds : c = cur[l] /\ n = fdOf[c]
  BY DEF RemoveConnection, KernelInv, HandlingInv, OpenAtHand, FdOfCur
<1>1. /\ pc[l] = "handler" /\ c \in registered
      /\ open[n] = c /\ peer[c] = "accepted" /\ IsOpen(c)
  BY <1>0
     DEF RemoveConnection, KernelInv, HandlingInv, BacklogInv, OpenAtHand,
         FdOfCur, IsOpen
<1>2. /\ closing'[c] /\ registered' = registered \ {c}
      /\ pc'[l] = "close"
      /\ \A k \in Loops \ {l} : pc'[k] = pc[k]
      /\ UNCHANGED <<peer, open, fdOf, object, loopOf, deaf, connections_, cur,
                     tasks>>
  BY <1>0
     DEF RemoveConnection, DisableAll, kernel, KernelInv, CodeTypeOK,
         ReactorTypeOK
<1>3. \A d \in Conns \ {c} : SameConn(d)
  BY <1>0
     DEF RemoveConnection, DisableAll, kernel, KernelInv, CodeTypeOK,
         ReactorTypeOK, SameConn
<1>4. \A k \in Loops : FdOfCur(k)' = FdOfCur(k)
  BY <1>2 DEF FdOfCur
<1>5. OnNumber(l, n)
  BY <1>0, <1>1, <1>2, <1>3, <1>4 DEF OnNumber, FdOfCur
<1>6. KeyInv'
  BY <1>2 DEF MapInv, KeyInv
<1>7. PICK s \in [Loops -> Nat] : \A f \in Fds : EraseKept(f, s)
  BY <1>2, SameQueues
<1>8. CASE n \in reused
  BY <1>5, <1>6, <1>7, <1>8, OnNumberKeeps, OnReusedNumber
<1>9. CASE n \notin reused
  <2>1. MapAt(n)
    BY <1>9 DEF MapInv
  <2>2. /\ connections_[n] = c
        /\ object[c] = "alive"
        /\ c \notin deaf
    BY <1>0, <1>1, <2>1 DEF MapAt, AliveAt, DeafAt, InCallbackOf, FdOfCur
  <2>3. EntryAt(n)'
    BY <1>1, <1>2, <2>1, <2>2, ReactorAssumption DEF MapAt, EntryAt
  <2>4. OwnedAt(n)'
    <3>1. \A d \in Conns : loopOf[d] \in Loops
      BY DEF KernelInv, CodeTypeOK, ReactorTypeOK
    <3>2. \A k \in Loops : pc[k] = "insert" => pc'[k] = "insert"
      BY <1>1, <1>2
    <3>3. QED
      BY <1>2, <2>1, <3>1, <3>2 DEF MapAt, OwnedAt
  <2>5. AliveAt(n)'
    <3>1. \A k \in Loops : pc'[k] = "insert" => pc[k] = "insert"
      BY <1>2
    <3>2. \A k \in Loops : InCallbackOf(k)' => k = l \/ InCallbackOf(k)
      BY <1>2 DEF InCallbackOf
    <3>3. QED
      BY <1>0, <1>2, <1>4, <2>1, <2>2, <3>1, <3>2 DEF MapAt, AliveAt
  <2>6. DeafAt(n)'
    BY <1>2, <1>3, <2>1, <2>2
       DEF MapAt, DeafAt, SameConn, KernelInv, CodeTypeOK, ReactorTypeOK
  <2>7. EraseAt(n)'
    BY <1>1, <1>2, <2>1, ReactorAssumption DEF MapAt, EraseAt, ErasesOf, Queued
  <2>8. ServedAt(n)'
    BY <1>0, <1>1, <1>2, <2>2 DEF ServedAt
  <2>9. MapAt(n)'
    BY <2>3, <2>4, <2>5, <2>6, <2>7, <2>8 DEF MapAt
  <2>10. MapInv'
    BY <1>5, <1>6, <1>7, <2>9, OnNumberKeeps
  <2>11. \A d \in Conns : IsOpen(d)' <=> IsOpen(d)
    BY <1>2 DEF IsOpen
  <2>12. \A d \in Conns \ {c} : Stage(d)' = Stage(d)
    BY <1>0, <1>3, <1>5, <2>11, OneOnNumber
  <2>13. Stage(c) = "served" /\ Stage(c)' = "ending"
    BY <1>1, <1>2, <2>2, <2>11 DEF Stage
  <2>14. Life!End(c)
    BY <1>2, <2>12, <2>13, OneMoves DEF Life!End
  <2>15. QED
    BY <2>10, <2>14 DEF LifeStep, Life!LifeNext
<1>10. QED
  BY <1>8, <1>9

(* The connection is ending already, and goes on ending: its object is     *)
(* still in the map.                                                       *)
LEMMA CloseIsInvisible ==
  ASSUME KernelInv, KernelInv', MapInv, UNCHANGED <<reused, corrupt>>,
         NEW l \in Loops, CloseFd(l)
  PROVE  MapInv' /\ LifeStep
<1>0. PICK c \in Conns, n \in Fds : c = cur[l] /\ n = fdOf[c]
  BY DEF CloseFd, KernelInv, ClosingInv, OpenAtHand, FdOfCur
<1>1. /\ pc[l] = "close" /\ c \notin registered /\ closing[c]
      /\ open[n] = c /\ peer[c] = "accepted"
  BY <1>0
     DEF CloseFd, KernelInv, ClosingInv, BacklogInv, OpenAtHand, FdOfCur
<1>2. /\ open'[n] = NoConn
      /\ \A f \in Fds \ {n} : open'[f] = open[f]
      /\ registered' = registered
      /\ pc'[l] = "queue"
      /\ \A k \in Loops \ {l} : pc'[k] = pc[k]
      /\ UNCHANGED <<peer, fdOf, object, loopOf, deaf, connections_, cur, tasks,
                     closing>>
  BY <1>0, <1>1 DEF CloseFd, FdOfCur, KernelInv, CodeTypeOK, ReactorTypeOK
<1>3. \A d \in Conns : SameConn(d)
  BY <1>2 DEF SameConn
<1>4. \A k \in Loops : FdOfCur(k)' = FdOfCur(k)
  BY <1>2 DEF FdOfCur
<1>5. OnNumber(l, n)
  BY <1>0, <1>2, <1>3, <1>4 DEF OnNumber, FdOfCur
<1>6. KeyInv'
  BY <1>2 DEF MapInv, KeyInv
<1>7. PICK s \in [Loops -> Nat] : \A f \in Fds : EraseKept(f, s)
  BY <1>2, SameQueues
<1>8. CASE n \in reused
  BY <1>5, <1>6, <1>7, <1>8, OnNumberKeeps, OnReusedNumber
<1>9. CASE n \notin reused
  <2>1. MapAt(n)
    BY <1>9 DEF MapInv
  <2>2. /\ connections_[n] = c
        /\ object[c] = "alive"
        /\ c \notin deaf
    BY <1>0, <1>1, <2>1, ReactorAssumption
       DEF MapAt, AliveAt, EntryAt, DeafAt, InCallbackOf, FdOfCur
  <2>3. \A k \in Loops : pc'[k] = "insert" <=> pc[k] = "insert"
    BY <1>1, <1>2
  <2>4. EntryAt(n)'
    BY <1>1, <1>2, <2>1, <2>2, <2>3, ReactorAssumption DEF MapAt, EntryAt
  <2>5. OwnedAt(n)'
    <3>1. \A d \in Conns : loopOf[d] \in Loops
      BY DEF KernelInv, CodeTypeOK, ReactorTypeOK
    <3>2. QED
      BY <1>2, <2>1, <2>3, <3>1 DEF MapAt, OwnedAt
  <2>6. AliveAt(n)'
    <3>1. \A k \in Loops : InCallbackOf(k)' => k = l \/ InCallbackOf(k)
      BY <1>2 DEF InCallbackOf
    <3>2. QED
      BY <1>0, <1>2, <1>4, <2>1, <2>2, <2>3, <3>1 DEF MapAt, AliveAt
  <2>7. DeafAt(n)'
    BY <1>2, <2>1 DEF MapAt, DeafAt
  <2>8. EraseAt(n)'
    BY <1>1, <1>2, <2>1, ReactorAssumption DEF MapAt, EraseAt, ErasesOf, Queued
  <2>9. ServedAt(n)'
    BY <1>2 DEF ServedAt
  <2>10. MapAt(n)'
    BY <2>4, <2>5, <2>6, <2>7, <2>8, <2>9 DEF MapAt
  <2>11. MapInv'
    BY <1>5, <1>6, <1>7, <2>10, OnNumberKeeps
  <2>12. ASSUME NEW d \in Conns, d # c
         PROVE  Stage(d)' = Stage(d)
    <3>1. IsOpen(d)' <=> IsOpen(d)
      BY <1>1, <1>2, <2>12, ReactorAssumption DEF IsOpen
    <3>2. QED
      BY <1>2, <1>3, <3>1, SameStage
  <2>13. Stage(c) = "ending" /\ Stage(c)' = "ending"
    BY <1>1, <1>2, <2>2 DEF Stage
  <2>14. \A d \in Conns : Stage(d)' = Stage(d)
    BY <2>12, <2>13
  <2>15. QED
    BY <1>2, <2>11, <2>14, Confuses
<1>10. QED
  BY <1>8, <1>9

(* One erase is queued per connection, on the loop that owns it.           *)
LEMMA QueueEraseIsInvisible ==
  ASSUME KernelInv, KernelInv', MapInv, UNCHANGED <<reused, corrupt>>,
         NEW l \in Loops, QueueErase(l)
  PROVE  MapInv' /\ LifeStep
<1>0. PICK c \in Conns, n \in Fds : c = cur[l] /\ n = fdOf[c]
  BY DEF QueueErase, KernelInv, LeavingInv, FdOfCur
<1>1. pc[l] = "queue" /\ loopOf[c] = l /\ open[n] # c /\ FdOfCur(l) = n
  BY <1>0 DEF QueueErase, KernelInv, LeavingInv, AtHome, FdOfCur
<1>2. PICK task \in Task : task = [kind |-> "erase", fd |-> n]
  BY DEF Task
<1>3. /\ tasks' = [tasks EXCEPT ![l] = Append(@, task)]
      /\ pc'[l] = "return"
      /\ \A k \in Loops \ {l} : pc'[k] = pc[k]
      /\ UNCHANGED <<peer, open, fdOf, object, loopOf, registered, deaf,
                     connections_, cur, closing>>
  BY <1>0, <1>1, <1>2
     DEF QueueErase, QueueInLoop, kernel, objects, KernelInv, CodeTypeOK,
         ReactorTypeOK
<1>4. \A k \in Loops : \A i \in 1 .. Len(tasks'[k]) :
        \/ i \in 1 .. Len(tasks[k]) /\ tasks'[k][i] = tasks[k][i]
        \/ k = l /\ i = Len(tasks[l]) + 1 /\ tasks'[k][i] = task
  BY <1>3, AppendedTask
<1>5. \A d \in Conns : SameConn(d)
  BY <1>3 DEF SameConn
<1>6. \A k \in Loops : FdOfCur(k)' = FdOfCur(k)
  BY <1>3 DEF FdOfCur
<1>7. OnNumber(l, n)
  BY <1>1, <1>3, <1>5, <1>6 DEF OnNumber
<1>8. KeyInv'
  BY <1>3 DEF MapInv, KeyInv
<1>9. PICK s \in [Loops -> Nat] : \A f \in Fds \ {n} : EraseKept(f, s)
  <2> DEFINE zero == [k \in Loops |-> 0]
  <2>1. \A k \in Loops : \A i \in 1 .. Len(tasks[k]) : i + zero[k] = i
    <3>1. \A k \in Loops : Len(tasks[k]) \in Nat /\ zero[k] = 0
      BY DEF KernelInv, CodeTypeOK, ReactorTypeOK
    <3>2. QED
      BY <3>1
  <2>2. zero \in [Loops -> Nat]
    OBVIOUS
  <2>3. task.fd = n
    BY <1>2
  <2> HIDE DEF zero
  <2>4. \A f \in Fds \ {n} : EraseKept(f, zero)
    BY <1>4, <2>1, <2>3 DEF EraseKept, ErasesOf, Queued
  <2>5. QED
    BY <2>2, <2>4
<1>10. \A d \in Conns : Stage(d)' = Stage(d)
  BY <1>3, <1>5, SameStage DEF IsOpen
<1>11. LifeStep
  BY <1>3, <1>10, Confuses
<1>12. ASSUME n \notin reused
       PROVE  MapAt(n)'
  <2>1. MapAt(n)
    BY <1>12 DEF MapInv
  <2>2. connections_[n] = c
    BY <1>0, <1>1, <2>1 DEF MapAt, AliveAt, InCallbackOf
  <2>3. open[n] = NoConn
    BY <1>1, <2>1, <2>2, ReactorAssumption DEF MapAt, EntryAt
  <2>4. \A k \in Loops : pc'[k] = "insert" <=> pc[k] = "insert"
    BY <1>1, <1>3
  <2>5. EntryAt(n)' /\ DeafAt(n)'
    BY <1>3, <2>1, <2>4 DEF MapAt, EntryAt, DeafAt
  <2>6. OwnedAt(n)'
    <3>1. \A d \in Conns : loopOf[d] \in Loops
      BY DEF KernelInv, CodeTypeOK, ReactorTypeOK
    <3>2. QED
      BY <1>3, <2>1, <2>4, <3>1 DEF MapAt, OwnedAt
  <2>7. AliveAt(n)'
    <3>1. \A k \in Loops : InCallbackOf(k)' => InCallbackOf(k)
      BY <1>1, <1>3 DEF InCallbackOf
    <3>2. QED
      BY <1>3, <1>6, <2>1, <2>4, <3>1 DEF MapAt, AliveAt
  <2>8. \A k \in Loops : \A i \in 1 .. Len(tasks[k]) : ~ErasesOf(n, k, i)
    BY <1>1, <2>1 DEF MapAt, EraseAt
  <2>9. \A k \in Loops : \A i \in 1 .. Len(tasks'[k]) :
          ErasesOf(n, k, i)' => k = l /\ i = Len(tasks[l]) + 1
    BY <1>4, <2>8 DEF ErasesOf, Queued
  <2>10. ASSUME NEW k \in Loops, pc'[k] = "queue", FdOfCur(k)' = n
         PROVE  FALSE
    <3>1. k # l /\ pc[k] = "queue" /\ FdOfCur(k) = n
      BY <1>3, <1>6, <2>10
    <3>2. cur[k] = c
      BY <2>1, <2>2, <3>1 DEF MapAt, AliveAt, InCallbackOf
    <3>3. loopOf[cur[k]] = k
      BY <3>1, ThreadsAtWork DEF InCallbackOf
    <3>4. QED
      BY <1>1, <3>1, <3>2, <3>3
  <2>11. EraseAt(n)'
    <3> SUFFICES ASSUME NEW k \in Loops, NEW i \in 1 .. Len(tasks'[k]),
                        ErasesOf(n, k, i)'
                 PROVE  /\ connections_'[n] # NoConn
                        /\ loopOf'[connections_'[n]] = k
                        /\ open'[n] = NoConn
                        /\ \A m \in Loops : pc'[m] = "queue" => FdOfCur(m)' # n
                        /\ \A m \in Loops : \A j \in 1 .. Len(tasks'[m]) :
                             ErasesOf(n, m, j)' => m = k /\ j = i
      BY DEF EraseAt
    <3>1. k = l /\ i = Len(tasks[l]) + 1
      BY <2>9
    <3>2. connections_'[n] = c /\ loopOf'[c] = k /\ c # NoConn
      BY <1>1, <1>3, <2>2, <3>1, ReactorAssumption
    <3>3. QED
      BY <1>3, <2>3, <2>9, <2>10, <3>1, <3>2
  <2>12. ServedAt(n)'
    BY <1>3, <2>3 DEF ServedAt
  <2>13. QED
    BY <2>5, <2>6, <2>7, <2>11, <2>12 DEF MapAt
<1>13. QED
  BY <1>7, <1>8, <1>9, <1>11, <1>12, OnNumberKeeps

(* The erase destroys the object of the connection that queued it, whose   *)
(* thread is in no callback, and the number is free; or its number has     *)
(* been reused.                                                            *)
LEMMA EraseReleases ==
  ASSUME KernelInv, KernelInv', MapInv, UNCHANGED <<reused, corrupt>>,
         NEW l \in Loops, RunErase(l)
  PROVE  MapInv' /\ LifeStep
<1>1. pc[l] = "run" /\ turn[l] > 0 /\ TaskTaken(l)
  BY DEF RunErase, NextTaskIs
<1>2. 1 \in 1 .. Len(tasks[l]) /\ Head(tasks[l]) = tasks[l][1]
  BY <1>1, TakenTask
<1>3. PICK n \in Fds : n = tasks[l][1].fd
  BY <1>2, TaskNumbers
<1>4. ErasesOf(n, l, 1)
  BY <1>2, <1>3 DEF RunErase, NextTaskIs, ErasesOf, Queued
<1>5. /\ connections_'[n] = NoConn
      /\ \A f \in Fds \ {n} : connections_'[f] = connections_[f]
      /\ object' = DestroyOwnedBy(n)
      /\ UNCHANGED <<peer, open, fdOf, loopOf, registered, deaf, pc, cur,
                     closing>>
  BY <1>2, <1>3 DEF RunErase, kernel, KernelInv, CodeTypeOK, ReactorTypeOK
<1>6. \A d \in Conns : /\ object'[d] = "none" <=> object[d] = "none"
                       /\ fdOf[d] # n => object'[d] = object[d]
                       /\ d # connections_[n] => object'[d] = object[d]
                       /\ d = connections_[n] => object'[d] = "freed"
  BY <1>5, DestroyedAt DEF MapInv
<1>7. OnNumber(l, n)
  <2>1. \A d \in Conns : fdOf[d] # n => SameConn(d)
    BY <1>5, <1>6 DEF SameConn
  <2>2. QED
    BY <1>1, <1>5, <2>1 DEF OnNumber, InCallbackOf
<1>8. KeyInv'
  <2>1. deaf \subseteq Conns
    BY DEF KernelInv, CodeTypeOK, ReactorTypeOK
  <2>2. \A f \in Fds : connections_'[f] # NoConn => fdOf[connections_'[f]] = f
    BY <1>5 DEF MapInv, KeyInv
  <2>3. QED
    BY <1>5, <1>6, <2>1, <2>2 DEF MapInv, KeyInv
<1>9. PICK s \in [Loops -> Nat] : s[l] = 1 /\ \A f \in Fds : EraseKept(f, s)
  BY <1>1, ShiftedQueue
<1>10. CASE n \in reused
  BY <1>7, <1>8, <1>9, <1>10, OnNumberKeeps, OnReusedNumber
<1>11. CASE n \notin reused
  <2>1. MapAt(n)
    BY <1>11 DEF MapInv
  <2>2. PICK c \in Conns : c = connections_[n]
    BY <1>2, <1>4, <2>1 DEF MapAt, EraseAt, KernelInv, CodeTypeOK, ReactorTypeOK
  <2>3. /\ loopOf[c] = l /\ open[n] = NoConn /\ fdOf[c] = n
        /\ object[c] = "alive" /\ closing[c]
    BY <1>2, <1>4, <2>1, <2>2, ReactorAssumption
       DEF MapAt, EraseAt, EntryAt, MapInv, KeyInv
  <2>4. /\ c \notin registered /\ c \notin deaf /\ peer[c] = "accepted"
        /\ ~IsOpen(c)
    BY <2>1, <2>3, ReactorAssumption
       DEF KernelInv, RegisteredInv, BacklogInv, MapAt, DeafAt, IsOpen
  <2>5. object'[c] = "freed" /\ \A d \in Conns \ {c} : object'[d] = object[d]
    BY <1>6, <2>2
  <2>6. \A k \in Loops : pc[k] = "insert" => FdOfCur(k) # n
    BY <2>3, ThreadsAtWork, ReactorAssumption
  <2>7. \A k \in Loops : InCallbackOf(k) => FdOfCur(k) # n
    <3> SUFFICES ASSUME NEW k \in Loops, InCallbackOf(k), FdOfCur(k) = n
                 PROVE  FALSE
      OBVIOUS
    <3>1. cur[k] = c
      BY <2>1, <2>2 DEF MapAt, AliveAt
    <3>2. k = l
      BY <2>3, <3>1, ThreadsAtWork
    <3>3. QED
      BY <1>1, <3>2 DEF InCallbackOf
  <2>8. ASSUME NEW d \in Conns, fdOf[d] = n, object'[d] = "alive"
        PROVE  FALSE
    <3>1. d # c /\ object[d] = "alive" /\ loopOf[d] \in Loops
      BY <2>5, <2>8 DEF KernelInv, CodeTypeOK, ReactorTypeOK
    <3>2. cur[loopOf[d]] = d /\ pc[loopOf[d]] = "insert"
      BY <2>1, <2>2, <2>8, <3>1 DEF MapAt, OwnedAt
    <3>3. QED
      BY <2>6, <2>8, <3>1, <3>2 DEF FdOfCur
  <2>9. EntryAt(n)' /\ ServedAt(n)'
    BY <1>5, <2>3 DEF EntryAt, ServedAt
  <2>10. OwnedAt(n)'
    BY <1>5, <2>8 DEF OwnedAt
  <2>11. AliveAt(n)'
    <3>1. \A d \in registered : fdOf[d] # n
      BY <2>3, ReactorAssumption
         DEF KernelInv, RegisteredInv, CodeTypeOK, ReactorTypeOK
    <3>2. \A k \in Loops : FdOfCur(k)' = FdOfCur(k)
                           /\ (InCallbackOf(k)' <=> InCallbackOf(k))
      BY <1>5 DEF FdOfCur, InCallbackOf
    <3>3. QED
      BY <1>5, <2>6, <2>7, <3>1, <3>2 DEF AliveAt
  <2>12. DeafAt(n)'
    <3>1. \A d \in deaf : fdOf[d] = n => d \in Conns \ {c} /\ object[d] = "alive"
      BY <2>1, <2>4 DEF MapAt, DeafAt, KernelInv, CodeTypeOK, ReactorTypeOK
    <3>2. \A d \in deaf : fdOf[d] # n
      BY <2>5, <2>8, <3>1
    <3>3. QED
      BY <1>5, <3>2 DEF DeafAt
  <2>13. EraseAt(n)'
    <3> SUFFICES ASSUME NEW k \in Loops, NEW i \in 1 .. Len(tasks'[k]),
                        ErasesOf(n, k, i)'
                 PROVE  FALSE
      BY DEF EraseAt
    <3>1. i + s[k] \in 1 .. Len(tasks[k]) /\ ErasesOf(n, k, i + s[k])
      BY <1>9 DEF EraseKept
    <3>2. k = l /\ i + s[k] = 1
      BY <1>2, <1>4, <2>1, <3>1 DEF MapAt, EraseAt
    <3>3. i \in Int /\ i >= 1
      OBVIOUS
    <3>4. QED
      BY <1>9, <3>2, <3>3
  <2>14. MapAt(n)'
    BY <2>9, <2>10, <2>11, <2>12, <2>13 DEF MapAt
  <2>15. MapInv'
    BY <1>7, <1>8, <1>9, <2>14, OnNumberKeeps
  <2>16. \A d \in Conns : IsOpen(d)' <=> IsOpen(d)
    BY <1>5 DEF IsOpen
  <2>17. \A d \in Conns \ {c} : SameConn(d)
    BY <1>5, <2>5 DEF SameConn
  <2>18. \A d \in Conns \ {c} : Stage(d)' = Stage(d)
    BY <1>7, <2>3, <2>16, <2>17, OneOnNumber
  <2>19. Stage(c) = "ending" /\ Stage(c)' = "over"
    BY <1>5, <2>3, <2>4, <2>5, <2>16 DEF Stage
  <2>20. Life!Release(c)
    BY <1>5, <2>18, <2>19, OneMoves DEF Life!Release
  <2>21. QED
    BY <2>15, <2>20 DEF LifeStep, Life!LifeNext
<1>12. QED
  BY <1>10, <1>11
----------------------------------------------------------------------------
(* A thread finds a destroyed object only under a number that has been     *)
(* reused.                                                                 *)
LEMMA DestroyedIsReused ==
  ASSUME KernelInv, MapInv, NEW l \in Loops, NEW c \in Conns,
         (InCallbackOf(l) /\ cur[l] = c) \/ c \in registered
  PROVE  object[c] = "alive" \/ fdOf[c] \in reused
<1>1. CASE c \in registered
  BY <1>1 DEF KernelInv, RegisteredInv, MapInv, MapAt, AliveAt
<1>2. CASE InCallbackOf(l) /\ cur[l] = c
  <2>1. FdOfCur(l) = fdOf[c] /\ fdOf[c] \in Fds
    BY <1>2, ThreadsAtWork
  <2>2. ASSUME fdOf[c] \notin reused
        PROVE  object[c] = "alive"
    <3>1. MapAt(fdOf[c])
      BY <2>1, <2>2 DEF MapInv
    <3>2. connections_[fdOf[c]] = c
      BY <1>2, <2>1, <3>1 DEF MapAt, AliveAt
    <3>3. QED
      BY <3>1, <3>2, ReactorAssumption DEF MapAt, EntryAt
  <2>3. QED
    BY <2>2
<1>3. QED
  BY <1>1, <1>2

LEMMA DestroyedFails ==
  ASSUME KernelInv, MapInv, NEW l \in Loops, UseDestroyed(l)
  PROVE  LifeStep
<1>1. PICK c \in Conns : Uses(l, c) /\ object[c] = "freed"
  BY DEF UseDestroyed
<1>2. (InCallbackOf(l) /\ cur[l] = c) \/ c \in registered
  BY <1>1 DEF Uses, InCallbackOf, KernelInv, EventInv
<1>3. fdOf[c] \in reused
  BY <1>1, <1>2, DestroyedIsReused
<1>4. Life!Fail
  BY <1>3 DEF UseDestroyed, Life!Fail
<1>5. QED
  BY <1>4 DEF LifeStep, Life!LifeNext

LEMMA InitMap == Init => MapInv /\ Life!LifeInit
<1> SUFFICES ASSUME Init
             PROVE  MapInv /\ Life!LifeInit
  OBVIOUS
<1> USE DEF Init, ReactorInit
<1>1. \A f \in Fds : EntryAt(f) /\ OwnedAt(f) /\ AliveAt(f) /\ DeafAt(f)
  BY DEF EntryAt, OwnedAt, AliveAt, DeafAt, InCallbackOf
<1>2. \A f \in Fds : EraseAt(f) /\ ServedAt(f)
  BY DEF EraseAt, ServedAt
<1>3. KeyInv
  BY DEF KeyInv
<1>4. Life!LifeInit
  BY DEF Stage, Life!LifeInit
<1>5. QED
  BY <1>1, <1>2, <1>3, <1>4 DEF MapInv, MapAt

LEMMA StutterKeepsMap ==
  ASSUME KernelInv, KernelInv', MapInv, UNCHANGED serverVars
  PROVE  MapInv' /\ LifeStep
<1>1. UNCHANGED <<kernel, objects, closing, reused, corrupt, pc, cur, tasks>>
  BY DEF serverVars, reactorVars, loops
<1>2. \A f \in Fds : ThreadsKept(f)
  BY <1>1 DEF ThreadsKept, InCallbackOf
<1>3. PICK s \in [Loops -> Nat] : \A f \in Fds : EraseKept(f, s)
  BY <1>1, SameQueues
<1>4. QED
  BY <1>1, <1>2, <1>3, QuietStep

LEMMA NextKeepsMap ==
  ASSUME KernelInv, MapInv, [Next]_serverVars, ~corrupt'
  PROVE  MapInv' /\ LifeStep
<1>0. KernelInv'
  BY NextKeepsKernel
<1>1. ASSUME NEW c \in Conns, Connect(c), UNCHANGED <<closing, reused, corrupt>>
      PROVE  MapInv' /\ LifeStep
  BY <1>0, <1>1, ConnectArrives
<1>2. ASSUME NEW l \in Loops, ReactorLoopStep(l),
             UNCHANGED <<closing, reused, corrupt>>
      PROVE  MapInv' /\ LifeStep
  <2>1. ASSUME NEW c \in Conns, HandleEvent(l, c)
        PROVE  MapInv' /\ LifeStep
    BY <1>0, <1>2, <2>1, QuietSteps
  <2>2. ASSUME EpollWait(l) \/ HandlerReturns(l) \/ SwapFunctors(l) \/ EndRun(l)
        PROVE  MapInv' /\ LifeStep
    BY <1>0, <1>2, <2>2, QuietSteps
  <2>3. ASSUME CreateConnection(l) \/ InsertConnection(l) \/ RunCreate(l)
        PROVE  MapInv' /\ LifeStep
    BY <1>0, <1>2, <2>3, CreateServes, InsertIsInvisible, RunCreateIsQuiet
  <2>4. QED
    BY <1>2, <2>1, <2>2, <2>3 DEF ReactorLoopStep
<1>3. ASSUME NEW l \in Loops, AcceptorStep, RecordReuse,
             UNCHANGED <<closing, corrupt>>
      PROVE  MapInv' /\ LifeStep
  <2>1. ASSUME NEW c \in Conns, Accept(c)
        PROVE  MapInv' /\ LifeStep
    BY <1>0, <1>3, <2>1, AcceptAccepts
  <2>2. ASSUME HandleListen \/ AcceptFails \/ OnNewConnection
        PROVE  MapInv' /\ LifeStep
    <3>1. UNCHANGED open
      BY <2>2 DEF HandleListen, AcceptFails, OnNewConnection, kernel
    <3>2. UNCHANGED reused
      BY <1>3, <3>1 DEF RecordReuse
    <3>3. QED
      BY <1>0, <1>3, <2>2, <3>2, QuietSteps, OnNewConnectionIsQuiet
  <2>3. QED
    BY <1>3, <2>1, <2>2 DEF AcceptorStep
<1>4. ASSUME NEW l \in Loops, UNCHANGED <<reused, corrupt>>,
             RemoveConnection(l) \/ CloseFd(l) \/ QueueErase(l) \/ RunErase(l)
      PROVE  MapInv' /\ LifeStep
  BY <1>0, <1>4, RemoveEnds, CloseIsInvisible, QueueEraseIsInvisible,
     EraseReleases
<1>5. CASE UNCHANGED serverVars
  BY <1>0, <1>5, StutterKeepsMap
<1>6. QED
  BY <1>1, <1>2, <1>3, <1>4, <1>5 DEF Next, LoopStep, UseDestroyed

(* The invariant, as long as no thread has used a destroyed object.        *)
IInv == TypeOK /\ (corrupt \/ (KernelInv /\ MapInv))

LEMMA NextKeepsAll ==
  ASSUME IInv, [Next]_serverVars
  PROVE  IInv' /\ [Life!LifeNext]_Life!lifeVars
<1>1. TypeOK'
  BY NextKeepsTypes DEF IInv
<1>2. CASE corrupt
  <2>1. corrupt' = TRUE
    BY <1>1, <1>2, CorruptStays DEF TypeOK
  <2>2. Life!Fail
    BY <1>2, <2>1 DEF Life!Fail
  <2>3. QED
    BY <1>1, <2>1, <2>2 DEF IInv, Life!LifeNext
<1>3. CASE ~corrupt /\ corrupt'
  <2>1. \E l \in Loops : UseDestroyed(l)
    BY <1>3 DEF Next, LoopStep, serverVars
  <2>2. LifeStep
    BY <1>3, <2>1, DestroyedFails DEF IInv
  <2>3. QED
    BY <1>1, <1>3, <2>2 DEF IInv, LifeStep
<1>4. CASE ~corrupt'
  <2>1. KernelInv /\ MapInv
    BY <1>4, CorruptStays DEF IInv
  <2>2. KernelInv' /\ MapInv' /\ LifeStep
    BY <1>4, <2>1, NextKeepsKernel, NextKeepsMap
  <2>3. QED
    BY <1>1, <2>2 DEF IInv, LifeStep
<1>5. QED
  BY <1>2, <1>3, <1>4

LEMMA MapCorrect == Spec => []IInv
<1>1. Init => IInv
  BY InitKernel, InitMap DEF Init, IInv, TypeOK, KernelInv, CodeTypeOK
<1>2. IInv /\ [Next]_serverVars => IInv'
  BY NextKeepsAll
<1>3. QED
  BY <1>1, <1>2, PTL DEF Spec

----------------------------------------------------------------------------
(* Whatever numbers the kernel returns, a callback, an event or an epoll   *)
(* set refers to a destroyed channel only if accept() has returned the     *)
(* channel's number while it was a key of the map: all others are          *)
(* destroyed after their callbacks have returned (HttpServer.cpp:190-192). *)
THEOREM DanglesCorrect == Spec => []DanglesOnlyIfReused
<1>1. IInv => DanglesOnlyIfReused
  <2> SUFFICES ASSUME KernelInv, MapInv, NEW c \in Conns,
                      \/ c \in registered
                      \/ \E l \in Loops : InCallback(l, c) \/ c \in active[l]
               PROVE  object[c] = "alive" \/ fdOf[c] \in reused
    BY DEF IInv, DanglesOnlyIfReused
  <2>1. CASE c \in registered
    <3>1. mainLoop_ \in Loops
      BY ReactorAssumption DEF Loops, mainLoop_
    <3>2. QED
      BY <2>1, <3>1, DestroyedIsReused
  <2>2. ASSUME NEW l \in Loops, InCallback(l, c) \/ c \in active[l]
        PROVE  object[c] = "alive" \/ fdOf[c] \in reused
    <3>1. (InCallbackOf(l) /\ cur[l] = c) \/ c \in registered
      BY <2>2 DEF InCallback, InCallbackOf, KernelInv, EventInv
    <3>2. QED
      BY <3>1, DestroyedIsReused
  <2>3. QED
    BY <2>1, <2>2
<1>2. QED
  BY <1>1, MapCorrect, PTL

(* No descriptor leaks (README.md:53): as long as it is open, a channel is *)
(* registered for it or the thread that closes it is at work, unless its   *)
(* number has been accepted too early.                                     *)
THEOREM ServedCorrect == Spec => []OpenFdIsServed
<1>1. IInv => OpenFdIsServed
  BY DEF IInv, MapInv, MapAt, ServedAt, OpenFdIsServed, InCallback
<1>2. QED
  BY <1>1, MapCorrect, PTL

(* HttpServer implements the life of a connection as ConnectionLife has    *)
(* it: the client is accepted under a number nobody has, served or refused *)
(* by epoll, and ends once, and its number is free only after that.  A     *)
(* number that is accepted while an erase of it is queued is shared, and   *)
(* the connections that have it are the only ones that may get confused,   *)
(* until a thread uses an object that a late erase has destroyed.          *)
THEOREM ServerImplementsLife == Spec => ImplementsLife
<1>1. IInv /\ [Next]_serverVars => [Life!LifeNext]_Life!lifeVars
  BY NextKeepsAll
<1>2. Init => Life!LifeInit
  BY InitMap
<1>3. QED
  BY <1>1, <1>2, MapCorrect, PTL DEF Spec, ImplementsLife, Life!LifeSpec

(* ... and so no descriptor number is held by two connections, unless it   *)
(* has been shared in this way.                                            *)
THEOREM NumbersCorrect == Spec => []Life!NumbersAreUnique
<1>1. Life!LifeSpec => []Life!NumbersAreUnique
  BY Life!UniqueCorrect
<1>2. QED
  BY <1>1, ServerImplementsLife, PTL DEF ImplementsLife
=============================================================================
