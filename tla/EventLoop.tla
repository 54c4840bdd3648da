----------------------------- MODULE EventLoop -----------------------------
(***************************************************************************)
(* One EventLoop (epoll-http-server/src/EventLoop.{h,cpp}): the thread     *)
(* that runs loop(), and the other threads that hand it work through       *)
(* queueInLoop() or stop it through quit().                                *)
(*                                                                         *)
(* Every step that another thread can observe is an action: the push under *)
(* mutex_, the eventfd write that follows it outside the lock, the epoll   *)
(* wait, each callback, the swap of the pending vector, each functor and   *)
(* the test of quit_.  The bodies of callbacks and functors are abstract:  *)
(* they may queue functors or quit the loop, and they return.              *)
(***************************************************************************)
EXTENDS Naturals, Sequences, FiniteSets

CONSTANTS
  LoopThread,     \* the thread threadId_ names
  Posters,        \* the other threads that use this loop
  Quitters,       \* the threads that call quit()
  Channels,       \* the channels registered besides wakeupChannel_
  wakeupChannel_, \* the channel of the eventfd
  kMaxEvents,     \* size of the buffer given to epoll_wait
  MaxPosts        \* BOUND: functors queued by one thread

Threads == Posters \cup {LoopThread}

ASSUME ThreadsAssumption == LoopThread \notin Posters /\ Quitters \subseteq Threads

ASSUME EpollAssumption ==
  /\ IsFiniteSet(Channels)
  /\ wakeupChannel_ \notin Channels
  /\ kMaxEvents \in Nat \ {0}

ASSUME BoundAssumption == MaxPosts \in Nat

VARIABLES
  pc,               \* where the loop's thread is inside loop()
  quit_,            \* the atomic flag
  readable,         \* the eventfd counter is not zero
  ready,            \* channels whose fd has an event (level triggered)
  active,           \* events of this turn not dispatched yet
  pendingFunctors_, \* the vector guarded by mutex_
  functors,         \* the vector doPendingFunctors swapped out
  stage,            \* stage[t]: t is between the state change and wakeup()
  posted,           \* posted[t]: functors queued by t so far
  ran               \* HISTORY: functors in the order they were executed

vars == <<pc, quit_, readable, ready, active, pendingFunctors_, functors,
          stage, posted, ran>>

Task == [by : Threads, seq : 1 .. MaxPosts]

LoopPC == {"enter", "test", "wait", "dispatch", "callback", "swap", "run",
           "functor", "exit"}

----------------------------------------------------------------------------
(* The constructor: wakeupChannel_.enableReading() has put the eventfd in  *)
(* the epoll set, quit_ is false and nothing is pending.                   *)
Init ==
  /\ pc = "enter"
  /\ quit_ = FALSE
  /\ readable = FALSE
  /\ ready = {}
  /\ active = {}
  /\ pendingFunctors_ = <<>>
  /\ functors = <<>>
  /\ stage = [t \in Threads |-> "idle"]
  /\ posted = [t \in Threads |-> 0]
  /\ ran = <<>>

(* A thread calls into the loop object from its own code; the loop's own   *)
(* thread does so only from a callback or a functor.  (runInLoop is        *)
(* queueInLoop on another thread; on the loop's own it calls cb directly,  *)
(* so cb is then part of the callback or functor that is running.)         *)
MayCall(t) ==
  /\ stage[t] = "idle"
  /\ t = LoopThread => pc \in {"callback", "functor"}

(* queueInLoop up to the end of the locked scope.                          *)
Push(t) ==
  LET task == [by |-> t, seq |-> posted[t] + 1]
  IN /\ posted[t] < MaxPosts
     /\ posted' = [posted EXCEPT ![t] = @ + 1]
     /\ pendingFunctors_' = Append(pendingFunctors_, task)
     /\ UNCHANGED <<pc, quit_, readable, ready, active, functors, ran>>

QueueInLoopWithoutWakeup(t) ==   \* seeded fault: the wakeup() call is missing
  MayCall(t) /\ Push(t) /\ UNCHANGED stage

QueueInLoop(t) ==
  /\ MayCall(t)
  /\ Push(t)
  /\ stage' = [stage EXCEPT ![t] = "waking"]

QuitWithoutWakeup(t) ==          \* seeded fault: quit() only stores the flag
  /\ t \in Quitters
  /\ MayCall(t)
  /\ quit_' = TRUE
  /\ UNCHANGED <<pc, readable, ready, active, pendingFunctors_, functors,
                 stage, posted, ran>>

Quit(t) ==
  /\ t \in Quitters
  /\ MayCall(t)
  /\ quit_' = TRUE
  /\ stage' = [stage EXCEPT ![t] = "waking"]
  /\ UNCHANGED <<pc, readable, ready, active, pendingFunctors_, functors,
                 posted, ran>>

(* The eventfd write.  EAGAIN (counter at its maximum) also leaves it      *)
(* readable.                                                               *)
Wakeup(t) ==
  /\ stage[t] = "waking"
  /\ stage' = [stage EXCEPT ![t] = "idle"]
  /\ readable' = TRUE
  /\ UNCHANGED <<pc, quit_, ready, active, pendingFunctors_, functors,
                 posted, ran>>

----------------------------------------------------------------------------
(* The loop's thread.  Control(from, to) also requires that the thread is  *)
(* not inside wakeup().                                                    *)
Control(from, to) ==
  /\ pc = from
  /\ stage[LoopThread] = "idle"
  /\ pc' = to

(* quit_.store(false) on entry to loop().                                  *)
EnterLoop ==
  /\ Control("enter", "test")
  /\ quit_' = FALSE
  /\ UNCHANGED <<readable, ready, active, pendingFunctors_, functors, stage,
                 posted, ran>>

TestQuit ==
  /\ Control("test", IF quit_ THEN "exit" ELSE "wait")
  /\ UNCHANGED <<quit_, readable, ready, active, pendingFunctors_, functors,
                 stage, posted, ran>>

ReadyEvents == ready \cup {c \in {wakeupChannel_} : readable}

EpollWaitIgnoringLimit ==        \* seeded fault: more events than the buffer
  /\ Control("wait", "dispatch")
  /\ ReadyEvents # {}
  /\ active' = ReadyEvents
  /\ UNCHANGED <<quit_, readable, ready, pendingFunctors_, functors, stage,
                 posted, ran>>

(* epoll_wait blocks until something is ready and reports as many events   *)
(* as fit in the buffer.                                                   *)
EpollWait ==
  /\ Control("wait", "dispatch")
  /\ ReadyEvents # {}
  /\ active' \in SUBSET ReadyEvents
  /\ active' # {}
  /\ Cardinality(active') <= kMaxEvents
  /\ Cardinality(active') < kMaxEvents => active' = ReadyEvents
  /\ UNCHANGED <<quit_, readable, ready, pendingFunctors_, functors, stage,
                 posted, ran>>

(* epoll_wait fails with EINTR: an empty vector, and the turn goes on.     *)
EpollInterrupted ==
  /\ Control("wait", "dispatch")
  /\ UNCHANGED <<quit_, readable, ready, active, pendingFunctors_, functors,
                 stage, posted, ran>>

(* handleEvent of wakeupChannel_: the eventfd read resets the counter.     *)
HandleWakeup ==
  /\ Control("dispatch", "dispatch")
  /\ wakeupChannel_ \in active
  /\ active' = active \ {wakeupChannel_}
  /\ readable' = FALSE
  /\ UNCHANGED <<quit_, ready, pendingFunctors_, functors, stage, posted, ran>>

(* handleEvent of another channel: its callback may or may not consume     *)
(* what made the fd ready.                                                 *)
HandleEvent(c) ==
  /\ Control("dispatch", "callback")
  /\ c \in active
  /\ active' = active \ {c}
  /\ ready' \in {ready, ready \ {c}}
  /\ UNCHANGED <<quit_, readable, pendingFunctors_, functors, stage, posted,
                 ran>>

CallbackReturns ==
  /\ Control("callback", "dispatch")
  /\ UNCHANGED <<quit_, readable, ready, active, pendingFunctors_, functors,
                 stage, posted, ran>>

EndDispatch ==
  /\ Control("dispatch", "swap")
  /\ active = {}
  /\ UNCHANGED <<quit_, readable, ready, active, pendingFunctors_, functors,
                 stage, posted, ran>>

SwapFunctorsKeepingPending ==    \* seeded fault: copied instead of swapped
  /\ Control("swap", "run")
  /\ functors' = pendingFunctors_
  /\ UNCHANGED <<quit_, readable, ready, active, pendingFunctors_, stage,
                 posted, ran>>

(* The locked scope of doPendingFunctors.                                  *)
SwapFunctors ==
  /\ Control("swap", "run")
  /\ functors' = pendingFunctors_
  /\ pendingFunctors_' = <<>>
  /\ UNCHANGED <<quit_, readable, ready, active, stage, posted, ran>>

RunFunctor ==
  /\ Control("run", "functor")
  /\ functors # <<>>
  /\ functors' = Tail(functors)
  /\ ran' = Append(ran, Head(functors))
  /\ UNCHANGED <<quit_, readable, ready, active, pendingFunctors_, stage,
                 posted>>

FunctorReturns ==
  /\ Control("functor", "run")
  /\ UNCHANGED <<quit_, readable, ready, active, pendingFunctors_, functors,
                 stage, posted, ran>>

EndRunDrainingWakeup ==          \* seeded fault: eventfd read after the swap
  /\ Control("run", "test")
  /\ functors = <<>>
  /\ readable' = FALSE
  /\ UNCHANGED <<quit_, ready, active, pendingFunctors_, functors, stage,
                 posted, ran>>

EndRun ==
  /\ Control("run", "test")
  /\ functors = <<>>
  /\ UNCHANGED <<quit_, readable, ready, active, pendingFunctors_, functors,
                 stage, posted, ran>>

(* Data or a connection arrives on a registered fd.                        *)
ChannelReady(c) ==
  /\ c \notin ready
  /\ ready' = ready \cup {c}
  /\ UNCHANGED <<pc, quit_, readable, active, pendingFunctors_, functors,
                 stage, posted, ran>>

----------------------------------------------------------------------------
(* The loop's thread, between two calls of a callback into the loop.       *)
LoopStep ==
  \/ EnterLoop \/ TestQuit \/ EpollWait \/ HandleWakeup
  \/ \E c \in Channels : HandleEvent(c)
  \/ CallbackReturns \/ EndDispatch \/ SwapFunctors
  \/ RunFunctor \/ FunctorReturns \/ EndRun

Next ==
  \/ LoopStep
  \/ EpollInterrupted
  \/ \E t \in Threads : QueueInLoop(t) \/ Quit(t) \/ Wakeup(t)
  \/ \E c \in Channels : ChannelReady(c)

Spec == Init /\ [][Next]_vars

(* A runnable thread is eventually scheduled, and a callback or a functor  *)
(* returns: strong fairness, because LoopStep is disabled while the loop's *)
(* own thread is inside wakeup().  Nothing obliges a thread to call        *)
(* queueInLoop or quit, an fd to become ready, or a signal to arrive.      *)
FairSpec ==
  /\ Spec
  /\ SF_vars(LoopStep)
  /\ \A t \in Threads : WF_vars(Wakeup(t))

----------------------------------------------------------------------------
(* Types, and two bounds of the code: a turn never holds more events than  *)
(* the buffer epoll_wait fills, and the swapped-out vector lives only      *)
(* inside doPendingFunctors.                                               *)
TypeOK ==
  /\ pc \in LoopPC
  /\ quit_ \in BOOLEAN
  /\ readable \in BOOLEAN
  /\ ready \in SUBSET Channels
  /\ active \in SUBSET (Channels \cup {wakeupChannel_})
  /\ Cardinality(active) <= kMaxEvents
  /\ pendingFunctors_ \in Seq(Task)
  /\ functors \in Seq(Task)
  /\ functors # <<>> => pc \in {"run", "functor"}
  /\ stage \in [Threads -> {"idle", "waking"}]
  /\ posted \in [Threads -> 0 .. MaxPosts]
  /\ ran \in Seq(Task)

WakeupComing == readable \/ \E t \in Threads : stage[t] = "waking"

(* The loop never sleeps on work: when its thread is blocked in epoll_wait *)
(* while functors are pending or quit_ is set, the eventfd is readable or  *)
(* some thread has yet to write it (queueInLoop pushes before it wakes,    *)
(* handleWakeup reads the counter before doPendingFunctors swaps).         *)
NoLostWakeup ==
  pc = "wait" /\ (pendingFunctors_ # <<>> \/ quit_) => WakeupComing

(* The pending vector, the swapped-out vector and what has run form the    *)
(* one FIFO TaskQueue describes: nothing reordered, dropped or run twice.  *)
TQ == INSTANCE TaskQueue WITH Tasks    <- Task,
                              log      <- ran \o functors \o pendingFunctors_,
                              executed <- Len(ran)

ImplementsTaskQueue == TQ!TaskSpec

(* Every functor given to queueInLoop is eventually executed, unless the   *)
(* loop is told to quit.                                                   *)
EveryFunctorRuns ==
  \A t \in Threads : \A n \in 1 .. MaxPosts :
    posted[t] >= n ~> ( \/ quit_
                        \/ \E i \in DOMAIN ran : ran[i] = [by |-> t, seq |-> n] )

(* quit() on a loop that has passed its first quit_.store(false) makes     *)
(* loop() return, whatever the loop is doing and whoever calls.            *)
QuitStopsLoop == (quit_ /\ pc # "enter") ~> (pc = "exit")
=============================================================================
