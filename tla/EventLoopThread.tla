-------------------------- MODULE EventLoopThread --------------------------
(***************************************************************************)
(* EventLoopThread (epoll-http-server/src/EventLoopThread.{h,cpp}): the    *)
(* owner starts a thread, waits on a condition variable until the thread   *)
(* has published the EventLoop on its stack, uses the loop, and in the     *)
(* destructor quits it and joins the thread.  The loop inside the thread   *)
(* is the one of module EventLoop, whose actions are composed here.        *)
(***************************************************************************)
EXTENDS EventLoop

CONSTANT Owner   \* the thread that owns the EventLoopThread object

(* The only caller of quit() in the repository is ~EventLoopThread.        *)
ASSUME OwnerAssumption == Owner \in Posters /\ Quitters = {Owner}

VARIABLES
  loop_,    \* the member: TRUE when it points to the loop
  owner,    \* where the owner is in startLoop() and ~EventLoopThread()
  thread,   \* where the started thread is in threadFunc()
  returned  \* what startLoop() returned: TRUE for a non-null pointer

ownVars == <<loop_, owner, thread, returned>>

allVars == <<vars, loop_, owner, thread, returned>>

OwnerPC == {"new", "lock", "blocked", "return", "started", "dtor", "quit",
            "join", "gone"}

ThreadPC == {"none", "construct", "looping", "nulled", "done"}

ThreadInit ==
  /\ Init
  /\ loop_ = FALSE
  /\ owner = "new"
  /\ thread = "none"
  /\ returned = FALSE

----------------------------------------------------------------------------
(* startLoop(), in the owner.                                              *)
StartThread ==
  /\ owner = "new"
  /\ owner' = "lock"
  /\ thread' = "construct"
  /\ UNCHANGED <<vars, loop_, returned>>

WaitWithoutPredicate ==          \* seeded fault: cond_.wait(lock), no test
  /\ owner = "lock"
  /\ owner' = "blocked"
  /\ UNCHANGED <<vars, loop_, thread, returned>>

(* cond_.wait tests the predicate with mutex_ held, and releases mutex_    *)
(* in the same step as it blocks.                                          *)
WaitForLoop ==
  /\ owner = "lock"
  /\ owner' = IF loop_ THEN "return" ELSE "blocked"
  /\ UNCHANGED <<vars, loop_, thread, returned>>

SpuriousWakeupReturns ==         \* seeded fault: the predicate is not re-read
  /\ owner = "blocked"
  /\ owner' = "return"
  /\ UNCHANGED <<vars, loop_, thread, returned>>

(* A condition variable may wake without a notification.                   *)
SpuriousWakeup ==
  /\ owner = "blocked"
  /\ owner' = "lock"
  /\ UNCHANGED <<vars, loop_, thread, returned>>

(* "return loop_" reads the member after mutex_ was released.              *)
StartLoopReturns ==
  /\ owner = "return"
  /\ owner' = "started"
  /\ returned' = loop_
  /\ UNCHANGED <<vars, loop_, thread>>

----------------------------------------------------------------------------
(* ~EventLoopThread(), in the owner.  It may begin at any time after       *)
(* startLoop() has returned and the owner is not inside queueInLoop().     *)
BeginDtor ==
  /\ owner = "started"
  /\ stage[Owner] = "idle"
  /\ owner' = IF loop_ THEN "dtor" ELSE "join"
  /\ UNCHANGED <<vars, loop_, thread, returned>>

(* loop_->quit(): the store, then (action Wakeup) the eventfd write.       *)
DtorQuit ==
  /\ owner = "dtor"
  /\ owner' = "quit"
  /\ Quit(Owner)
  /\ UNCHANGED <<loop_, thread, returned>>

DtorQuitReturns ==
  /\ owner = "quit"
  /\ stage[Owner] = "idle"
  /\ owner' = "join"
  /\ UNCHANGED <<vars, loop_, thread, returned>>

DtorJoin ==
  /\ owner = "join"
  /\ thread = "done"
  /\ owner' = "gone"
  /\ UNCHANGED <<vars, loop_, thread, returned>>

----------------------------------------------------------------------------
(* threadFunc(), in the started thread.                                    *)
(* The locked scope: set loop_ and notify the owner if it is blocked.      *)
PublishLoop ==
  /\ thread = "construct"
  /\ thread' = "looping"
  /\ loop_' = TRUE
  /\ owner' = IF owner = "blocked" THEN "lock" ELSE owner
  /\ UNCHANGED <<vars, returned>>

ClearLoopKeepingPointer ==       \* seeded fault: loop_ = nullptr is missing
  /\ thread = "looping"
  /\ pc = "exit"
  /\ stage[LoopThread] = "idle"
  /\ thread' = "nulled"
  /\ UNCHANGED <<vars, loop_, owner, returned>>

(* loop_ = nullptr, without the lock, once loop() has returned.            *)
ClearLoop ==
  /\ thread = "looping"
  /\ pc = "exit"
  /\ stage[LoopThread] = "idle"
  /\ thread' = "nulled"
  /\ loop_' = FALSE
  /\ UNCHANGED <<vars, owner, returned>>

(* The EventLoop on the thread's stack is destroyed; the thread ends.      *)
DestroyLoop ==
  /\ thread = "nulled"
  /\ thread' = "done"
  /\ UNCHANGED <<vars, loop_, owner, returned>>

----------------------------------------------------------------------------
(* The steps of the loop and of the threads that use it.  A thread has the *)
(* loop's address only once startLoop() has returned, and the owner is the *)
(* one who stops using it.                                                 *)
LoopRuns ==
  /\ thread = "looping"
  /\ LoopStep
  /\ UNCHANGED ownVars

UseLoop ==
  /\ \/ thread = "looping" /\ (EpollInterrupted \/ QueueInLoop(LoopThread))
     \/ owner = "started" /\ \E t \in Posters : QueueInLoop(t)
  /\ UNCHANGED ownVars

(* The write may come after DestroyLoop when t is the owner inside quit(): *)
(* wakeupFd_ is then read from a destroyed object, and whatever the write  *)
(* reaches it is not this loop's eventfd, so no step of the loop sees it.  *)
WriteWakeup(t) ==
  /\ Wakeup(t)
  /\ UNCHANGED ownVars

StartLoop == StartThread \/ WaitForLoop \/ StartLoopReturns

Dtor == DtorQuit \/ DtorQuitReturns \/ DtorJoin

ThreadFunc == PublishLoop \/ ClearLoop \/ DestroyLoop

ThreadNext ==
  \/ StartLoop \/ SpuriousWakeup \/ BeginDtor \/ Dtor
  \/ ThreadFunc \/ LoopRuns \/ UseLoop
  \/ \E t \in Threads : WriteWakeup(t)

ThreadSpec == ThreadInit /\ [][ThreadNext]_allVars

(* The operating system runs both threads, and callbacks return.  Nothing  *)
(* obliges the owner to destroy the object, or the wait to wake by itself. *)
ThreadFairSpec ==
  /\ ThreadSpec
  /\ WF_allVars(StartLoop)
  /\ WF_allVars(Dtor)
  /\ WF_allVars(ThreadFunc)
  /\ SF_allVars(LoopRuns)
  /\ \A t \in Threads : WF_allVars(WriteWakeup(t))

----------------------------------------------------------------------------
(* Types of the members and program counters; and loop_ is set exactly     *)
(* from its publication until loop() has returned.                         *)
ThreadTypeOK ==
  /\ loop_ \in BOOLEAN
  /\ owner \in OwnerPC
  /\ thread \in ThreadPC
  /\ returned \in BOOLEAN
  /\ loop_ = (thread = "looping")

(* startLoop() returns a pointer, and as long as the owner has not asked   *)
(* the loop to quit the pointer refers to a loop that exists: neither the  *)
(* read of loop_ after the unlock nor the early notification can spoil it. *)
ReturnedLoopIsLive ==
  owner \in {"started", "dtor"} => returned /\ loop_ /\ thread = "looping"

(* startLoop() returns, whichever of the wait and the notification comes   *)
(* first: the predicate makes an early notification harmless.              *)
StartLoopTerminates == owner = "lock" ~> owner = "started"

(* The destructor of a thread whose loop has already entered its while     *)
(* loop ends with the thread joined, whatever the loop is doing.           *)
DtorJoinsRunningLoop == (owner = "dtor" /\ pc # "enter") ~> owner = "gone"

(* EventLoopThreadPool.cpp:10, "EventLoopThread joins its own thread in    *)
(* the destructor": the destructor terminates, with the thread joined.     *)
DtorJoins == owner = "dtor" ~> owner = "gone"
=============================================================================
