-------------------------- MODULE EventLoop_proofs --------------------------
(***************************************************************************)
(* Theorems about EventLoop for every set of threads and channels, every   *)
(* kMaxEvents and every MaxPosts; then, from ThreadRunsLoop on, theorems   *)
(* about EventLoopThread for any owner, any other threads that use the     *)
(* loop and anything they queue on it.  The first part does not cite       *)
(* OwnerAssumption: who may call quit() is a matter of the second.         *)
(***************************************************************************)
EXTENDS EventLoopThread, SequenceTheorems, FiniteSetTheorems, TLAPS

(* Moving the head of the swapped-out vector to the history does not       *)
(* change the overall order.                                               *)
LEMMA MoveHead ==
  ASSUME NEW S, NEW a \in Seq(S), NEW b \in Seq(S), NEW c \in Seq(S),
         b # <<>>
  PROVE  Append(a, Head(b)) \o Tail(b) \o c = a \o b \o c
<1>1. Head(b) \in S /\ Tail(b) \in Seq(S)
  BY HeadTailProperties
<1>2. <<Head(b)>> \in Seq(S)
  BY <1>1
<1>3. Append(a, Head(b)) = a \o <<Head(b)>>
  BY <1>1, AppendIsConcat
<1>4. <<Head(b)>> \o Tail(b) = b
  <2>1. <<Head(b)>> \o Tail(b) \in Seq(S)
    BY <1>1, <1>2, ConcatProperties
  <2>2. Len(<<Head(b)>> \o Tail(b)) = Len(b)
    BY <1>1, <1>2, ConcatProperties, HeadTailProperties, EmptySeq, LenProperties
  <2>3. \A i \in 1 .. Len(b) : (<<Head(b)>> \o Tail(b))[i] = b[i]
    BY <1>1, <1>2, ConcatProperties, HeadTailProperties, EmptySeq, LenProperties
  <2>4. QED
    BY <2>1, <2>2, <2>3, SeqEqual
<1>5. (a \o <<Head(b)>>) \o Tail(b) = a \o b
  BY <1>1, <1>2, <1>4, ConcatAssociative
<1>6. QED
  BY <1>3, <1>5

(* Appending to the pending vector appends to the overall order.           *)
LEMMA AppendLast ==
  ASSUME NEW S, NEW a \in Seq(S), NEW b \in Seq(S), NEW c \in Seq(S),
         NEW e \in S
  PROVE  a \o b \o Append(c, e) = Append(a \o b \o c, e)
<1>1. a \o b \in Seq(S) /\ <<e>> \in Seq(S)
  BY ConcatProperties
<1>2. a \o b \o c \in Seq(S)
  BY <1>1, ConcatProperties
<1>3. a \o b \o (c \o <<e>>) = (a \o b \o c) \o <<e>>
  BY <1>1, ConcatAssociative
<1>4. QED
  BY <1>2, <1>3, AppendIsConcat

----------------------------------------------------------------------------
(* A batch that shrinks keeps within the buffer.                           *)
LEMMA BatchShrinks ==
  ASSUME NEW A \in SUBSET (Channels \cup {wakeupChannel_}), NEW c,
         Cardinality(A) <= kMaxEvents
  PROVE  /\ A \ {c} \in SUBSET (Channels \cup {wakeupChannel_})
         /\ Cardinality(A \ {c}) <= kMaxEvents
<1>1. IsFiniteSet(Channels \cup {wakeupChannel_})
  BY EpollAssumption, FS_AddElement
<1>2. IsFiniteSet(A)
  BY <1>1, FS_Subset
<1>3. /\ IsFiniteSet(A \ {c})
      /\ Cardinality(A \ {c}) <= Cardinality(A)
      /\ Cardinality(A) \in Nat
      /\ Cardinality(A \ {c}) \in Nat
  BY <1>2, FS_Subset, FS_CardinalityType
<1>4. QED
  BY <1>3, EpollAssumption

(* Types and buffer bounds hold in every reachable state.                  *)
THEOREM TypeCorrect == Spec => []TypeOK
<1>1. Init => TypeOK
  <2>1. Cardinality({}) = 0 /\ <<>> \in Seq(Task)
    BY FS_EmptySet, EmptySeq
  <2> SUFFICES ASSUME Init
               PROVE  TypeOK
    OBVIOUS
  <2>2. /\ pendingFunctors_ \in Seq(Task)
        /\ functors \in Seq(Task)
        /\ ran \in Seq(Task)
        /\ functors = <<>>
    BY <2>1 DEF Init
  <2>3. /\ active = {}
        /\ Cardinality(active) <= kMaxEvents
    BY <2>1, EpollAssumption DEF Init
  <2>4. /\ stage \in [Threads -> {"idle", "waking"}]
        /\ posted \in [Threads -> 0 .. MaxPosts]
    BY BoundAssumption DEF Init
  <2>5. QED
    BY <2>2, <2>3, <2>4 DEF Init, TypeOK, LoopPC
<1>2. TypeOK /\ [Next]_vars => TypeOK'
  <2> SUFFICES ASSUME TypeOK, [Next]_vars
               PROVE  TypeOK'
    OBVIOUS
  <2> USE DEF TypeOK, LoopPC
  <2>1. ASSUME NEW t \in Threads, QueueInLoop(t)
        PROVE  TypeOK'
    <3>1. [by |-> t, seq |-> posted[t] + 1] \in Task
      BY <2>1, BoundAssumption DEF QueueInLoop, Push, Task
    <3>2. pendingFunctors_' \in Seq(Task)
      BY <2>1, <3>1, AppendProperties DEF QueueInLoop, Push
    <3>3. posted' \in [Threads -> 0 .. MaxPosts]
      BY <2>1, BoundAssumption DEF QueueInLoop, Push
    <3>4. stage' \in [Threads -> {"idle", "waking"}]
      BY <2>1 DEF QueueInLoop
    <3>5. QED
      BY <2>1, <3>2, <3>3, <3>4 DEF QueueInLoop, Push
  <2>2. ASSUME NEW t \in Threads, Quit(t)
        PROVE  TypeOK'
    BY <2>2 DEF Quit
  <2>3. ASSUME NEW t \in Threads, Wakeup(t)
        PROVE  TypeOK'
    BY <2>3 DEF Wakeup
  <2>4. CASE EnterLoop
    BY <2>4 DEF EnterLoop, Control
  <2>5. CASE TestQuit
    BY <2>5 DEF TestQuit, Control
  <2>6. CASE EpollWait
    BY <2>6 DEF EpollWait, Control, ReadyEvents
  <2>7. CASE EpollInterrupted
    BY <2>7 DEF EpollInterrupted, Control
  <2>8. CASE HandleWakeup
    BY <2>8, BatchShrinks DEF HandleWakeup, Control
  <2>9. ASSUME NEW c \in Channels, HandleEvent(c)
        PROVE  TypeOK'
    BY <2>9, BatchShrinks DEF HandleEvent, Control
  <2>10. CASE CallbackReturns
    BY <2>10 DEF CallbackReturns, Control
  <2>11. CASE EndDispatch
    BY <2>11 DEF EndDispatch, Control
  <2>12. CASE SwapFunctors
    BY <2>12, EmptySeq DEF SwapFunctors, Control
  <2>13. CASE RunFunctor
    BY <2>13, HeadTailProperties, AppendProperties DEF RunFunctor, Control
  <2>14. CASE FunctorReturns
    BY <2>14 DEF FunctorReturns, Control
  <2>15. CASE EndRun
    BY <2>15 DEF EndRun, Control
  <2>16. ASSUME NEW c \in Channels, ChannelReady(c)
         PROVE  TypeOK'
    BY <2>16 DEF ChannelReady
  <2>17. CASE UNCHANGED vars
    BY <2>17 DEF vars
  <2>18. QED
    BY <2>1, <2>2, <2>3, <2>4, <2>5, <2>6, <2>7, <2>8, <2>9, <2>10, <2>11,
       <2>12, <2>13, <2>14, <2>15, <2>16, <2>17
    DEF Next, LoopStep
<1>3. QED
  BY <1>1, <1>2, PTL DEF Spec

----------------------------------------------------------------------------
(* The strengthening of NoLostWakeup.  Work that arrived before the swap   *)
(* of this turn needs no wakeup; work that arrived after it, and a quit_   *)
(* this turn has not tested, do.                                           *)
PendingCovered ==
  pendingFunctors_ # <<>> =>
    WakeupComing \/ pc \in {"dispatch", "callback", "swap"}

QuitCovered == quit_ => WakeupComing \/ pc # "wait"

WakeupInv == PendingCovered /\ QuitCovered

(* The loop's thread never sleeps while functors are pending or quit_ is   *)
(* set without a wakeup under way.                                         *)
THEOREM WakeupCorrect == Spec => []NoLostWakeup
<1>1. Init => WakeupInv
  BY DEF Init, WakeupInv, PendingCovered, QuitCovered
<1>2. TypeOK /\ WakeupInv /\ [Next]_vars => WakeupInv'
  <2> SUFFICES ASSUME TypeOK, WakeupInv, [Next]_vars
               PROVE  WakeupInv'
    OBVIOUS
  <2> USE DEF WakeupInv, PendingCovered, QuitCovered, WakeupComing
  <2>1. ASSUME NEW t \in Threads, QueueInLoop(t)
        PROVE  WakeupInv'
    BY <2>1 DEF QueueInLoop, Push, TypeOK
  <2>2. ASSUME NEW t \in Threads, Quit(t)
        PROVE  WakeupInv'
    BY <2>2 DEF Quit, TypeOK
  <2>3. ASSUME NEW t \in Threads, Wakeup(t)
        PROVE  WakeupInv'
    BY <2>3 DEF Wakeup
  <2>4. CASE EnterLoop
    BY <2>4 DEF EnterLoop, Control
  <2>5. CASE TestQuit
    BY <2>5 DEF TestQuit, Control
  <2>6. CASE EpollWait
    BY <2>6 DEF EpollWait, Control
  <2>7. CASE EpollInterrupted
    BY <2>7 DEF EpollInterrupted, Control
  <2>8. CASE HandleWakeup
    BY <2>8 DEF HandleWakeup, Control
  <2>9. ASSUME NEW c \in Channels, HandleEvent(c)
        PROVE  WakeupInv'
    BY <2>9 DEF HandleEvent, Control
  <2>10. CASE CallbackReturns
    BY <2>10 DEF CallbackReturns, Control
  <2>11. CASE EndDispatch
    BY <2>11 DEF EndDispatch, Control
  <2>12. CASE SwapFunctors
    BY <2>12 DEF SwapFunctors, Control
  <2>13. CASE RunFunctor
    BY <2>13 DEF RunFunctor, Control
  <2>14. CASE FunctorReturns
    BY <2>14 DEF FunctorReturns, Control
  <2>15. CASE EndRun
    BY <2>15 DEF EndRun, Control
  <2>16. ASSUME NEW c \in Channels, ChannelReady(c)
         PROVE  WakeupInv'
    BY <2>16 DEF ChannelReady
  <2>17. CASE UNCHANGED vars
    BY <2>17 DEF vars
  <2>18. QED
    BY <2>1, <2>2, <2>3, <2>4, <2>5, <2>6, <2>7, <2>8, <2>9, <2>10, <2>11,
       <2>12, <2>13, <2>14, <2>15, <2>16, <2>17
    DEF Next, LoopStep
<1>3. WakeupInv => NoLostWakeup
  BY DEF WakeupInv, PendingCovered, QuitCovered, NoLostWakeup
<1>4. QED
  BY <1>1, <1>2, <1>3, TypeCorrect, PTL DEF Spec

----------------------------------------------------------------------------
(* The one order of functors: executed, swapped out, pending.              *)
Order == ran \o functors \o pendingFunctors_

(* Every functor in the order has been counted for the thread it names.    *)
OrderCounted == \A i \in 1 .. Len(Order) : Order[i].seq <= posted[Order[i].by]

LEMMA OrderIsASeq ==
  ASSUME TypeOK
  PROVE  /\ Order \in Seq(Task)
         /\ Len(Order) = Len(ran) + Len(functors) + Len(pendingFunctors_)
         /\ Len(ran) \in Nat
         /\ Len(functors) \in Nat
         /\ Len(pendingFunctors_) \in Nat
<1>1. /\ ran \in Seq(Task)
      /\ functors \in Seq(Task)
      /\ pendingFunctors_ \in Seq(Task)
  BY DEF TypeOK
<1>2. /\ ran \o functors \in Seq(Task)
      /\ Len(ran \o functors) = Len(ran) + Len(functors)
  BY <1>1, ConcatProperties
<1>3. QED
  BY <1>1, <1>2, ConcatProperties, LenProperties DEF Order

(* What queueInLoop does to the order: the new functor goes last, and no   *)
(* functor of the order is equal to it.                                    *)
LEMMA PushExtendsOrder ==
  ASSUME TypeOK, OrderCounted, NEW t \in Threads, QueueInLoop(t)
  PROVE  \E task \in Task :
           /\ task.seq = posted'[task.by]
           /\ \A i \in 1 .. Len(Order) : Order[i] # task
           /\ Order' = Append(Order, task)
           /\ ran' = ran
           /\ \A u \in Threads : posted[u] <= posted'[u]
<1> DEFINE task == [by |-> t, seq |-> posted[t] + 1]
<1>1. posted \in [Threads -> 0 .. MaxPosts] /\ posted[t] < MaxPosts
  BY DEF QueueInLoop, Push, TypeOK
<1>2. task \in Task
  BY <1>1, BoundAssumption DEF Task
<1>3. \A u \in Threads : posted[u] <= posted'[u]
  BY <1>1, BoundAssumption DEF QueueInLoop, Push
<1>4. task.seq = posted'[task.by]
  BY <1>1 DEF QueueInLoop, Push
<1>5. \A i \in 1 .. Len(Order) : Order[i] # task
  <2>1. SUFFICES ASSUME NEW i \in 1 .. Len(Order), Order[i] = task
                 PROVE  FALSE
    OBVIOUS
  <2>2. Order[i].seq = posted[t] + 1 /\ Order[i].by = t
    BY <2>1
  <2>3. Order[i].seq <= posted[Order[i].by]
    BY DEF OrderCounted
  <2>4. QED
    BY <1>1, <2>2, <2>3, BoundAssumption
<1>6. Order' = Append(Order, task)
  <2>1. /\ ran' = ran
        /\ functors' = functors
        /\ pendingFunctors_' = Append(pendingFunctors_, task)
    BY DEF QueueInLoop, Push
  <2>2. /\ ran \in Seq(Task)
        /\ functors \in Seq(Task)
        /\ pendingFunctors_ \in Seq(Task)
    BY DEF TypeOK
  <2>3. ran \o functors \o Append(pendingFunctors_, task)
          = Append(ran \o functors \o pendingFunctors_, task)
    <3> HIDE DEF task
    <3>1. QED
      BY <1>2, <2>2, AppendLast
  <2>4. QED
    BY <2>1, <2>3 DEF Order
<1>7. ran' = ran
  BY DEF QueueInLoop, Push
<1>8. QED
  BY <1>2, <1>3, <1>4, <1>5, <1>6, <1>7

(* What starting a functor does: the order stays, one more is executed.    *)
LEMMA RunKeepsOrder ==
  ASSUME TypeOK, RunFunctor
  PROVE  /\ Order' = Order
         /\ Len(ran') = Len(ran) + 1
         /\ Len(ran) < Len(Order)
         /\ posted' = posted
<1>1. /\ functors # <<>>
      /\ ran' = Append(ran, Head(functors))
      /\ functors' = Tail(functors)
      /\ pendingFunctors_' = pendingFunctors_
      /\ posted' = posted
  BY DEF RunFunctor
<1>2. Order' = Order
  <2>1. /\ ran \in Seq(Task)
        /\ functors \in Seq(Task)
        /\ pendingFunctors_ \in Seq(Task)
    BY DEF TypeOK
  <2>2. Append(ran, Head(functors)) \o Tail(functors) \o pendingFunctors_
          = ran \o functors \o pendingFunctors_
    BY <1>1, <2>1, MoveHead
  <2>3. QED
    BY <1>1, <2>2 DEF Order
<1>3. Len(ran') = Len(ran) + 1
  BY <1>1, HeadTailProperties, AppendProperties DEF TypeOK
<1>4. Len(functors) > 0
  BY <1>1, EmptySeq DEF TypeOK
<1>5. QED
  BY <1>1, <1>2, <1>3, <1>4, OrderIsASeq

(* The swap happens with nothing swapped out, so the order stays.          *)
LEMMA SwapKeepsOrder ==
  ASSUME TypeOK, SwapFunctors
  PROVE  Order' = Order /\ ran' = ran /\ posted' = posted
<1>1. functors = <<>>
  BY DEF SwapFunctors, Control, TypeOK
<1>2. /\ ran' = ran
      /\ posted' = posted
      /\ functors' = pendingFunctors_
      /\ pendingFunctors_' = <<>>
  BY DEF SwapFunctors
<1>3. ran \o pendingFunctors_ \in Seq(Task)
  BY ConcatProperties DEF TypeOK
<1>4. ran \o <<>> \o pendingFunctors_ = ran \o pendingFunctors_
  BY ConcatEmptySeq DEF TypeOK
<1>5. ran \o pendingFunctors_ \o <<>> = ran \o pendingFunctors_
  BY <1>3, ConcatEmptySeq
<1>6. QED
  BY <1>1, <1>2, <1>4, <1>5 DEF Order

(* Every other step leaves the order alone.                                *)
LEMMA OtherStepsKeepOrder ==
  ASSUME [Next]_vars
  PROVE  \/ \E t \in Threads : QueueInLoop(t)
         \/ RunFunctor
         \/ SwapFunctors
         \/ Order' = Order /\ ran' = ran /\ posted' = posted
<1>1. \/ \E t \in Threads : QueueInLoop(t)
      \/ RunFunctor
      \/ SwapFunctors
      \/ UNCHANGED <<ran, functors, pendingFunctors_, posted>>
  BY DEF Next, LoopStep, vars, Quit, Wakeup, EnterLoop, TestQuit, EpollWait,
         EpollInterrupted, HandleWakeup, HandleEvent, CallbackReturns,
         EndDispatch, FunctorReturns, EndRun, ChannelReady
<1>2. QED
  BY <1>1 DEF Order

(* Every functor in the order carries a number its thread has used.        *)
THEOREM OrderCountedCorrect == Spec => []OrderCounted
<1>1. Init => OrderCounted
  <2> SUFFICES ASSUME Init
               PROVE  OrderCounted
    OBVIOUS
  <2>1. Len(Order) = 0
    BY EmptySeq, ConcatProperties DEF Init, Order
  <2>2. QED
    BY <2>1 DEF OrderCounted
<1>2. TypeOK /\ TypeOK' /\ OrderCounted /\ [Next]_vars => OrderCounted'
  <2> SUFFICES ASSUME TypeOK, TypeOK', OrderCounted, [Next]_vars
               PROVE  OrderCounted'
    OBVIOUS
  <2>1. Order \in Seq(Task) /\ Len(Order) \in Nat
    BY OrderIsASeq
  <2>2. ASSUME NEW t \in Threads, QueueInLoop(t)
        PROVE  OrderCounted'
    <3>1. PICK task \in Task :
            /\ task.seq = posted'[task.by]
            /\ Order' = Append(Order, task)
            /\ \A u \in Threads : posted[u] <= posted'[u]
      BY <2>2, PushExtendsOrder
    <3>2. /\ Len(Order') = Len(Order) + 1
          /\ \A i \in 1 .. Len(Order) : Order'[i] = Order[i]
          /\ Order'[Len(Order) + 1] = task
      BY <2>1, <3>1, AppendProperties
    <3>3. ASSUME NEW i \in 1 .. Len(Order)
          PROVE  Order'[i].seq <= posted'[Order'[i].by]
      <4>1. Order[i] \in Task
        BY <2>1, ElementOfSeq
      <4>2. /\ Order[i].by \in Threads
            /\ Order[i].seq \in Nat
            /\ Order[i].seq <= posted[Order[i].by]
        BY <4>1 DEF Task, OrderCounted
      <4>3. posted[Order[i].by] \in Nat /\ posted'[Order[i].by] \in Nat
        BY <4>2, BoundAssumption DEF TypeOK
      <4>4. posted[Order[i].by] <= posted'[Order[i].by]
        BY <3>1, <4>2
      <4>5. QED
        BY <3>2, <4>2, <4>3, <4>4
    <3>4. Order'[Len(Order) + 1].seq <= posted'[Order'[Len(Order) + 1].by]
      BY <3>1, <3>2 DEF Task
    <3>5. \A i \in 1 .. Len(Order') :
            i \in 1 .. Len(Order) \/ i = Len(Order) + 1
      BY <2>1, <3>2
    <3>6. QED
      BY <3>3, <3>4, <3>5 DEF OrderCounted
  <2>3. CASE Order' = Order /\ posted' = posted
    BY <2>3 DEF OrderCounted
  <2>4. QED
    BY <2>2, <2>3, OtherStepsKeepOrder, RunKeepsOrder, SwapKeepsOrder
<1>3. QED
  BY <1>1, <1>2, TypeCorrect, PTL DEF Spec

(* The loop implements the FIFO task queue: queueInLoop posts, starting a  *)
(* functor executes, every other step is invisible.                        *)
THEOREM LoopImplementsTaskQueue == Spec => ImplementsTaskQueue
<1>1. Init => TQ!TaskInit
  <2> SUFFICES ASSUME Init
               PROVE  TQ!TaskInit
    OBVIOUS
  <2>1. <<>> \o <<>> \o <<>> = <<>>
    BY EmptySeq, ConcatEmptySeq
  <2>2. QED
    BY <2>1, EmptySeq DEF Init, TQ!TaskInit
<1>2. TypeOK /\ OrderCounted /\ [Next]_vars => [TQ!TaskNext]_(TQ!taskVars)
  <2> SUFFICES ASSUME TypeOK, OrderCounted, [Next]_vars
               PROVE  [TQ!TaskNext]_(TQ!taskVars)
    OBVIOUS
  <2>1. ASSUME NEW t \in Threads, QueueInLoop(t)
        PROVE  \E task \in Task : TQ!Post(task)
    BY <2>1, PushExtendsOrder DEF TQ!Post, Order
  <2>2. CASE RunFunctor
    <3>1. TQ!Execute
      BY <2>2, RunKeepsOrder DEF TQ!Execute, Order
    <3>2. QED
      BY <3>1 DEF TQ!TaskNext
  <2>3. CASE Order' = Order /\ ran' = ran
    BY <2>3 DEF Order, TQ!taskVars
  <2>4. QED
    BY <2>1, <2>2, <2>3, OtherStepsKeepOrder, SwapKeepsOrder DEF TQ!TaskNext
<1>3. QED
  BY <1>1, <1>2, TypeCorrect, OrderCountedCorrect, PTL
  DEF Spec, ImplementsTaskQueue, TQ!TaskSpec

----------------------------------------------------------------------------
(* What the task queue promises, under the mapping TQ.                     *)

(* What has been executed is a prefix of what was handed over.             *)
LEMMA TaskTypeCorrect == TQ!TaskSpec => []TQ!TaskTypeOK
<1>1. TQ!TaskInit => TQ!TaskTypeOK
  BY EmptySeq DEF TQ!TaskInit, TQ!TaskTypeOK
<1>2. TQ!TaskTypeOK /\ [TQ!TaskNext]_(TQ!taskVars) => TQ!TaskTypeOK'
  <2> SUFFICES ASSUME TQ!TaskTypeOK, [TQ!TaskNext]_(TQ!taskVars)
               PROVE  TQ!TaskTypeOK'
    OBVIOUS
  <2>1. CASE TQ!Execute
    BY <2>1, LenProperties DEF TQ!Execute, TQ!TaskTypeOK
  <2>2. ASSUME NEW task \in Task, TQ!Post(task)
        PROVE  TQ!TaskTypeOK'
    BY <2>2, AppendProperties, LenProperties DEF TQ!Post, TQ!TaskTypeOK
  <2>3. CASE UNCHANGED TQ!taskVars
    BY <2>3 DEF TQ!taskVars, TQ!TaskTypeOK
  <2>4. QED
    BY <2>1, <2>2, <2>3 DEF TQ!TaskNext
<1>3. QED
  BY <1>1, <1>2, PTL DEF TQ!TaskSpec

(* No task occurs twice in the order, hence none is executed twice.        *)
THEOREM TasksAreDistinct == TQ!TaskSpec => []TQ!AtMostOnce
<1>1. TQ!TaskInit => TQ!AtMostOnce
  BY EmptySeq DEF TQ!TaskInit, TQ!AtMostOnce
<1>2. TQ!TaskTypeOK /\ TQ!AtMostOnce /\ [TQ!TaskNext]_(TQ!taskVars)
        => TQ!AtMostOnce'
  <2> SUFFICES ASSUME TQ!TaskTypeOK, TQ!AtMostOnce,
                      [TQ!TaskNext]_(TQ!taskVars)
               PROVE  TQ!AtMostOnce'
    OBVIOUS
  <2>1. CASE TQ!Execute
    BY <2>1 DEF TQ!Execute, TQ!AtMostOnce
  <2>2. ASSUME NEW task \in Task, TQ!Post(task)
        PROVE  TQ!AtMostOnce'
    <3>1. /\ Len(Order') = Len(Order) + 1
          /\ \A i \in 1 .. Len(Order) : Order'[i] = Order[i]
          /\ Order'[Len(Order) + 1] = task
          /\ Len(Order) \in Nat
      BY <2>2, AppendProperties, LenProperties DEF TQ!Post, TQ!TaskTypeOK, Order
    <3>2. \A i \in 1 .. Len(Order) : Order'[i] # task
      BY <2>2, <3>1 DEF TQ!Post, Order
    <3>3. \A i \in 1 .. Len(Order') :
            i \in 1 .. Len(Order) \/ i = Len(Order) + 1
      BY <3>1
    <3>4. \A i, j \in 1 .. Len(Order) : Order[i] = Order[j] => i = j
      BY DEF TQ!AtMostOnce, Order
    <3>5. \A i, j \in 1 .. Len(Order') : Order'[i] = Order'[j] => i = j
      BY <3>1, <3>2, <3>3, <3>4
    <3>6. QED
      BY <3>5 DEF TQ!AtMostOnce, Order
  <2>3. CASE UNCHANGED TQ!taskVars
    BY <2>3 DEF TQ!taskVars, TQ!AtMostOnce
  <2>4. QED
    BY <2>1, <2>2, <2>3 DEF TQ!TaskNext
<1>3. QED
  BY <1>1, <1>2, TaskTypeCorrect, PTL DEF TQ!TaskSpec

(* No functor given to queueInLoop is executed twice.                      *)
THEOREM FunctorsRunAtMostOnce == Spec => []TQ!AtMostOnce
BY TasksAreDistinct, LoopImplementsTaskQueue, PTL DEF ImplementsTaskQueue

----------------------------------------------------------------------------
(* The loop inside the thread is the one of module EventLoop: the thread   *)
(* that is started, the owner and the destructor only decide when it steps *)
(* (EventLoopThread.cpp:7-34).                                             *)
THEOREM ThreadRunsLoop == ThreadSpec => Spec
<1>1. ThreadInit => Init
  BY DEF ThreadInit
<1>2. [ThreadNext]_allVars => [Next]_vars
  <2> SUFFICES ASSUME [ThreadNext]_allVars
               PROVE  [Next]_vars
    OBVIOUS
  <2>1. CASE StartLoop \/ SpuriousWakeup \/ BeginDtor \/ ThreadFunc
    BY <2>1 DEF StartLoop, StartThread, WaitForLoop, StartLoopReturns,
                SpuriousWakeup, BeginDtor, ThreadFunc, PublishLoop, ClearLoop,
                DestroyLoop
  <2>2. CASE Dtor
    <3>1. Owner \in Threads
      BY OwnerAssumption DEF Threads
    <3>2. CASE DtorQuit
      BY <3>1, <3>2 DEF DtorQuit, Next
    <3>3. CASE DtorQuitReturns \/ DtorJoin
      BY <3>3 DEF DtorQuitReturns, DtorJoin
    <3>4. QED
      BY <2>2, <3>2, <3>3 DEF Dtor
  <2>3. CASE LoopRuns
    BY <2>3 DEF LoopRuns, Next
  <2>4. CASE UseLoop
    BY <2>4 DEF UseLoop, Next, Threads
  <2>5. ASSUME NEW t \in Threads, WriteWakeup(t)
        PROVE  [Next]_vars
    BY <2>5 DEF WriteWakeup, Next
  <2>6. CASE UNCHANGED allVars
    BY <2>6 DEF allVars, vars
  <2>7. QED
    BY <2>1, <2>2, <2>3, <2>4, <2>5, <2>6 DEF ThreadNext
<1>3. QED
  BY <1>1, <1>2, PTL DEF ThreadSpec, Spec

(* ... so a thread that was started never sleeps on work either.           *)
THEOREM ThreadNeverSleepsOnWork == ThreadSpec => []NoLostWakeup
BY ThreadRunsLoop, WakeupCorrect, PTL

(* ... and what is queued on it runs in order, each functor at most once.  *)
THEOREM ThreadImplementsTaskQueue == ThreadSpec => ImplementsTaskQueue
BY ThreadRunsLoop, LoopImplementsTaskQueue, PTL

----------------------------------------------------------------------------
(* The inductive invariant.  Only the destructor asks the loop to quit, so *)
(* the loop returns, and loop_ is cleared, no earlier than that; until     *)
(* then a pointer that startLoop has seen stays valid.                     *)
Quitting == {"quit", "join", "gone"}

QuitInv == quit_ \/ pc = "exit" => owner \in Quitting

LifeInv ==
  /\ thread = "none" <=> owner = "new"
  /\ thread \in {"nulled", "done"} => owner \in Quitting
  /\ owner \in {"return", "started", "dtor"} => thread = "looping"
  /\ owner \in {"started", "dtor"} => returned

ThreadInv == ThreadTypeOK /\ QuitInv /\ LifeInv

LEMMA LoopStepQuits ==
  ASSUME LoopStep, QuitInv, UNCHANGED ownVars
  PROVE  QuitInv'
<1> USE DEF QuitInv, ownVars
<1>1. CASE EnterLoop
  BY <1>1 DEF EnterLoop, Control
<1>2. CASE TestQuit
  BY <1>2 DEF TestQuit, Control
<1>3. CASE EpollWait
  BY <1>3 DEF EpollWait, Control
<1>4. CASE HandleWakeup
  BY <1>4 DEF HandleWakeup, Control
<1>5. ASSUME NEW c \in Channels, HandleEvent(c)
      PROVE  QuitInv'
  BY <1>5 DEF HandleEvent, Control
<1>6. CASE CallbackReturns \/ EndDispatch \/ SwapFunctors
  BY <1>6 DEF CallbackReturns, EndDispatch, SwapFunctors, Control
<1>7. CASE RunFunctor \/ FunctorReturns \/ EndRun
  BY <1>7 DEF RunFunctor, FunctorReturns, EndRun, Control
<1>8. QED
  BY <1>1, <1>2, <1>3, <1>4, <1>5, <1>6, <1>7 DEF LoopStep

LEMMA ThreadNextKeepsInv ==
  ASSUME ThreadInv, [ThreadNext]_allVars
  PROVE  ThreadInv'
<1> USE DEF ThreadInv
<1>1. ASSUME UNCHANGED ownVars, QuitInv'
      PROVE  ThreadInv'
  BY <1>1 DEF ownVars, ThreadTypeOK, LifeInv
<1>2. ASSUME UNCHANGED vars, ThreadTypeOK', LifeInv',
             owner \in Quitting => owner' \in Quitting
      PROVE  ThreadInv'
  BY <1>2 DEF vars, QuitInv
<1> USE DEF Quitting
<1>3. CASE StartThread
  BY <1>2, <1>3 DEF StartThread, ThreadTypeOK, LifeInv, OwnerPC, ThreadPC
<1>4. CASE WaitForLoop
  <2>1. owner' = "return" => thread = "looping"
    BY <1>4 DEF WaitForLoop, ThreadTypeOK
  <2>2. QED
    BY <1>2, <1>4, <2>1
       DEF WaitForLoop, ThreadTypeOK, LifeInv, OwnerPC, ThreadPC
<1>5. CASE SpuriousWakeup
  BY <1>2, <1>5 DEF SpuriousWakeup, ThreadTypeOK, LifeInv, OwnerPC, ThreadPC
<1>6. CASE StartLoopReturns
  BY <1>2, <1>6 DEF StartLoopReturns, ThreadTypeOK, LifeInv, OwnerPC, ThreadPC
<1>7. CASE BeginDtor
  <2>1. owner' = "dtor"
    BY <1>7 DEF BeginDtor, ThreadTypeOK, LifeInv
  <2>2. QED
    BY <1>2, <1>7, <2>1
       DEF BeginDtor, ThreadTypeOK, LifeInv, OwnerPC, ThreadPC
<1>8. CASE DtorQuit
  BY <1>8 DEF DtorQuit, ThreadTypeOK, QuitInv, LifeInv, OwnerPC, ThreadPC
<1>9. CASE DtorQuitReturns
  BY <1>2, <1>9 DEF DtorQuitReturns, ThreadTypeOK, LifeInv, OwnerPC, ThreadPC
<1>10. CASE DtorJoin
  BY <1>2, <1>10 DEF DtorJoin, ThreadTypeOK, LifeInv, OwnerPC, ThreadPC
<1>11. CASE PublishLoop
  BY <1>2, <1>11 DEF PublishLoop, ThreadTypeOK, LifeInv, OwnerPC, ThreadPC
<1>12. CASE ClearLoop
  <2>1. owner \in Quitting
    BY <1>12 DEF ClearLoop, QuitInv
  <2>2. QED
    BY <1>2, <1>12, <2>1 DEF ClearLoop, ThreadTypeOK, LifeInv, ThreadPC
<1>13. CASE DestroyLoop
  BY <1>2, <1>13 DEF DestroyLoop, ThreadTypeOK, LifeInv, OwnerPC, ThreadPC
<1>14. CASE LoopRuns
  BY <1>1, <1>14, LoopStepQuits DEF LoopRuns
<1>15. CASE UseLoop
  <2>1. UNCHANGED <<ownVars, quit_>> /\ (pc' = pc \/ pc' = "dispatch")
    BY <1>15 DEF UseLoop, EpollInterrupted, Control, QueueInLoop, Push
  <2>2. QED
    BY <1>1, <2>1 DEF QuitInv, ownVars
<1>16. ASSUME NEW t \in Threads, WriteWakeup(t)
       PROVE  ThreadInv'
  BY <1>1, <1>16 DEF WriteWakeup, Wakeup, QuitInv, ownVars
<1>17. CASE UNCHANGED allVars
  BY <1>1, <1>17 DEF allVars, vars, ownVars, QuitInv
<1>18. QED
  BY <1>3, <1>4, <1>5, <1>6, <1>7, <1>8, <1>9, <1>10, <1>11, <1>12, <1>13,
     <1>14, <1>15, <1>16, <1>17
     DEF ThreadNext, StartLoop, Dtor, ThreadFunc

LEMMA ThreadInvHolds == ThreadSpec => []ThreadInv
<1>1. ThreadInit => ThreadInv
  BY DEF ThreadInit, Init, ThreadInv, ThreadTypeOK, QuitInv, LifeInv, OwnerPC,
         ThreadPC
<1>2. QED
  BY <1>1, ThreadNextKeepsInv, PTL DEF ThreadSpec

(* The members and program counters keep their types, and loop_ is set     *)
(* exactly from its publication until loop() has returned                  *)
(* (EventLoopThread.cpp:25-34).                                            *)
THEOREM ThreadTypesHold == ThreadSpec => []ThreadTypeOK
<1>1. ThreadInv => ThreadTypeOK
  BY DEF ThreadInv
<1>2. QED
  BY <1>1, ThreadInvHolds, PTL

(* The pointer startLoop() returns, which it reads after it has released   *)
(* mutex_, refers to a loop that exists until the destructor has asked it  *)
(* to quit (EventLoopThread.cpp:16-23).                                    *)
THEOREM ReturnedLoopLives == ThreadSpec => []ReturnedLoopIsLive
<1>1. ThreadInv => ReturnedLoopIsLive
  BY DEF ThreadInv, LifeInv, ThreadTypeOK, ReturnedLoopIsLive
<1>2. QED
  BY <1>1, ThreadInvHolds, PTL
=============================================================================
