----------------------------- MODULE TaskQueue -----------------------------
(***************************************************************************)
(* What EventLoop promises the callers of queueInLoop: one total order of  *)
(* the functors handed over by all threads, executed on the loop's thread  *)
(* in that order, each at most once.  The state is the order itself, log,  *)
(* and how much of it has been executed.                                   *)
(***************************************************************************)
EXTENDS Naturals, Sequences

CONSTANT Tasks

VARIABLES
  log,       \* every functor handed over so far, oldest first
  executed   \* how many of them have been executed (or started)

taskVars == <<log, executed>>

TaskInit == log = <<>> /\ executed = 0

Post(task) ==
  /\ \A i \in 1 .. Len(log) : log[i] # task
  /\ log' = Append(log, task)
  /\ UNCHANGED executed

Execute ==
  /\ executed < Len(log)
  /\ executed' = executed + 1
  /\ UNCHANGED log

TaskNext == Execute \/ \E task \in Tasks : Post(task)

TaskSpec == TaskInit /\ [][TaskNext]_taskVars

----------------------------------------------------------------------------
TaskTypeOK == log \in Seq(Tasks) /\ executed \in 0 .. Len(log)

(* No functor is handed over twice, so none is executed twice.             *)
AtMostOnce == \A i, j \in 1 .. Len(log) : log[i] = log[j] => i = j
=============================================================================
