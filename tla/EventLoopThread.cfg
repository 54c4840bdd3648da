\* One owner that queues up to three functors before it destroys the thread,
\* and a loop whose functors queue up to three more.
CONSTANTS
  LoopThread = loopThread
  Owner = owner
  Posters = {owner}
  Quitters = {owner}
  Channels = {}
  wakeupChannel_ = wakeup
  kMaxEvents = 1
  MaxPosts = 3
SPECIFICATION ThreadFairSpec
INVARIANTS ThreadTypeOK ReturnedLoopIsLive
PROPERTIES StartLoopTerminates DtorJoinsRunningLoop
\* The owner may never destroy the object, or has destroyed it.
CHECK_DEADLOCK FALSE
