\* The destructor, at any time after startLoop() has returned.
CONSTANTS
  LoopThread = loopThread
  Owner = owner
  Posters = {owner}
  Quitters = {owner}
  Channels = {}
  wakeupChannel_ = wakeup
  kMaxEvents = 1
  MaxPosts = 1
SPECIFICATION ThreadFairSpec
PROPERTY DtorJoins
\* The owner may never destroy the object, or has destroyed it.
CHECK_DEADLOCK FALSE
