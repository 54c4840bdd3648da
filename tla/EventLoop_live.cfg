\* A foreign thread or the loop's own callbacks may call quit(), or nobody does.
CONSTANTS
  LoopThread = loopThread
  Posters = {p1, p2}
  Quitters = {p1, loopThread}
  Channels = {conn}
  wakeupChannel_ = wakeup
  kMaxEvents = 1
  MaxPosts = 1
SPECIFICATION FairSpec
PROPERTIES EveryFunctorRuns QuitStopsLoop
\* loop() returns after quit().
CHECK_DEADLOCK FALSE
