\* Two foreign threads and the loop's own callbacks queue two functors each;
\* a batch of two events, with two channels and the eventfd competing for it.
CONSTANTS
  LoopThread = loopThread
  Posters = {p1, p2}
  Quitters = {p1, p2, loopThread}
  Channels = {listen, conn}
  wakeupChannel_ = wakeup
  kMaxEvents = 2
  MaxPosts = 2
SPECIFICATION Spec
SYMMETRY PosterSymmetry
INVARIANTS TypeOK NoLostWakeup
PROPERTY ImplementsTaskQueue
\* loop() returns after quit(), and the posting threads may have no more to do.
CHECK_DEADLOCK FALSE
