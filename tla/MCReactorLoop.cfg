\* The loop, the task queue, Dealloc and timers, with one socket and one
\* timer id.  Once the loop has closed or crashed, or blocks in an
\* indefinite epoll_wait with nothing left to do, no step remains: a legal
\* end.
CONSTANTS
  p1 = p1
  p2 = p2
  s1 = s1
  s2 = s2
  t1 = t1
  t2 = t2
  Poster <- MCPoster
  Sock <- MCOneSock
  TimerId <- MCOneTimer
  MaxTasks <- MCMaxTasks
  PipeCap <- MCPipeCap

SPECIFICATION Spec

INVARIANT TypeOK
PROPERTY TaskQueueSpec
PROPERTY DeallocStopsLoop
PROPERTY RepeatingTimerFires

CHECK_DEADLOCK FALSE
