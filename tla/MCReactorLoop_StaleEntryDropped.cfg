\* Two sockets in one epoll_wait batch; the first one's callback destroys
\* the second.  Expected to be violated: see PROJECT.json findings.
CONSTANTS
  p1 = p1
  p2 = p2
  s1 = s1
  s2 = s2
  t1 = t1
  t2 = t2
  Poster <- MCNoPoster
  Sock <- MCSock
  TimerId <- MCNoTimer
  MaxTasks <- MCMaxTasks
  PipeCap <- MCPipeCap

SPECIFICATION Spec

INVARIANT StaleEntryDropped

CHECK_DEADLOCK FALSE
