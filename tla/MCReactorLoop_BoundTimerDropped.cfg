\* A timeout bound to a socket that is destroyed before it expires.
\* Expected to be violated: see PROJECT.json findings.
CONSTANTS
  p1 = p1
  p2 = p2
  s1 = s1
  s2 = s2
  t1 = t1
  t2 = t2
  Poster <- MCNoPoster
  Sock <- MCOneSock
  TimerId <- MCOneTimer
  MaxTasks <- MCMaxTasks
  PipeCap <- MCPipeCap

SPECIFICATION Spec

INVARIANT BoundTimerDropped

CHECK_DEADLOCK FALSE
