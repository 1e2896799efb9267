\* Expected to be violated: a peer that stops reading keeps the reactor
\* thread inside Send.  Spec gives the peer no fairness.
CONSTANTS
  s1 = s1
  Sock <- MCSock
  MaxBytes <- MCMaxBytes
  SendCap <- MCSendCap
  ExpandLen <- MCExpandLen
  ExpandMax <- MCExpandMax
  PerEpoll = FALSE

SPECIFICATION Spec

PROPERTY SendReturns

CHECK_DEADLOCK FALSE
