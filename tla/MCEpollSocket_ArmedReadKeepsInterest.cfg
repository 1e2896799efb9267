\* Expected to be violated: see PROJECT.json findings.
CONSTANTS
  s1 = s1
  Sock <- MCSock
  MaxBytes <- MCMaxBytes
  SendCap <- MCSendCap
  ExpandLen <- MCExpandLen
  ExpandMax <- MCExpandMax
  PerEpoll = FALSE

SPECIFICATION FairSpec

INVARIANT ArmedReadKeepsInterest

CHECK_DEADLOCK FALSE
