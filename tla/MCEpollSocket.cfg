\* One socket in the default (EPOLLONESHOT) mode and a listening socket;
\* the peer owes nothing (WriteDrains assumes its reading itself).  The
\* reactor blocks in epoll_wait for ever once its only socket is destroyed,
\* so a state with no successor is a legal end.
CONSTANTS
  s1 = s1
  Sock <- MCSock
  MaxBytes <- MCMaxBytes
  SendCap <- MCSendCap
  ExpandLen <- MCExpandLen
  ExpandMax <- MCExpandMax
  PerEpoll = FALSE

SPECIFICATION Spec

INVARIANT TypeOK
INVARIANT InActionsMatchesEpoll
INVARIANT RegistrationSucceeds
INVARIANT ReadDrains
PROPERTY WriteDrains
PROPERTY AcceptDrains

CHECK_DEADLOCK FALSE
