---------------------------- MODULE MCReactorLoop ----------------------------
(* Instantiates ReactorLoop for TLC: two posters and two tasks, so that a  *)
(* post can race the swap and a second wake byte finds the one-byte pipe   *)
(* full; two sockets, so that one callback can destroy the other socket    *)
(* inside a batch; two timer ids, so that a callback timer and a bound     *)
(* timer can be pending together.                                          *)
EXTENDS ReactorLoop

CONSTANTS p1, p2, s1, s2, t1, t2

MCPoster == {p1, p2}
MCSock == {s1, s2}
MCOneSock == {s1}
MCTimerId == {t1, t2}
MCOneTimer == {t1}
MCNoTimer == {}
MCNoPoster == {}
MCMaxTasks == 2
MCPipeCap == 1
=============================================================================
