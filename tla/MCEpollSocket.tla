--------------------------- MODULE MCEpollSocket ----------------------------
(* Instantiates EpollSocket for TLC: one socket, two bytes each way and a  *)
(* one-byte kernel send queue, so that the Send loop meets EWOULDBLOCK.    *)
EXTENDS EpollSocket

CONSTANTS s1

MCSock == {s1}
MCMaxBytes == 2
MCSendCap == 1
MCExpandLen == 1
MCExpandMax == 2
=============================================================================
