------------------------------ MODULE MCWindow -------------------------------
(* Two Windows and two HWND values: enough for a value to be freed and      *)
(* handed out again, to another Window or to a foreign control.            *)
EXTENDS Window

CONSTANTS w1, w2, h1, h2

MCWin == {w1, w2}
MCHwnd == {h1, h2}
=============================================================================
