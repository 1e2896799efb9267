\* Is IteratorValid violated by the code?
CONSTANTS
  w1 = w1
  w2 = w2
  h1 = h1
  h2 = h2
  NoWin = NoWin
  NoHwnd = NoHwnd
  Win <- MCWin
  Hwnd <- MCHwnd
SPECIFICATION Spec
INVARIANT IteratorValid
\* Undefined behaviour ends the GUI thread (pc = "crashed"): it stops there.
CHECK_DEADLOCK FALSE
