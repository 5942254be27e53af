SPECIFICATION Spec
CONSTANTS
  Procs = {p1, p2}
  States = {s1, s2}
  Sessions = {m1}
  NoSession = NoSession
  NoState = NoState
  NoProc = NoProc
  Lifetime = 1
  MaxNow = 1
  MaxCallbacks = 1
VIEW ReadAgain
CHECK_DEADLOCK FALSE
PROPERTIES
  CallsEnd
