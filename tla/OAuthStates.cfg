SPECIFICATION Spec
CONSTANTS
  Procs = {p1, p2}
  States = {s1, s2}
  Sessions = {m1}
  NoSession = NoSession
  NoState = NoState
  NoProc = NoProc
  Lifetime = 2
  MaxNow = 2
  MaxCallbacks = 2
SYMMETRY Alike
VIEW ReadAgain
CHECK_DEADLOCK FALSE
INVARIANTS
  TypeOK
  AnsweredOnce
  OutcomeIsTrue
PROPERTIES
  RegistrySpec
