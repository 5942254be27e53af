SPECIFICATION Spec
CONSTANTS
  Calls = {c1, c2}
  Ids = {1, 2}
  MaxResolutions = 2
  Body = {1}
  Mine = {}
  Initial = {1, 2}
  Typos = {}
  Tools = {"list", "resolve"}
  Faults = {"no_effect", "marks_lost"}
CHECK_DEADLOCK FALSE
SYMMETRY Symmetric
VIEW WithoutHistory
INVARIANTS
  VerdictIsTrue
  CollateralIsGone
  LandedIsGone
