SPECIFICATION Spec
CONSTANTS
  Calls = {c1}
  Ids = {1, 2, 3}
  MaxResolutions = 3
  Body = {1, 2}
  Mine = {1, 2, 3}
  Initial = {1, 2, 3}
  Typos = {}
  Tools = {"list", "resolve"}
  Faults = {"no_effect", "degraded_read"}
CHECK_DEADLOCK FALSE
INVARIANTS
  EchoIsKept
  RefutedHadNoEffect
  OwnRemovalIsNotDenied
