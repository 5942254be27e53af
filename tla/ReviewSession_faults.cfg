SPECIFICATION Spec
CONSTANTS
  Calls = {c1}
  Ids = {1, 2, 3, 4}
  MaxResolutions = 2
  Body = {2}
  Mine = {1, 2}
  Initial = {1}
  Typos = {4}
  Tools = {"suggest", "resolve"}
  Faults = {"no_effect", "degraded_read", "failed_read", "lost_response", "evicted"}
CHECK_DEADLOCK FALSE
INVARIANTS
  TypeOK
  CreatedIsNewAndOurs
  ResolutionsAreOrdered
