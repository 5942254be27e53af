SPECIFICATION Spec
CONSTANTS
  ana = ana ben = ben
  Authors = {ana, ben}
  Base <- ShortBody
  Lengths = {1}
  Kinds = {"insert", "delete", "replace", "edit", "resolve", "reply"}
  MaxSuggestions = 3
  MaxLength = 4
  MaxClock = 4
VIEW MarksAndThreads
SYMMETRY Symmetric
CHECK_DEADLOCK FALSE
INVARIANTS
  OneCardPerAuthorAndChar
  MergeIsClosure
PROPERTIES
  PostsSurviveEdits
