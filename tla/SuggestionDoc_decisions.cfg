SPECIFICATION Spec
CONSTANTS
  ana = ana ben = ben
  Authors = {ana, ben}
  Base <- OneBody
  Lengths = {1, 2}
  Kinds = {"insert", "delete", "resolve"}
  MaxSuggestions = 4
  MaxLength = 4
  MaxClock = 0
SYMMETRY Symmetric
CHECK_DEADLOCK FALSE
INVARIANTS
  DecisionsAreIndependent
  RegistryMatchesMarks
  CardsAreBlocks
PROPERTIES
  SuggestingOnlyProposes
