SPECIFICATION BatchSpec
CONSTANTS
  ana = ana ben = ben
  Authors = {ana, ben}
  Base <- BodyAndHeader
  Lengths = {1}
  Kinds = {}
  MaxSuggestions = 4
  MaxLength = 2
  MaxClock = 2
  MaxRequests = 2
  RequestTypes = {"insertText", "deleteContentRange", "replaceAllText", "acceptSuggestion", "rejectSuggestion", "deleteSuggestion", "addCommentReply"}
VIEW Present
CONSTRAINT LastIdAlone
SYMMETRY Symmetric
CHECK_DEADLOCK FALSE
INVARIANTS
  CreatedIdsSurviveMerges
  NewCardsAreReported
PROPERTIES
  RegistrySpec
