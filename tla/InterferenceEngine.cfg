SPECIFICATION EngineSpec
CONSTANTS
    me = me
    bob = bob
    Authors = {me, bob}
    Base <- BodyAndHeader
    Lengths = {1}
    Kinds = {}
    MaxSuggestions = 20
    MaxLength = 9
    MaxClock = 9
    Me = me
    Seed <- BobsCardAndComment
    Scripts <- MCScripts
    CallMenu <- MCCalls
    MaxCalls = 3
INVARIANTS
    FiringFollowsTheCalls
    RecordTellsTheRun
    SecondEditorIsSound
CHECK_DEADLOCK FALSE
