SPECIFICATION System
CONSTANTS
    Unused = Unused
    Deleted = Deleted
    Away = Away
    Blank = Blank
    Gradient = Gradient
    Root = Root
    Anyone = Anyone
    Top = Top
    Empty = Empty
    Absent = Absent
    Omitted = Omitted
    Nobody = Nobody
    None = None
    Newline = Newline
    Tab = Tab
    CalendarCalls = {"c1"}
    CalendarEvents = {"e1"}
    CalendarGuests = {"self", "guest"}
    CalendarSelf = "self"
    CalendarMaxWrites = 3
    ContactsCalls = {"c1"}
    ContactsPeople = {"p1"}
    ContactsKeys = {"k1", "k2"}
    ContactsForms = {"v", "w"}
    ContactsMaxVersion = 3
    RowsCalls = {"c1"}
    RowsSheets = {"s1", "s2"}
    RowsRows = {"r"}
    RowsSources = {"s1"}
    RowsPlaces = {1}
    RowsMaxRows = 3
    RowsMaxInsert = 1
    RowsMaxNamed = 2
    TasksCalls = {"c1"}
    TasksLists = {"l1"}
    TasksTaskIds = {"t1", "t2"}
    TasksTexts = {"x", "y"}
    TasksPageMax = 1
    ScriptsCalls = {"c1", "c2"}
    ScriptsProcesses = {"p1", "p2"}
    ScriptsProcessOf <- MCProcessOf
    ScriptsFiles <- MCFiles
    ScriptsSources = {"x"}
    ScriptsDeployments = {"d"}
    ScriptsMaxVersions = 1
INVARIANTS
    ToolsTypeOK
    
    RequestsReachWhatTheyName
PROPERTIES
    NothingElseIsLost
    WritesLandAsMeant
CHECK_DEADLOCK FALSE
