SPECIFICATION System
CONSTANTS
    ana = ana
    ben = ben
    m1 = m1
    m2 = m2
    Users = {ana, ben}
    McpSessions = {m1, m2}
    NoUser = NoUser
    NoSession = NoSession
    NoCred = NoCred
    Calls = {c1, c2}
    MaxTokens = 2
    Credentials <- MCCredentials
    Deployments <- MCDeployments
    NoEmail = NoEmail
    NoAccount = NoAccount
    Foreign = Foreign
    Nobody = Nobody
    NoId = NoId
    None = None
    Unset = Unset
    Invalid = Invalid
    NoVerdict = NoVerdict
    NoFile = NoFile
    Half = Half
    Away = Away
    CallingCalls = {"c1", "c2"}
    CallingAccounts = {"u", "v"}
    CallingMcpIds = {"s"}
    CallingAttempts = 2
    PortsProcesses = {"p1", "p2"}
    PortsMaxPort = 1
    PortsMaxTurns = 3
    FilesIds = {"i", "j"}
    FilesSaves = {"s1"}
    FilesRequests = {"r1", "r2"}
    FilesLifetime = 1
    SelectionToolsets = {{"appscript"}}
    SelectionPermissionSets <- MCPermissionSets
    SelectionUninstalled = {"gmail"}
    SelectionMaxLaunches = 2
    RunsJobs = {"j1", "j2"}
    RunsWorkers = 1
    RunsMaxCalls = 1
INVARIANTS
    MapsAgree
    SessionIsPersisted
    OwnCredentials
    ActsForItsCaller
    ActsWithinTheMode
    LinksAndReportsHold
    NothingIsPassedOver
PROPERTIES
    AvailableIsOurs
CHECK_DEADLOCK FALSE
