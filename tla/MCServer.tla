------------------------------ MODULE MCServer ------------------------------
(***************************************************************************)
(* The parts of the server around the tools.  They share no state, so a    *)
(* behavior is about one of them, the one in focus.  The parameters of the *)
(* parts the theorems of ServerProofs are about are constants here; those  *)
(* of the other parts, and the values the .cfg gives the rest, are small   *)
(* enough for TLC.                                                         *)
(***************************************************************************)
EXTENDS AccountCredentials, Sequences, FiniteSets, TLC

CONSTANTS
    ana, ben, m1, m2, NoEmail, NoAccount, Foreign, Nobody, NoId, None, Unset,
    Invalid, NoVerdict, NoFile, Half, Away,
    CallingCalls, CallingAccounts, CallingMcpIds, CallingAttempts,
    PortsProcesses, PortsMaxPort, PortsMaxTurns,
    FilesIds, FilesSaves, FilesRequests, FilesLifetime,
    SelectionToolsets, SelectionPermissionSets, SelectionUninstalled, SelectionMaxLaunches,
    RunsJobs, RunsWorkers, RunsMaxCalls

VARIABLES
    focus,  \* the component this behavior is about
    listingMode, listingDefault, listingStored, listingDirectory, listingStates, listingLast, listingSaid,
    callingMode, callingDefault, callingContext, callingCall,
    portsOwner, portsProcess, portsTurns, portsIntruded,
    filesNow, filesDisk, filesEntry, filesSaving, filesRequest, filesUntil, filesDisturbed,
    pagesLive, pagesInRange, pagesTabs, pagesCreated, pagesChanges, pagesSweep,
    quotaLog, quotaLock, quotaUsable, quotaLocal, quotaLimit, quotaCall, quotaSpent, quotaWaived,
    selectionStage, selectionGiven, selectionArgs, selectionOauth21, selectionServices, selectionRegistered, selectionCredentials, selectionCall, selectionLaunches,
    runsHarness, runsAgent, runsServer, runsDisk, runsVerdict, runsReport, runsRebuilt

\* The cards of a document in order, one of them without a mark in the text.
Cards == <<"a", "b", "m", "h", "n", "z">>
CardNames == {Cards[i] : i \in DOMAIN Cards}

\* The accounts a session may name: several, or behind a gateway its own.
MCCredentials ==
    [token : 1..MaxTokens, access : Users, refresh : Users \cup {NoUser}]
Anyones == (m1 :> {ana, ben}) @@ (m2 :> {ben})
OwnOnes == (m1 :> {ana}) @@ (m2 :> {ben})
MCDeployments ==
    [mode : {"files", "oauth21"}, gateway : {FALSE}, serves : {Anyones}]
    \cup [mode : {"files", "stateless"}, gateway : {TRUE}, serves : {OwnOnes}]
ListingSorted == <<"A", "a", "b">>
ListingFold == [e \in {"A", "a", "b"} |-> IF e = "A" THEN "a" ELSE e]
PagesUnmarked == {"m"}
PagesTabOf == [c \in CardNames |-> IF c = "n" THEN "t2" ELSE "t1"]
PagesSegmentOf == [c \in CardNames |-> IF c = "h" THEN "header" ELSE "body"]
PagesAuthorOf == [c \in CardNames |-> IF c \in {"b", "n"} THEN "v" ELSE "u"]
PagesFirstTab == "t1"
PagesBody == "body"
QuotaProcesses == {"p1", "p2"}
QuotaCosts == {1}
MCPermissionSets ==
    {[gmail |-> "organize", tasks |-> "manage"],
     [tasks |-> "full", slides |-> "readonly"]}

-----------------------------------------------------------------------------
Listing == INSTANCE AccountDirectory WITH
    mode <- listingMode, default <- listingDefault, stored <- listingStored,
    directory <- listingDirectory, states <- listingStates, last <- listingLast,
    said <- listingSaid, Sorted <- ListingSorted, Fold <- ListingFold,
    NoEmail <- NoEmail, Capacity <- 1
listingVars == <<listingMode, listingDefault, listingStored, listingDirectory, listingStates, listingLast, listingSaid>>

Calling == INSTANCE ToolCalls WITH
    mode <- callingMode, default <- callingDefault, context <- callingContext,
    call <- callingCall, Calls <- CallingCalls, Accounts <- CallingAccounts,
    NoAccount <- NoAccount, McpIds <- CallingMcpIds, Attempts <- CallingAttempts
callingVars == <<callingMode, callingDefault, callingContext, callingCall>>

Ports == INSTANCE CallbackPorts WITH
    owner <- portsOwner, process <- portsProcess, turns <- portsTurns,
    intruded <- portsIntruded, Processes <- PortsProcesses, Foreign <- Foreign,
    Nobody <- Nobody, MaxPort <- PortsMaxPort, MaxTurns <- PortsMaxTurns
portsVars == <<portsOwner, portsProcess, portsTurns, portsIntruded>>

Files == INSTANCE Attachments WITH
    now <- filesNow, disk <- filesDisk, entry <- filesEntry,
    saving <- filesSaving, request <- filesRequest, until <- filesUntil,
    disturbed <- filesDisturbed, Ids <- FilesIds, Saves <- FilesSaves,
    Requests <- FilesRequests, NoId <- NoId, Lifetime <- FilesLifetime
filesVars == <<filesNow, filesDisk, filesEntry, filesSaving, filesRequest, filesUntil, filesDisturbed>>

Pages == INSTANCE ReviewPages WITH
    live <- pagesLive, inRange <- pagesInRange, tabs <- pagesTabs,
    created <- pagesCreated, changes <- pagesChanges, sweep <- pagesSweep,
    Order <- Cards, Unmarked <- PagesUnmarked, TabOf <- PagesTabOf,
    SegmentOf <- PagesSegmentOf, AuthorOf <- PagesAuthorOf,
    FirstTab <- PagesFirstTab, Body <- PagesBody, None <- None, PageSize <- 1,
    MaxChanges <- 2
pagesVars == <<pagesLive, pagesInRange, pagesTabs, pagesCreated, pagesChanges, pagesSweep>>

Quota == INSTANCE WriteQuota WITH
    log <- quotaLog, lock <- quotaLock, usable <- quotaUsable,
    local <- quotaLocal, limit <- quotaLimit, call <- quotaCall,
    spent <- quotaSpent, waived <- quotaWaived, Processes <- QuotaProcesses,
    Costs <- QuotaCosts, Budget <- 2, MinBudget <- 1, Window <- 2,
    Patience <- 1, Attempts <- 2, Nobody <- Nobody, MaxSpent <- 3
quotaVars == <<quotaLog, quotaLock, quotaUsable, quotaLocal, quotaLimit, quotaCall, quotaSpent, quotaWaived>>

Selection == INSTANCE ToolSelection WITH
    stage <- selectionStage, given <- selectionGiven, args <- selectionArgs,
    oauth21 <- selectionOauth21, services <- selectionServices,
    registered <- selectionRegistered, credentials <- selectionCredentials,
    call <- selectionCall, launches <- selectionLaunches, Unset <- Unset,
    Invalid <- Invalid, Toolsets <- SelectionToolsets,
    PermissionSets <- SelectionPermissionSets,
    Uninstalled <- SelectionUninstalled,
    MaxLaunches <- SelectionMaxLaunches
selectionVars == <<selectionStage, selectionGiven, selectionArgs, selectionOauth21, selectionServices, selectionRegistered, selectionCredentials, selectionCall, selectionLaunches>>

Runs == INSTANCE BenchmarkRuns WITH
    harness <- runsHarness, agent <- runsAgent, server <- runsServer,
    disk <- runsDisk, verdict <- runsVerdict, report <- runsReport,
    rebuilt <- runsRebuilt, Jobs <- RunsJobs, Workers <- RunsWorkers,
    MaxCalls <- RunsMaxCalls
runsVars == <<runsHarness, runsAgent, runsServer, runsDisk, runsVerdict, runsReport, runsRebuilt>>

-----------------------------------------------------------------------------
(* What the parts take of their parameters.                                *)

\* A tool is called once at least.
CallsConstants == CallingAttempts \in Nat \ {0}
ASSUME CallingAssumption == CallsConstants

\* Nobody, and no process of somebody else, is a server of ours.
PortsConstants ==
    /\ PortsMaxPort \in Nat
    /\ Foreign \notin PortsProcesses /\ Nobody \notin PortsProcesses /\ Foreign # Nobody
ASSUME PortsAssumption == PortsConstants

FilesConstants == FilesLifetime \in Nat /\ NoId \notin FilesIds
ASSUME FilesAssumption == FilesConstants

\* Permissions give services of the catalogue levels; no setting and one that is not
\* understood are neither.
LevelNames == {"readonly", "organize", "drafts", "send", "full", "manage"}
LevelSets == UNION {[D -> LevelNames] : D \in SUBSET Selection!Services}
SelectionConstants ==
    /\ SelectionToolsets \subseteq SUBSET Selection!Services
    /\ SelectionPermissionSets \subseteq LevelSets
    /\ {Unset, Invalid} \cap LevelSets = {}
    /\ Unset \notin {"core", "sign_in", "done"}
ASSUME SelectionAssumption == SelectionConstants

\* A batch has an end, and what is missing is none of what could be there.
RunsConstants ==
    /\ IsFiniteSet(RunsJobs) /\ RunsMaxCalls \in Nat
    /\ NoFile \notin Runs!Documents \cup Runs!Records /\ Half \notin Runs!Records
    /\ NoVerdict \notin Runs!Outcomes \cup Runs!Ends
ASSUME RunsAssumption == RunsConstants

-----------------------------------------------------------------------------
Components ==
    {"credentials", "accounts", "calls", "ports", "files", "pages", "quota",
     "selection", "runs"}

SystemInit ==
    /\ focus \in Components
    /\ Init
    \* The others are not there.
    /\ IF focus = "accounts" THEN Listing!Init
       ELSE /\ listingMode = Away /\ listingDefault = Away /\ listingStored = Away
            /\ listingDirectory = Away /\ listingStates = Away /\ listingLast = Away
            /\ listingSaid = Away
    /\ IF focus = "calls" THEN Calling!Init
       ELSE /\ callingMode = Away /\ callingDefault = Away /\ callingContext = Away
            /\ callingCall = Away
    /\ IF focus = "ports" THEN Ports!Init
       ELSE /\ portsOwner = Away /\ portsProcess = Away /\ portsTurns = Away
            /\ portsIntruded = Away
    /\ IF focus = "files" THEN Files!Init
       ELSE /\ filesNow = Away /\ filesDisk = Away /\ filesEntry = Away
            /\ filesSaving = Away /\ filesRequest = Away /\ filesUntil = Away
            /\ filesDisturbed = Away
    /\ IF focus = "pages" THEN Pages!Init
       ELSE /\ pagesLive = Away /\ pagesInRange = Away /\ pagesTabs = Away
            /\ pagesCreated = Away /\ pagesChanges = Away /\ pagesSweep = Away
    /\ IF focus = "quota" THEN Quota!Init
       ELSE /\ quotaLog = Away /\ quotaLock = Away /\ quotaUsable = Away
            /\ quotaLocal = Away /\ quotaLimit = Away /\ quotaCall = Away
            /\ quotaSpent = Away /\ quotaWaived = Away
    /\ IF focus = "selection" THEN Selection!Init
       ELSE /\ selectionStage = Away /\ selectionGiven = Away /\ selectionArgs = Away
            /\ selectionOauth21 = Away /\ selectionServices = Away
            /\ selectionRegistered = Away /\ selectionCredentials = Away
            /\ selectionCall = Away /\ selectionLaunches = Away
    /\ IF focus = "runs" THEN Runs!Init
       ELSE /\ runsHarness = Away /\ runsAgent = Away /\ runsServer = Away
            /\ runsDisk = Away /\ runsVerdict = Away /\ runsReport = Away
            /\ runsRebuilt = Away
    \* Out of focus a component begins in one way.
    /\ focus # "credentials" => deployment = CHOOSE d \in Deployments : TRUE

\* A step of one component leaves what the others keep alone.
Others(component) ==
    /\ UNCHANGED focus
    /\ IF component = "credentials" THEN TRUE ELSE UNCHANGED vars
    /\ IF component = "accounts" THEN TRUE ELSE UNCHANGED listingVars
    /\ IF component = "calls" THEN TRUE ELSE UNCHANGED callingVars
    /\ IF component = "ports" THEN TRUE ELSE UNCHANGED portsVars
    /\ IF component = "files" THEN TRUE ELSE UNCHANGED filesVars
    /\ IF component = "pages" THEN TRUE ELSE UNCHANGED pagesVars
    /\ IF component = "quota" THEN TRUE ELSE UNCHANGED quotaVars
    /\ IF component = "selection" THEN TRUE ELSE UNCHANGED selectionVars
    /\ IF component = "runs" THEN TRUE ELSE UNCHANGED runsVars

SystemNext ==
    \/ focus = "credentials" /\ Next /\ Others("credentials")
    \/ focus = "accounts" /\ Listing!Next /\ Others("accounts")
    \/ focus = "calls" /\ Calling!Next /\ Others("calls")
    \/ focus = "ports" /\ Ports!Next /\ Others("ports")
    \/ focus = "files" /\ Files!Next /\ Others("files")
    \/ focus = "pages" /\ Pages!Next /\ Others("pages")
    \/ focus = "quota" /\ Quota!Next /\ Others("quota")
    \/ focus = "selection" /\ Selection!Next /\ Others("selection")
    \/ focus = "runs" /\ Runs!Next /\ Others("runs")

everything ==
    <<focus, vars, listingVars, callingVars, portsVars, filesVars, pagesVars,
      quotaVars, selectionVars, runsVars>>

System == SystemInit /\ [][SystemNext]_everything

-----------------------------------------------------------------------------
\* The state of the component in focus is of its type.
ServerTypeOK ==
    /\ focus = "credentials" => TypeOK
    /\ focus = "accounts" => Listing!TypeOK
    /\ focus = "calls" => Calling!TypeOK
    /\ focus = "ports" => Ports!TypeOK
    /\ focus = "files" => Files!TypeOK
    /\ focus = "pages" => Pages!TypeOK
    /\ focus = "quota" => Quota!TypeOK
    /\ focus = "selection" => Selection!TypeOK
    /\ focus = "runs" => Runs!TypeOK

\* A call acts for whom it was made and for nobody else, whatever other calls of its
\* session do between its awaits, and what may have written is not sent again.
ActsForItsCaller ==
    focus = "calls" => Calling!ActsForItsCaller /\ Calling!WritesAreDoneOnce

\* What the command line restricts the server to is all it does, across restarts with
\* other settings and the credentials they leave, and under permission levels a sign-in
\* is asked for only when it helps.
ActsWithinTheMode ==
    focus = "selection" =>
        Selection!ActsWithinTheMode /\ Selection!SignInHelpsUnderPermissions

\* A sign-in is told that a port answers only if a server of ours does.
AvailableIsOurs == [][focus = "ports" => Ports!OursAnswers]_everything

\* A file is there in full as long as its link says. The report of a batch, and the one
\* made of what a crash left of it, count every run and as measurements those only that
\* nothing disturbed and that had a state to grade, unless its first dump came between the
\* two looks of the harness: such a run is no pass.
LinksAndReportsHold ==
    /\ focus = "files" => Files!UrlsAreGood
    /\ focus = "runs" => Runs!OnlyMeasurementsCount /\ Runs!ReportsAgree

\* Nothing gets lost on the way: the processes together write no more than a minute allows;
\* the pages of a sweep, between which others write, skip nothing and count everything, or
\* say that they may have; the verdict on an account, and the accounts an error suggests,
\* are those of its caller.
NothingIsPassedOver ==
    /\ focus = "quota" => Quota!BudgetIsShared
    /\ focus = "pages" => Pages!SweepsMissNothing /\ Pages!AnswersAreComplete
    /\ focus = "accounts" => Listing!HintsNameTheOthers /\ Listing!VerdictsAreTheirOwn
=============================================================================
