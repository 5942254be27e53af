-------------------------- MODULE ReadBeforeWrite --------------------------
(***************************************************************************)
(* The tools that read what is there, compute from it what is to be there, *)
(* and write that: events, contacts, rows of sheets, tasks and the files   *)
(* of a script.  Between the two others write too, and Google's calls      *)
(* replace more than the caller named.  Each of the tools works on a       *)
(* service of its own and shares no state with the others, so a behavior   *)
(* is about one of them, the one in focus, or about none.                  *)
(***************************************************************************)
EXTENDS Naturals, FiniteSets

CONSTANTS
    Unused, Deleted, Blank, Top, Empty, Absent, Omitted,
    Away,   \* what is kept by a component that is not in focus
    CalendarCalls, CalendarEvents, CalendarGuests, CalendarSelf, CalendarMaxWrites,
    ContactsCalls, ContactsPeople, ContactsKeys, ContactsForms, ContactsMaxVersion,
    RowsCalls, RowsSheets, RowsRows, RowsSources, RowsPlaces,
    RowsMaxRows, RowsMaxInsert, RowsMaxNamed,
    TasksCalls, TasksLists, TasksTaskIds, TasksTexts, TasksPageMax,
    ScriptsCalls, ScriptsProcesses, ScriptsProcessOf, ScriptsFiles, ScriptsSources,
    ScriptsDeployments, ScriptsMaxVersions

VARIABLES
    focus,  \* the component this behavior is about
    calendarEvent, calendarCall, calendarWrites,
    contactsContact, contactsGroup, contactsCall,
    rowsGrid, rowsCall,
    tasksLists, tasksTask, tasksOrder, tasksCall,
    scriptsContent, scriptsVersions, scriptsDeployment, scriptsLock, scriptsCall

Calendar == INSTANCE CalendarEvents WITH
    event <- calendarEvent, call <- calendarCall, writes <- calendarWrites,
    Calls <- CalendarCalls, Events <- CalendarEvents, Guests <- CalendarGuests,
    Self <- CalendarSelf, MaxWrites <- CalendarMaxWrites
calendarVars == <<calendarEvent, calendarCall, calendarWrites>>

Contacts == INSTANCE ContactBook WITH
    contact <- contactsContact, group <- contactsGroup, call <- contactsCall,
    Calls <- ContactsCalls, People <- ContactsPeople, Keys <- ContactsKeys,
    Forms <- ContactsForms, MaxVersion <- ContactsMaxVersion
contactsVars == <<contactsContact, contactsGroup, contactsCall>>

Rows == INSTANCE SheetRows WITH
    grid <- rowsGrid, call <- rowsCall, Calls <- RowsCalls,
    Sheets <- RowsSheets, Rows <- RowsRows, Sources <- RowsSources,
    MaxRows <- RowsMaxRows, Places <- RowsPlaces, MaxInsert <- RowsMaxInsert,
    MaxNamed <- RowsMaxNamed
rowsVars == <<rowsGrid, rowsCall>>

Tasks == INSTANCE TaskLists WITH
    lists <- tasksLists, task <- tasksTask, order <- tasksOrder,
    call <- tasksCall, Calls <- TasksCalls, Lists <- TasksLists,
    TaskIds <- TasksTaskIds, Texts <- TasksTexts, PageMax <- TasksPageMax
tasksVars == <<tasksLists, tasksTask, tasksOrder, tasksCall>>

Scripts == INSTANCE ScriptProjects WITH
    content <- scriptsContent, versions <- scriptsVersions,
    deployment <- scriptsDeployment, lock <- scriptsLock, call <- scriptsCall,
    Calls <- ScriptsCalls, Processes <- ScriptsProcesses,
    ProcessOf <- ScriptsProcessOf, Files <- ScriptsFiles,
    Sources <- ScriptsSources, Deployments <- ScriptsDeployments,
    MaxVersions <- ScriptsMaxVersions
scriptsVars == <<scriptsContent, scriptsVersions, scriptsDeployment, scriptsLock, scriptsCall>>

-----------------------------------------------------------------------------
(* What the tools take of their parameters.                                *)

\* A guest is no other field of an event; an id without an event, no event.
CalendarConstants ==
    /\ CalendarMaxWrites \in Nat /\ Unused # Deleted
    /\ CalendarGuests \cap ({"text", "when", "conference"} \cup Calendar!Props) = {}
    /\ {Unused, Deleted} \cap Calendar!Event = {}
ASSUME CalendarAssumption == CalendarConstants

ContactsConstants ==
    /\ ContactsMaxVersion \in Nat \ {0}
    /\ Unused # Deleted /\ {Unused, Deleted} \cap Contacts!Contact = {}
ASSUME ContactsAssumption == ContactsConstants

\* A sheet has a row at least, and a blank one is told from the others.
RowsConstants ==
    /\ RowsMaxRows \in Nat \ {0} /\ RowsMaxInsert \in Nat /\ RowsPlaces \subseteq Nat
    /\ Blank \notin RowsRows
    /\ IsFiniteSet(RowsSheets) /\ RowsSources \subseteq RowsSheets
ASSUME RowsAssumption == RowsConstants

TasksConstants == {Unused, Deleted} \cap Tasks!Task = {} /\ "nobody" \notin TasksCalls
ASSUME TasksAssumption == TasksConstants

\* A call runs in one process; what is not there or not given is no content.
ScriptsConstants ==
    /\ ScriptsMaxVersions \in Nat
    /\ ScriptsProcessOf \in [ScriptsCalls -> ScriptsProcesses]
    /\ Scripts!Free \notin ScriptsCalls
    /\ Absent \notin Scripts!Content /\ Omitted \notin Scripts!Content
ASSUME ScriptsAssumption == ScriptsConstants

-----------------------------------------------------------------------------
EditsInit ==
    \* The others are not there.
    /\ IF focus = "calendar" THEN Calendar!Init
       ELSE /\ calendarEvent = Away /\ calendarCall = Away /\ calendarWrites = Away
    /\ IF focus = "contacts" THEN Contacts!Init
       ELSE /\ contactsContact = Away /\ contactsGroup = Away /\ contactsCall = Away
    /\ IF focus = "rows" THEN Rows!Init
       ELSE /\ rowsGrid = Away /\ rowsCall = Away
    /\ IF focus = "tasks" THEN Tasks!Init
       ELSE /\ tasksLists = Away /\ tasksTask = Away /\ tasksOrder = Away
            /\ tasksCall = Away
    /\ IF focus = "scripts" THEN Scripts!Init
       ELSE /\ scriptsContent = Away /\ scriptsVersions = Away
            /\ scriptsDeployment = Away /\ scriptsLock = Away /\ scriptsCall = Away

\* A step of one component leaves what the others keep alone.
OtherEdits(component) ==
    /\ UNCHANGED focus
    /\ IF component = "calendar" THEN TRUE ELSE UNCHANGED calendarVars
    /\ IF component = "contacts" THEN TRUE ELSE UNCHANGED contactsVars
    /\ IF component = "rows" THEN TRUE ELSE UNCHANGED rowsVars
    /\ IF component = "tasks" THEN TRUE ELSE UNCHANGED tasksVars
    /\ IF component = "scripts" THEN TRUE ELSE UNCHANGED scriptsVars

EditsNext ==
    \/ focus = "calendar" /\ Calendar!Next /\ OtherEdits("calendar")
    \/ focus = "contacts" /\ Contacts!Next /\ OtherEdits("contacts")
    \/ focus = "rows" /\ Rows!Next /\ OtherEdits("rows")
    \/ focus = "tasks" /\ Tasks!Next /\ OtherEdits("tasks")
    \/ focus = "scripts" /\ Scripts!Next /\ OtherEdits("scripts")

edits == <<focus, calendarVars, contactsVars, rowsVars, tasksVars, scriptsVars>>

Edits == EditsInit /\ [][EditsNext]_edits

-----------------------------------------------------------------------------
\* A tool that reads before it writes loses nothing its caller did not name: neither what
\* other callers wrote before it read nor, where Google tells it, what they wrote since.
NothingElseIsLost ==
    [][/\ focus = "calendar" => Calendar!NothingElseRollsBack
       /\ focus = "contacts" => Contacts!WritesLoseNothing
       /\ focus = "rows" => Rows!MovesLoseNothing
       /\ focus = "tasks" => Tasks!UpdateKeepsTheRest
       /\ focus = "scripts" => Scripts!MergeLeavesOtherFiles]_edits
=============================================================================
