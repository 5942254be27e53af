--------------------------- MODULE ToolSelection ---------------------------
(***************************************************************************)
(* What a launch of the server serves, asks for and lets a call do:        *)
(* main.py reads the command line and then the environment, refuses what   *)
(* contradicts itself, imports the services and filters their tools        *)
(* (core/tool_registry.py), auth/scopes.py and auth/permissions.py say     *)
(* which scopes a sign-in asks for, and every call is held against the     *)
(* scopes of the stored credentials, which outlive the launch.             *)
(*                                                                         *)
(* The catalogue is an excerpt of the source's tables: five services,      *)
(* their scope maps and the tools in which they differ.                    *)
(***************************************************************************)
EXTENDS Naturals, FiniteSets, Functions

CONSTANTS
    Unset,            \* a setting nobody gave
    Invalid,          \* a value the launch does not understand
    Toolsets,         \* the sets of services given with --tools
    PermissionSets,   \* the service levels given with --permissions
    Uninstalled,      \* the services whose modules may not be installed
    MaxLaunches       \* bound: launches of the server

VARIABLES
    stage,        \* "off", the setting read next, "select", "serving"
    given,        \* what the command line said
    args,         \* the settings in force
    oauth21,      \* is OAuth 2.1 enabled
    services,     \* the services selected, whether or not they import
    registered,   \* the tools the server offers
    credentials,  \* the scopes of the stored credentials, Unset for none
    call,         \* the last tool call: tool, action, outcome
    launches

vars == <<stage, given, args, oauth21, services, registered, credentials, call,
          launches>>

-----------------------------------------------------------------------------
(* The tables                                                               *)

\* TOOL_SCOPES_MAP.
FullScopes ==
    [gmail |-> {"gmail.readonly", "gmail.send", "gmail.compose", "gmail.modify",
                "gmail.labels", "gmail.settings.basic"},
     drive |-> {"drive", "drive.readonly", "drive.file"},
     slides |-> {"presentations", "presentations.readonly"},
     tasks |-> {"tasks", "tasks.readonly"},
     appscript |-> {"script.projects", "script.projects.readonly", "drive.file"}]

Services == DOMAIN FullScopes

\* TOOL_READONLY_SCOPES_MAP.
ReadScopes ==
    [gmail |-> {"gmail.readonly"},
     drive |-> {"drive.readonly"},
     slides |-> {"presentations.readonly"},
     tasks |-> {"tasks.readonly"},
     appscript |-> {"script.projects.readonly", "drive.readonly"}]

\* SERVICE_PERMISSION_LEVELS: the levels of a service in order, each with the
\* scopes it adds.
Levels ==
    [gmail |-> <<<<"readonly", {"gmail.readonly"}>>,
                 <<"organize", {"gmail.labels", "gmail.modify"}>>,
                 <<"drafts", {"gmail.compose"}>>,
                 <<"send", {"gmail.send"}>>,
                 <<"full", {"gmail.settings.basic"}>>>>,
     drive |-> <<<<"readonly", {"drive.readonly"}>>,
                 <<"full", {"drive", "drive.file"}>>>>,
     slides |-> <<<<"readonly", {"presentations.readonly"}>>,
                  <<"full", {"presentations"}>>>>,
     tasks |-> <<<<"readonly", {"tasks.readonly"}>>,
                 <<"manage", {"tasks"}>>,
                 <<"full", {}>>>>,
     appscript |-> <<<<"readonly", {"script.projects.readonly", "drive.readonly"}>>,
                     <<"full", {"script.projects", "drive.file"}>>>>]

\* SERVICE_DENIED_ACTIONS.
Denied(service, level) ==
    IF service = "tasks" /\ level = "manage" THEN {"delete", "clear_completed"}
    ELSE {}

\* SCOPE_HIERARCHY.
Narrower(scope) ==
    CASE scope = "gmail.modify" ->
             {"gmail.readonly", "gmail.send", "gmail.compose", "gmail.labels"}
      [] scope = "drive" -> {"drive.readonly", "drive.file"}
      [] scope = "presentations" -> {"presentations.readonly"}
      [] scope = "tasks" -> {"tasks.readonly"}
      [] scope = "script.projects" -> {"script.projects.readonly"}
      [] OTHER -> {}

\* has_required_scopes: scopes that cover one another.
Covers(available, required) ==
    required \subseteq available \cup UNION {Narrower(s) : s \in available}

Tiers == <<"core", "extended", "complete">>

Tool(service, tier, scopes, writes) ==
    [service |-> service, tier |-> tier, scopes |-> scopes, writes |-> writes]

\* The tools: the service that registers one, its entry in tool_tiers.yaml, the
\* scopes its decorator requires and whether it writes at Google.
Catalogue ==
    [search_gmail_messages |-> Tool("gmail", "core", {"gmail.readonly"}, FALSE),
     send_gmail_message |->
         Tool("gmail", "core", {"gmail.readonly", "gmail.send"}, TRUE),
     draft_gmail_message |-> Tool("gmail", "extended", {"gmail.compose"}, TRUE),
     modify_gmail_message_labels |->
         Tool("gmail", "extended", {"gmail.modify"}, TRUE),
     search_drive_files |-> Tool("drive", "core", {"drive.readonly"}, FALSE),
     manage_drive_access |-> Tool("drive", "extended", {"drive"}, TRUE),
     get_presentation |-> Tool("slides", "core", {"presentations.readonly"}, FALSE),
     list_presentation_comments |->
         Tool("slides", "complete", {"drive.readonly"}, FALSE),
     manage_presentation_comment |-> Tool("slides", "complete", {"drive"}, TRUE),
     list_tasks |-> Tool("tasks", "core", {"tasks.readonly"}, FALSE),
     manage_task |-> Tool("tasks", "core", {"tasks"}, TRUE),
     list_script_projects |->
         Tool("appscript", "core", {"drive.readonly"}, FALSE),
     delete_script_project |-> Tool("appscript", "extended", {"drive"}, TRUE),
     start_google_auth |-> Tool(Unset, "complete", {}, FALSE)]

ToolNames == DOMAIN Catalogue
Actions == {"update", "delete"}

-----------------------------------------------------------------------------
(* What the settings come to                                                *)

NoSettings == [tools |-> Unset, tier |-> Unset, readOnly |-> FALSE,
               permissions |-> Unset]

PermissionsMode == args.permissions # Unset

UpTo(service, level) ==
    {i \in DOMAIN Levels[service] :
        \E j \in DOMAIN Levels[service] : j >= i /\ Levels[service][j][1] = level}

\* get_scopes_for_permission: a level has the scopes of those below it.
LevelScopes(service, level) ==
    UNION {Levels[service][i][2] : i \in UpTo(service, level)}

\* get_all_permission_scopes.
PermittedScopes ==
    UNION {LevelScopes(s, args.permissions[s]) : s \in DOMAIN args.permissions}

\* The services' own maps.
RequestedOfServices ==
    UNION {(IF args.readOnly THEN ReadScopes ELSE FullScopes)[s] : s \in services}

\* get_scopes_for_tools: what a sign-in asks for. The services count whether or
\* not their modules could be imported.
Requested == IF PermissionsMode THEN PermittedScopes ELSE RequestedOfServices

\* get_tools_up_to_tier over the services given, all of them when none is. The
\* tool that starts a sign-in is listed with gmail.
TierTools(tier, among) ==
    LET reach == {Tiers[i] : i \in {j \in DOMAIN Tiers :
                     \E k \in DOMAIN Tiers : k >= j /\ Tiers[k] = tier}}
        Home(t) == IF t = "start_google_auth" THEN "gmail" ELSE Catalogue[t].service
    IN {t \in ToolNames : Home(t) \in among /\ Catalogue[t].tier \in reach}

\* The services whose modules are imported: those with permissions, narrowed by
\* the tier to the ones that have tools in it; otherwise those of --tools, those
\* the tier has tools in, or all.
Selected ==
    LET Providing(tools) == {s \in Services :
                               TierTools("complete", {s}) \cap tools # {}}
    IN CASE PermissionsMode /\ args.tier = Unset -> DOMAIN args.permissions
         [] PermissionsMode /\ args.tier # Unset ->
                Providing(TierTools(args.tier, DOMAIN args.permissions))
         [] ~PermissionsMode /\ args.tools # Unset -> args.tools
         [] ~PermissionsMode /\ args.tools = Unset /\ args.tier # Unset ->
                Providing(TierTools(args.tier, Services))
         [] OTHER -> Services

\* The tools of the tier, read for the services given.
Offered ==
    IF args.tier = Unset THEN ToolNames
    ELSE TierTools(args.tier, IF PermissionsMode THEN DOMAIN args.permissions
                              ELSE IF args.tools # Unset THEN args.tools ELSE Services)

\* Mutant: one read-only scope is enough.
WithinReadAny(t) ==
    Catalogue[t].scopes = {}
        \/ Catalogue[t].scopes \cap UNION {ReadScopes[s] : s \in Services} # {}

\* The read-only filter: every scope the tool requires is a read-only one, of
\* whichever service.
WithinRead(t) == Catalogue[t].scopes \subseteq UNION {ReadScopes[s] : s \in Services}

\* filter_server_tools: the tools that stay. A level's scopes are taken as they
\* are, without what they cover; a tool without scopes always stays.
Stays(t, permitted) ==
    /\ oauth21 => t # "start_google_auth"
    /\ args.readOnly /\ ~PermissionsMode => WithinRead(t)
    /\ PermissionsMode => Catalogue[t].scopes \subseteq permitted

-----------------------------------------------------------------------------
NoCall == [tool |-> Unset, action |-> Unset, outcome |-> Unset]

Settings == [tools : Toolsets \cup {Unset}, tier : {"core", "extended", Unset},
             readOnly : BOOLEAN, permissions : PermissionSets \cup {Unset, Invalid}]

TypeOK ==
    /\ stage \in {"off", "tools", "tier", "readOnly", "permissions", "select",
                  "serving"}
    /\ given \in Settings
    /\ stage # "serving" => args \in Settings
    /\ oauth21 \in BOOLEAN
    /\ services \subseteq Services
    /\ registered \subseteq ToolNames
    /\ credentials # Unset => credentials \subseteq
                              UNION {FullScopes[s] \cup ReadScopes[s] : s \in Services}
    /\ call.tool # Unset => call.tool \in registered
    /\ launches \in 0..MaxLaunches

Init ==
    /\ stage = "off"
    /\ given = NoSettings /\ args = NoSettings
    /\ oauth21 = FALSE
    /\ services = {} /\ registered = {}
    /\ credentials = Unset
    /\ call = NoCall
    /\ launches = 0

\* The command line. argparse refuses values it does not know.
CommandLine(tools, tier, readOnly, permissions, new) ==
    /\ stage = "off" /\ launches < MaxLaunches
    /\ given' = [tools |-> tools, tier |-> tier, readOnly |-> readOnly,
                 permissions |-> permissions]
    /\ args' = given'
    /\ oauth21' = new
    /\ stage' = "tools"
    /\ launches' = launches + 1
    /\ UNCHANGED <<services, registered, credentials, call>>

\* sys.exit(1), and the end of a server that ran: its memory is gone.
Off ==
    /\ stage' = "off"
    /\ given' = NoSettings /\ args' = NoSettings
    /\ oauth21' = FALSE
    /\ services' = {} /\ registered' = {}
    /\ call' = NoCall
    /\ UNCHANGED <<credentials, launches>>

\* A variable of the environment stands in for a setting the command line left
\* out; one the server does not understand ends the launch.
FromEnv(field, open, value, next) ==
    /\ stage = field
    /\ IF open /\ value = Invalid THEN Off
       ELSE /\ args' = [args EXCEPT ![field] = IF open /\ value # Unset THEN value ELSE @]
            /\ stage' = next
            /\ UNCHANGED <<given, oauth21, services, registered, credentials, call,
                           launches>>

ToolsFromEnv(value) ==
    FromEnv("tools", given.tools = Unset /\ given.permissions = Unset, value, "tier")

TierFromEnv(value) == FromEnv("tier", given.tier = Unset, value, "readOnly")

ReadOnlyFromEnv(value) ==
    FromEnv("readOnly", ~given.readOnly /\ given.permissions = Unset, value,
            "permissions")

PermissionsFromEnv(value) ==
    FromEnv("permissions",
            given.permissions = Unset /\ ~given.readOnly /\ given.tools = Unset,
            value, "select")

\* The rest of main: permissions go neither with read-only nor with a choice of
\* services. Modules that are not installed are left out.
Launch(missing) ==
    /\ stage = "select"
    /\ IF \/ PermissionsMode /\ (args.readOnly \/ args.tools # Unset)
          \/ args.permissions = Invalid
       THEN Off
       ELSE LET kept == IF PermissionsMode
                        THEN Restrict(args.permissions,
                                      Selected \cap DOMAIN args.permissions)
                        ELSE Unset
                permitted == IF PermissionsMode
                             THEN UNION {LevelScopes(s, kept[s]) : s \in DOMAIN kept}
                             ELSE {}
            IN /\ services' = Selected
               /\ registered' = {t \in Offered :
                                   /\ Catalogue[t].service
                                        \in (Selected \ missing) \cup {Unset}
                                   /\ Stays(t, permitted)}
               /\ args' = [args EXCEPT !.permissions = kept]
               /\ stage' = "serving"
               /\ UNCHANGED <<given, oauth21, credentials, call, launches>>

-----------------------------------------------------------------------------
(* Serving                                                                  *)

\* A tool call. get_credentials answers nothing for credentials whose scopes do
\* not cover the tool's, and the caller is sent to sign in; the permission
\* levels' denied actions are refused inside the tool.
Refused(t, action) ==
    /\ PermissionsMode
    /\ Catalogue[t].service \in DOMAIN args.permissions
    /\ action \in Denied(Catalogue[t].service, args.permissions[Catalogue[t].service])

CallTool(t, action) ==
    /\ stage = "serving"
    /\ t # "start_google_auth"
    /\ action # "update" => t = "manage_task"
    /\ call' = [tool |-> t, action |-> action,
                outcome |->
                    IF credentials = Unset \/ ~Covers(credentials, Catalogue[t].scopes)
                    THEN "sign_in"
                    ELSE IF Refused(t, action) THEN "denied" ELSE "done"]
    /\ UNCHANGED <<stage, given, args, oauth21, services, registered, credentials,
                   launches>>

\* The user signs in, sent there by a refused call or by start_google_auth, and
\* grants the scopes asked for, all or all but one. What was granted is stored in
\* place of the old credentials.
SignIn ==
    /\ stage = "serving"
    /\ call.outcome = "sign_in" \/ "start_google_auth" \in registered
    /\ \E withheld \in {{}} \cup {{s} : s \in Requested} :
          credentials' = Requested \ withheld
    /\ call' = NoCall
    /\ UNCHANGED <<stage, given, args, oauth21, services, registered, launches>>

Shutdown == stage = "serving" /\ Off

Next ==
    \/ \E tools \in Toolsets \cup {Unset}, tier \in {"core", Unset},
          readOnly, new \in BOOLEAN,
          permissions \in PermissionSets \cup {Unset, Invalid} :
           CommandLine(tools, tier, readOnly, permissions, new)
    \/ \E tools \in Toolsets \cup {Unset, Invalid} : ToolsFromEnv(tools)
    \/ \E tier \in {"extended", Unset, Invalid} : TierFromEnv(tier)
    \/ \E readOnly \in {TRUE, FALSE, Unset, Invalid} : ReadOnlyFromEnv(readOnly)
    \/ \E permissions \in PermissionSets \cup {Unset, Invalid} :
           PermissionsFromEnv(permissions)
    \/ \E missing \in SUBSET Uninstalled : Launch(missing)
    \/ \E t \in registered, action \in Actions : CallTool(t, action)
    \/ SignIn
    \/ Shutdown

Spec == Init /\ [][Next]_vars

-----------------------------------------------------------------------------
(* Properties                                                               *)

\* The service a scope belongs to alone.
OwnScope(scope, service) ==
    {s \in Services : scope \in FullScopes[s] \cup ReadScopes[s]} = {service}

\* A launch is honoured by everything done under it, whatever the credentials of
\* earlier launches would allow: nothing is written in read-only mode, no tool
\* beyond the tier runs, a scope that one service owns is used only if that
\* service's level has it, and no action a level denies is done.
ActsWithinTheMode ==
    call.outcome = "done" =>
        LET t == Catalogue[call.tool] IN
        /\ args.readOnly => ~t.writes
        /\ args.tier = "core" => t.tier = "core"
        /\ PermissionsMode =>
              /\ \A scope \in t.scopes, s \in Services :
                    OwnScope(scope, s) =>
                        /\ s \in DOMAIN args.permissions
                        /\ scope \in LevelScopes(s, args.permissions[s])
              /\ call.tool = "manage_task" /\ call.action = "delete" =>
                    args.permissions["tasks"] = "full"

\* Nobody is sent to sign in for a call whose sign-in cannot help: with all the
\* server asks for granted, the call goes through when it is tried again. The
\* source says so of every sign-in (google_auth.py:693).
SignInHelps ==
    call.outcome = "sign_in" =>
        credentials = Unset \/ ~Covers(credentials, Requested)

\* Under permission levels a sign-in always helps: the scopes the filter lets a
\* tool need are the scopes asked for.
SignInHelpsUnderPermissions == PermissionsMode => SignInHelps

\* A level is a service's own: no tool of a service at "readonly" writes.
\* (server-options.md:32, "Per-service permission levels".)
LevelsArePerService ==
    call.outcome = "done" /\ PermissionsMode =>
        LET t == Catalogue[call.tool] IN
        t.writes => args.permissions[t.service] # "readonly"
=============================================================================
