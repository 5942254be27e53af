------------------------- MODULE AccountCredentials -------------------------
(***************************************************************************)
(* Where the credentials of a Google account come from and where they go:  *)
(* get_credentials, start_auth_flow and handle_auth_callback of            *)
(* auth/google_auth.py over the session store and the credential files     *)
(* (auth/credential_store.py), and the calls of the OAuth 2.1 mode.        *)
(*                                                                         *)
(* get_credentials runs in a worker thread and a callback is a coroutine   *)
(* that awaits Google and the files, so the calls of a process interleave  *)
(* between any two accesses to the store, to a file and to Google.         *)
(***************************************************************************)
EXTENDS SessionStore

CONSTANTS
    Calls,        \* calls in flight
    Deployments,  \* the configurations to look at, see Deployment
    MaxTokens     \* bound on the access tokens Google issues

\* An access token is named by its number; `access' and `refresh' say whose account
\* the two tokens of a credential open.
ASSUME CredentialsAssumption ==
    Credentials = [token : 1..MaxTokens, access : Users, refresh : Users \cup {NoUser}]
ASSUME MaxTokensAssumption == MaxTokens \in Nat

\* serves: the accounts named by the calls of an MCP session.  gateway: the account is
\* the principal a trusted gateway vouches for (is_trust_gateway_identity).
Deployment == [mode : {"files", "stateless", "single_user", "oauth21"},
               gateway : BOOLEAN,
               serves : [McpSessions -> SUBSET Users]]

VARIABLES
    deployment,  \* chosen once
    store,       \* the session store of the process
    file,        \* account -> the credentials in its file
    torn,        \* accounts whose file is truncated and not yet written
    call,        \* Calls -> the call in that slot
    issued,      \* access tokens issued so far
    consented,   \* accounts that have consented to this client before
    flows,       \* sign-ins under way: who is asked for, in which session
    written      \* history: account -> every credential its file has held

vars == <<deployment, store, file, torn, call, issued, consented, flows, written>>

Mode(m) == deployment.mode = m
Stateless == Mode("stateless")

Flow == [user : Users, mcp : McpSessions, prompt : {"consent", "select_account"}]

\* cred: the credentials in hand; holder: whom they will be kept for.
Idle == [pc |-> "idle", user |-> NoUser, mcp |-> NoSession, cred |-> NoCred,
         holder |-> NoUser]
Call == [pc : {"idle", "session", "refresh_session", "find_holder", "file", "read_file",
               "refresh", "callback_fallback", "callback_file", "truncate", "write", "cache"},
         user : Users \cup {NoUser},
         mcp : McpSessions \cup {NoSession},
         cred : Credentials \cup {NoCred},
         holder : Users \cup {NoUser}]

TypeOK ==
    /\ deployment \in Deployments
    /\ store \in Store
    /\ file \in [Users -> Credentials \cup {NoCred}]
    /\ torn \subseteq Users
    /\ call \in [Calls -> Call]
    /\ issued \in 0..MaxTokens
    /\ consented \subseteq Users
    /\ flows \subseteq Flow
    /\ written \in [Users -> SUBSET Credentials]

Init ==
    /\ deployment \in Deployments
    /\ store = EmptyStore
    /\ file = [u \in Users |-> NoCred]
    /\ torn = {}
    /\ call = [c \in Calls |-> Idle]
    /\ issued = 0
    /\ consented = {}
    /\ flows = {}
    /\ written = [u \in Users |-> {}]

-----------------------------------------------------------------------------
(* Helpers *)

Step(c, rec) == call' = [call EXCEPT ![c] = rec]
Goto(c, pc) == Step(c, [call[c] EXCEPT !.pc = pc])
With(c, pc, cred) == Step(c, [pc |-> pc, user |-> call[c].user, mcp |-> call[c].mcp,
                              cred |-> cred, holder |-> call[c].holder])
Return(c) == Step(c, Idle)
SameGoogle == UNCHANGED <<issued, consented>>
SameFiles == UNCHANGED <<file, torn, written>>

\* os.getenv("MCP_SINGLE_USER_MODE"): store_session forgets the MCP session.
Session(m) == IF Mode("single_user") THEN NoSession ELSE m

\* A file being rewritten is no JSON, and is read as no credentials.
OnFile(u) == IF u \in torn THEN NoCred ELSE file[u]

\* What Google answers to a refresh: a new access token of the account whose refresh
\* token it is.
Renewed(cred) == [token |-> issued + 1, access |-> cred.refresh, refresh |-> cred.refresh]

\* Where credentials are kept first.
Keep == IF Stateless THEN "cache" ELSE "truncate"

-----------------------------------------------------------------------------
(* get_credentials *)

\* The account the session is mapped to is looked up; a session of another account
\* is left alone.
GetCredentials(c, u, m) ==
    /\ call[c] = Idle
    /\ ~Mode("oauth21")
    /\ u \in deployment.serves[m]
    /\ LET session_user == MappedTo(store, m)
       IN Step(c, [pc |-> IF session_user \in {u, NoUser} THEN "session" ELSE "read_file",
                   user |-> u, mcp |-> m, cred |-> NoCred, holder |-> u])
    /\ UNCHANGED <<deployment, store, flows>> /\ SameGoogle /\ SameFiles

\* The credentials of the session: valid and returned, to be refreshed, or neither.
ReadSession(c) ==
    /\ call[c].pc = "session"
    /\ LET found == ByMcpSession(store, call[c].mcp)
       IN IF found = NoCred
          THEN Goto(c, IF Mode("single_user") THEN "read_file" ELSE "file")
          ELSE \/ Return(c)
               \/ /\ found.refresh # NoUser
                  /\ With(c, "refresh_session", found)
    /\ UNCHANGED <<deployment, store, flows>> /\ SameGoogle /\ SameFiles

\* credentials.refresh(Request()) of either path; RefreshError ends the call.
Refresh(c) ==
    /\ call[c].pc \in {"refresh_session", "refresh"}
    /\ \/ /\ issued < MaxTokens
          /\ issued' = issued + 1
          /\ With(c, IF call[c].pc = "refresh_session" THEN "find_holder" ELSE Keep,
                  Renewed(call[c].cred))
          /\ UNCHANGED consented
       \/ Return(c) /\ SameGoogle
    /\ UNCHANGED <<deployment, store, flows>> /\ SameFiles

\* The session is asked again for whom the refreshed credentials are to be kept.
FindHolder(c) ==
    /\ call[c].pc = "find_holder"
    /\ LET holder == MappedTo(store, call[c].mcp)
       IN IF holder = NoUser THEN Return(c)
          ELSE Step(c, [pc |-> Keep, user |-> call[c].user, mcp |-> call[c].mcp,
                        cred |-> call[c].cred, holder |-> holder])
    /\ UNCHANGED <<deployment, store, flows>> /\ SameGoogle /\ SameFiles

\* load_credentials_from_session, the second look at the session.
ReadSessionAgain(c) ==
    /\ call[c].pc = "file"
    /\ LET found == ByMcpSession(store, call[c].mcp)
       IN IF found = NoCred THEN Goto(c, "read_file")
          ELSE \/ Return(c)
               \/ /\ found.refresh # NoUser
                  /\ With(c, "refresh", found)
    /\ UNCHANGED <<deployment, store, flows>> /\ SameGoogle /\ SameFiles

\* The file of the account.  It holds no id token, so save_credentials_to_session
\* finds no account to keep it for and does nothing.
ReadFile(c) ==
    /\ call[c].pc = "read_file"
    /\ LET found == IF Stateless THEN NoCred ELSE OnFile(call[c].user)
       IN \/ Return(c)
          \/ /\ found # NoCred
             /\ found.refresh # NoUser
             /\ With(c, "refresh", found)
    /\ UNCHANGED <<deployment, store, flows>> /\ SameGoogle /\ SameFiles

-----------------------------------------------------------------------------
(* start_auth_flow and handle_auth_callback *)

\* _determine_oauth_prompt: consent unless the account is known to be usable, by the
\* session if that is its own, else by its file.
Known(u, m) ==
    \/ MappedTo(store, m) = u /\ ByMcpSession(store, m) # NoCred
    \/ ~Stateless /\ OnFile(u) # NoCred

StartAuthFlow(u, m) ==
    /\ ~Mode("oauth21")
    /\ u \in deployment.serves[m]
    /\ \E prompt \in {"consent"} \cup (IF Known(u, m) THEN {"select_account"} ELSE {}) :
         flows' = flows \cup {[user |-> u, mcp |-> m, prompt |-> prompt]}
    /\ UNCHANGED <<deployment, store, call>> /\ SameGoogle /\ SameFiles

\* A bug of the kind the check guards against: whoever signs in is accepted.
AcceptedUnchecked(flow, u) == TRUE

\* The account that consents has to be the one the gateway vouched for.
Accepted(flow, u) == deployment.gateway => u = flow.user

\* A callback: the state is consumed, the code exchanged, the account asked for.  Who
\* signs in is up to the person at the browser; Google leaves the refresh token out
\* when that account has consented before and was not asked to again.
Callback(c, flow, u) ==
    /\ call[c] = Idle
    /\ flows' = flows \ {flow}
    /\ IF issued < MaxTokens
       THEN \E full \in {u \notin consented \/ flow.prompt = "consent"} :
              LET cred == [token |-> issued + 1, access |-> u,
                           refresh |-> IF full THEN u ELSE NoUser]
              IN /\ issued' = issued + 1
                 /\ consented' = consented \cup {u}
                 /\ IF Accepted(flow, u)
                    THEN Step(c, [user |-> u, mcp |-> flow.mcp, cred |-> cred, holder |-> u,
                                  pc |-> IF full THEN Keep ELSE "callback_fallback"])
                    ELSE UNCHANGED call
       ELSE UNCHANGED call /\ SameGoogle
    /\ UNCHANGED <<deployment, store>> /\ SameFiles

Refreshable(cred, refresh) == [token |-> cred.token, access |-> cred.access,
                               refresh |-> refresh]

\* "preserving existing refresh token from session store"
FallbackToSession(c) ==
    /\ call[c].pc = "callback_fallback"
    /\ LET found == ByMcpSession(store, call[c].mcp)
       IN IF found # NoCred /\ found.refresh # NoUser
          THEN With(c, Keep, Refreshable(call[c].cred, found.refresh))
          ELSE Goto(c, IF Stateless THEN "cache" ELSE "callback_file")
    /\ UNCHANGED <<deployment, store, flows>> /\ SameGoogle /\ SameFiles

\* "preserving existing refresh token from credential store"
FallbackToFile(c) ==
    /\ call[c].pc = "callback_file"
    /\ LET found == OnFile(call[c].user)
       IN With(c, "truncate", Refreshable(call[c].cred,
                                           IF found # NoCred THEN found.refresh ELSE NoUser))
    /\ UNCHANGED <<deployment, store, flows>> /\ SameGoogle /\ SameFiles

-----------------------------------------------------------------------------
(* Keeping credentials: the file first, then the session store *)

\* os.open(..., O_TRUNC) of store_credential, or its failure.
Truncate(c) ==
    /\ call[c].pc = "truncate"
    /\ \/ torn' = torn \cup {call[c].holder} /\ Goto(c, "write")
       \/ Return(c) /\ UNCHANGED torn
    /\ UNCHANGED <<deployment, store, flows, file, written>> /\ SameGoogle

\* A bug of the kind the order guards against: a failed write is not noticed.
WriteUnchecked(c) ==
    /\ call[c].pc = "write"
    /\ \/ /\ file' = [file EXCEPT ![call[c].holder] = call[c].cred]
          /\ written' = [written EXCEPT ![call[c].holder] = @ \cup {call[c].cred}]
          /\ torn' = torn \ {call[c].holder}
       \/ UNCHANGED <<file, written, torn>>
    /\ Goto(c, "cache")
    /\ UNCHANGED <<deployment, store, flows>> /\ SameGoogle

\* json.dump and close; a failure leaves the file as it is and the call gives up.
Write(c) ==
    /\ call[c].pc = "write"
    /\ LET u == call[c].holder
       IN \/ /\ file' = [file EXCEPT ![u] = call[c].cred]
             /\ written' = [written EXCEPT ![u] = @ \cup {call[c].cred}]
             /\ torn' = torn \ {u}
             /\ Goto(c, "cache")
          \/ Return(c) /\ UNCHANGED <<file, written, torn>>
    /\ UNCHANGED <<deployment, store, flows>> /\ SameGoogle

\* store_session for the holder; when it raises the call fails.  The paths that end in
\* save_credentials_to_session keep the same once more for the account of the id token,
\* when Google sent one.
Cache(c) ==
    /\ call[c].pc = "cache"
    /\ LET k == call[c]
           m == Session(k.mcp)
           once == Stored(store, k.holder, k.cred, NoSession, m)
       IN \/ store' = once
          \/ /\ ~Refused(store, k.holder, k.cred, NoSession, m)
             /\ store' = Stored(once, k.cred.access, k.cred, NoSession, m)
    /\ Return(c)
    /\ UNCHANGED <<deployment, flows>> /\ SameGoogle /\ SameFiles

-----------------------------------------------------------------------------
(* OAuth 2.1: ensure_session_from_access_token and store_token_session *)

\* The credentials behind a bearer token, refreshable only when the proxy keeps the
\* upstream tokens; what store_session raises is logged and dropped.
TokenSession(u, m) ==
    /\ Mode("oauth21")
    /\ issued < MaxTokens
    /\ m # NoSession => u \in deployment.serves[m]
    /\ \E refresh \in {u, NoUser} :
         store' = Stored(store, u, [token |-> issued + 1, access |-> u, refresh |-> refresh],
                         GoogleId(u), m)
    /\ issued' = issued + 1
    /\ UNCHANGED <<deployment, call, flows, consented>> /\ SameFiles

RemoveSession(u) ==
    /\ Mode("oauth21")
    /\ store' = Removed(store, u)
    /\ UNCHANGED <<deployment, call, flows>> /\ SameGoogle /\ SameFiles

CleanupOrphanedMappings ==
    /\ Mode("oauth21")
    /\ store' = Cleaned(store)
    /\ UNCHANGED <<deployment, call, flows>> /\ SameGoogle /\ SameFiles

-----------------------------------------------------------------------------
Next ==
    \/ \E c \in Calls :
         \/ \E u \in Users, m \in McpSessions : GetCredentials(c, u, m)
         \/ \E flow \in flows, u \in Users : Callback(c, flow, u)
         \/ ReadSession(c) \/ Refresh(c) \/ FindHolder(c) \/ ReadSessionAgain(c) \/ ReadFile(c)
         \/ FallbackToSession(c) \/ FallbackToFile(c)
         \/ Truncate(c) \/ Write(c) \/ Cache(c)
    \/ \E u \in Users, m \in McpSessions : StartAuthFlow(u, m)
    \/ \E u \in Users, m \in McpSessions \cup {NoSession} : TokenSession(u, m)
    \/ \E u \in Users : RemoveSession(u)
    \/ CleanupOrphanedMappings

Spec == Init /\ [][Next]_vars

\* The gateway vouches for one account per MCP session.
Separated ==
    deployment.gateway /\ \A m \in McpSessions : \A u, v \in deployment.serves[m] : u = v

-----------------------------------------------------------------------------
(* Properties *)

\* Whatever is stored, removed and refused, in whatever order, a session id is bound
\* only to an account that still names it, and mapped to exactly the account it is
\* bound to: what _session_auth_binding and _mcp_session_mapping say never differs.
MapsAgree == Agree(store)

\* "Save the credentials before updating session state": what the session store hands
\* out has been written to the file of that account first.
SessionIsPersisted ==
    Mode("files") /\ Separated =>
        \A u \in Users : store.sessions[u].cred \in written[u] \cup {NoCred}

\* "can only access their own credentials": the credentials kept for an account, in
\* its file or in its session, hold no token of another account.
OwnCredentials ==
    Separated =>
        \A u \in Users : \A cred \in {file[u], store.sessions[u].cred} \ {NoCred} :
            cred.access = u /\ cred.refresh \in {u, NoUser}
=============================================================================
