---------------------------- MODULE SessionStore ----------------------------
(***************************************************************************)
(* The sessions of OAuth21SessionStore (auth/oauth21_session_store.py):    *)
(* what is kept per account, the account each MCP session is mapped to,    *)
(* and the account a session id was first bound to.  Every method holds    *)
(* the lock of the store from its first line to its last, so a method is   *)
(* an operator from stores to stores and a call of one is atomic.          *)
(***************************************************************************)
EXTENDS Naturals

CONSTANTS
    Users,        \* Google accounts
    McpSessions,  \* FastMCP session ids
    NoUser,       \* None in the place of an account
    NoSession,    \* None in the place of a session id
    NoCred        \* None in the place of credentials

ASSUME NoneAssumption ==
    /\ NoUser \notin Users
    /\ NoSession \notin McpSessions

\* The OAuth session id of an account, f"google_{email}".
GoogleId(u) == <<"google", u>>
GoogleIds == {GoogleId(u) : u \in Users}

ASSUME IdsAssumption == GoogleIds \cap (McpSessions \cup {NoSession}) = {}

SessionIds == McpSessions \cup GoogleIds

\* What may be kept as credentials is for the module that uses the store to say.
CONSTANT Credentials
ASSUME CredAssumption == NoCred \notin Credentials

NoEntry == [cred |-> NoCred, sid |-> NoSession, mcp |-> NoSession]

Entry == [cred : Credentials \cup {NoCred},
          sid : GoogleIds \cup {NoSession},
          mcp : McpSessions \cup {NoSession}]

\* sessions: _sessions; mapping: _mcp_session_mapping; binding: _session_auth_binding.
Store == [sessions : [Users -> Entry],
          mapping : [McpSessions -> Users \cup {NoUser}],
          binding : [SessionIds -> Users \cup {NoUser}]]

EmptyStore == [sessions |-> [u \in Users |-> NoEntry],
               mapping |-> [m \in McpSessions |-> NoUser],
               binding |-> [s \in SessionIds |-> NoUser]]

HasSession(st, u) == st.sessions[u] # NoEntry

\* Whom a session id, or None, is mapped to.
MappedTo(st, m) == IF m = NoSession THEN NoUser ELSE st.mapping[m]

-----------------------------------------------------------------------------
(* store_session *)

\* A bug of the kind store_session guards against: the mapping of the session an
\* account had before is left behind.
StaleKept(st, u, sid, m) == {}

\* The ids under which the account was known and no longer will be.
Stale(st, u, sid, m) ==
    ({st.sessions[u].mcp} \ {m, NoSession}) \cup ({st.sessions[u].sid} \ {sid, NoSession})

\* The mappings and bindings of the account's old ids are removed, whoever they now
\* belong to, and its session is replaced ...
Replaced(st, u, cred, sid, m) ==
    LET stale == Stale(st, u, sid, m)
    IN [sessions |-> [st.sessions EXCEPT ![u] = [cred |-> cred, sid |-> sid, mcp |-> m]],
        mapping |-> [x \in McpSessions |->
            IF x \in stale THEN NoUser ELSE st.mapping[x]],
        binding |-> [s \in SessionIds |->
            IF s \in stale THEN NoUser ELSE st.binding[s]]]

\* ... before the binding of the new session is looked at: the ValueError.
Refused(st, u, cred, sid, m) ==
    /\ m # NoSession
    /\ Replaced(st, u, cred, sid, m).binding[m] \notin {u, NoUser}

\* What the store is when store_session returns or raises.
Stored(st, u, cred, sid, m) ==
    LET replaced == Replaced(st, u, cred, sid, m)
        binds(s) == s = m \/ (s = sid /\ replaced.binding[s] = NoUser)
    IN IF Refused(st, u, cred, sid, m) THEN replaced
       ELSE [replaced EXCEPT
              !.mapping = [x \in McpSessions |-> IF x = m THEN u ELSE replaced.mapping[x]],
              !.binding = [s \in SessionIds |-> IF binds(s) THEN u ELSE replaced.binding[s]]]

-----------------------------------------------------------------------------
(* remove_session and cleanup *)

\* _cleanup_orphaned_mappings_locked: what no session names any more.
Cleaned(st) ==
    LET named == {st.sessions[u].mcp : u \in Users} \cup {st.sessions[u].sid : u \in Users}
        named_mcp == {st.sessions[u].mcp : u \in Users}
    IN [st EXCEPT
         !.mapping = [m \in McpSessions |-> IF m \in named_mcp THEN st.mapping[m] ELSE NoUser],
         !.binding = [s \in SessionIds |-> IF s \in named THEN st.binding[s] ELSE NoUser]]

\* remove_session: the binding of the MCP session goes with its mapping.
Removed(st, u) ==
    LET old == st.sessions[u]
        mapped == MappedTo(st, old.mcp) # NoUser
    IN IF ~HasSession(st, u) THEN Cleaned(st)
       ELSE Cleaned(
             [sessions |-> [st.sessions EXCEPT ![u] = NoEntry],
              mapping |-> [m \in McpSessions |-> IF m = old.mcp THEN NoUser ELSE st.mapping[m]],
              binding |-> [s \in SessionIds |->
                  IF s = old.sid \/ (s = old.mcp /\ mapped) THEN NoUser ELSE st.binding[s]]])

-----------------------------------------------------------------------------
(* lookups *)

\* get_credentials_by_mcp_session.
ByMcpSession(st, m) ==
    LET u == MappedTo(st, m) IN IF u = NoUser THEN NoCred ELSE st.sessions[u].cred

-----------------------------------------------------------------------------
(* What the three maps have to do with one another *)

\* A session id is bound to an account that knows it.
BoundIsKnown(st) ==
    \A s \in SessionIds : st.binding[s] # NoUser =>
        s \in {st.sessions[st.binding[s]].mcp, st.sessions[st.binding[s]].sid}

\* A mapping never says anything else than the binding.
MappedIsBound(st) ==
    \A m \in McpSessions : st.binding[m] = st.mapping[m]

Agree(st) == BoundIsKnown(st) /\ MappedIsBound(st)
=============================================================================
