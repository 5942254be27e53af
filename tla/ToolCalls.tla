----------------------------- MODULE ToolCalls ------------------------------
(***************************************************************************)
(* How a tool call finds its account: the middleware that identifies the   *)
(* caller (auth/auth_info_middleware.py), call_tool (core/server.py), the  *)
(* decorators that open Google services (auth/service_decorator.py) and    *)
(* the one that turns failures into messages and calls read-only tools     *)
(* again (core/utils.py).  The calls of an MCP session interleave at every *)
(* await and share the state FastMCP keeps for the session.                *)
(***************************************************************************)
EXTENDS Naturals, Sequences

CONSTANTS
    Calls,     \* calls in flight
    Accounts,  \* Google accounts
    NoAccount, \* None in the place of an account
    McpIds,    \* MCP sessions
    Attempts   \* max_retries of handle_http_errors

VARIABLES
    mode,    \* where the account comes from
    default, \* the configured account
    context, \* what FastMCP keeps for a session: authenticated_user_email
    call     \* the calls in flight

vars == <<mode, default, context, call>>

Modes == {"oauth20", "oauth21", "gateway"}

\* bearer: whose token, or whose assertion, came with the request; asked: the argument
\* user_google_email; principal: the identity kept for the request alone; told: the
\* account the tool is told; services: the accounts of the services opened for it.
Idle == [pc |-> "idle", session |-> NoAccount, bearer |-> NoAccount, asked |-> NoAccount,
         principal |-> NoAccount, told |-> NoAccount, needs |-> 1, services |-> <<>>,
         readonly |-> FALSE, attempt |-> 0, ran |-> 0]

MaybeAccount == Accounts \cup {NoAccount}

TypeOK ==
    /\ mode \in Modes /\ default \in MaybeAccount
    /\ context \in [McpIds -> MaybeAccount]
    /\ \A c \in Calls :
        /\ call[c].pc \in {"idle", "identify", "resolve", "authenticate", "run"}
        /\ {call[c].bearer, call[c].asked, call[c].principal, call[c].told} \subseteq MaybeAccount
        /\ call[c].needs \in 1..2 /\ Len(call[c].services) <= call[c].needs
        /\ call[c].attempt \in 0..Attempts /\ call[c].ran <= call[c].attempt

Init ==
    /\ mode \in Modes
    /\ default \in MaybeAccount
    /\ context = [s \in McpIds |-> NoAccount]
    /\ call = [c \in Calls |-> Idle]

Managed == mode # "oauth20"
Update(c, rec) == call' = [call EXCEPT ![c] = rec]
Return(c) == Update(c, Idle)

-----------------------------------------------------------------------------
(* call_tool and the middleware *)

\* The argument is dropped behind a gateway, is no parameter in the OAuth 2.1 mode, and
\* is filled in from the configured account where a caller may leave it out.
Argument(asked) ==
    CASE Managed -> NoAccount
      [] ~Managed /\ asked = NoAccount -> default
      [] OTHER -> asked

\* In the OAuth 2.1 mode FastMCP lets no request in without a validated token.
Arrive(c, s, bearer, asked, needs, readonly) ==
    /\ call[c] = Idle
    /\ mode = "oauth20" => bearer = NoAccount
    /\ mode = "oauth21" => bearer # NoAccount
    /\ Update(c, [Idle EXCEPT !.pc = "identify", !.session = s, !.bearer = bearer,
                              !.asked = Argument(asked), !.needs = needs,
                              !.readonly = readonly])
    /\ UNCHANGED <<mode, default, context>>

\* A bug of the kind the request scope guards against: whoever of the session was
\* identified last is the principal.
KeepsLast(c) == Managed

\* set_state: a gateway's assertion holds for the request alone, a token's account is
\* kept for the session.
KeepsForSession(c) == mode = "oauth21"

\* _process_request_for_auth.  A gateway request without a valid assertion is rejected;
\* without a gateway a caller nobody identifies goes on.
Identify(c) ==
    /\ call[c].pc = "identify"
    /\ IF mode = "gateway" /\ call[c].bearer = NoAccount
       THEN Return(c) /\ UNCHANGED context
       ELSE /\ context' = IF KeepsForSession(c)
                          THEN [context EXCEPT ![call[c].session] = call[c].bearer] ELSE context
            /\ Update(c, [call[c] EXCEPT !.pc = "resolve", !.attempt = 1,
                              !.principal = IF KeepsForSession(c) THEN NoAccount
                                            ELSE call[c].bearer])
    /\ UNCHANGED <<mode, default>>

\* get_state: what is kept for the request, else what is kept for the session.
Authenticated(c) ==
    IF call[c].principal # NoAccount THEN call[c].principal ELSE context[call[c].session]

-----------------------------------------------------------------------------
(* require_google_service and require_multiple_services *)

\* The account of the call, once per attempt; a call without one fails.
Resolve(c) ==
    /\ call[c].pc = "resolve"
    /\ LET told == IF Managed THEN Authenticated(c) ELSE call[c].asked
       IN IF told = NoAccount THEN Return(c)
          ELSE Update(c, [call[c] EXCEPT !.pc = "authenticate", !.told = told])
    /\ UNCHANGED <<mode, default, context>>

\* A bug of the kind the comparison guards against: the token is not looked at.
MatchesAnything(c) == TRUE

\* get_authenticated_google_service_oauth21: the token of the request has to be the
\* token of the identity the session says, and of the account asked for.
TokenMatches(c) == call[c].bearer = call[c].told

\* The account whose credentials are opened: of the token, or by the name of the account.
CredentialsOf(c) == IF mode = "oauth21" THEN call[c].bearer ELSE call[c].told

\* _authenticate_service, for the next service the tool needs.  One failure closes the
\* services opened so far and ends the call.
Authenticate(c) ==
    /\ call[c].pc = "authenticate"
    /\ \/ /\ mode = "oauth21" => TokenMatches(c)
          /\ LET services == Append(call[c].services, CredentialsOf(c))
             IN Update(c, [call[c] EXCEPT
                    !.services = services,
                    !.pc = IF Len(services) = call[c].needs THEN "run" ELSE "authenticate"])
       \/ Return(c)
    /\ UNCHANGED <<mode, default, context>>

-----------------------------------------------------------------------------
(* handle_http_errors *)

\* A bug of the kind is_read_only guards against: whatever failed is called again.
RetriedAnyway(c) == call[c].attempt < Attempts

Retried(c) == call[c].readonly /\ call[c].attempt < Attempts

\* Google does what the tool asks for, once per attempt ...
Run(c) ==
    /\ call[c].pc = "run" /\ call[c].ran < call[c].attempt
    /\ Update(c, [call[c] EXCEPT !.ran = @ + 1])
    /\ UNCHANGED <<mode, default, context>>

\* ... and the tool answers, or fails for good, before or after that.
Answer(c) ==
    /\ call[c].pc = "run"
    /\ Return(c)
    /\ UNCHANGED <<mode, default, context>>

\* After an SSL error, which may come when Google has done it, a read-only tool is called
\* again from the inner decorator on, with its services closed.
SslError(c) ==
    /\ call[c].pc = "run"
    /\ IF Retried(c)
       THEN Update(c, [call[c] EXCEPT !.pc = "resolve", !.attempt = @ + 1, !.services = <<>>,
                                      !.told = NoAccount])
       ELSE Return(c)
    /\ UNCHANGED <<mode, default, context>>

Next ==
    \E c \in Calls :
        \/ \E s \in McpIds, bearer, asked \in MaybeAccount, n \in 1..2, r \in BOOLEAN :
             Arrive(c, s, bearer, asked, n, r)
        \/ Identify(c) \/ Resolve(c) \/ Authenticate(c) \/ Run(c) \/ Answer(c) \/ SslError(c)

Spec == Init /\ [][Next]_vars

-----------------------------------------------------------------------------
(* Properties *)

\* Whose call it is: who signed the request, or who is named in it.
Caller(c) == IF Managed THEN call[c].bearer ELSE call[c].asked

\* "Ensure session can only access its own credentials": whatever other calls of the
\* session write between its awaits, and on every attempt, a tool that runs is told the
\* account of its caller, and every service it was handed holds that account's
\* credentials.
ActsForItsCaller ==
    \A c \in Calls : call[c].pc = "run" =>
        /\ call[c].told = Caller(c)
        /\ \A i \in DOMAIN call[c].services : call[c].services[i] = Caller(c)

\* "the operation is considered safe to retry": what a tool that may write asks Google
\* for is done at most once per call, whatever comes back (what the client library
\* repeats by itself, num_retries, apart).
WritesAreDoneOnce ==
    \A c \in Calls : ~call[c].readonly => call[c].ran <= 1
=============================================================================
