---------------------------- MODULE ServerProofs ----------------------------
(***************************************************************************)
(* What the parts of the server promise, for every value of the constants: *)
(* the maps of the session store agree and its credentials are the         *)
(* account's own; a tool call acts for its caller; a sign-in is told of    *)
(* ports of ours; files and reports are what they are said to be; and a    *)
(* launch does what its command line allows.                               *)
(***************************************************************************)
EXTENDS MCServer, FiniteSetTheorems, TLAPS

-----------------------------------------------------------------------------
(* store_session *)

\* The store keeps its shape when the old ids of an account are dropped.
LEMMA ReplacedType ==
    ASSUME NEW st \in Store, NEW u \in Users, NEW cred \in Credentials,
           NEW sid \in GoogleIds \cup {NoSession}, NEW m \in McpSessions \cup {NoSession}
    PROVE  Replaced(st, u, cred, sid, m) \in Store
<1>1. Replaced(st, u, cred, sid, m).sessions \in [Users -> Entry]
  BY SMT DEF Replaced, Store, Entry
<1>2. Replaced(st, u, cred, sid, m).mapping \in [McpSessions -> Users \cup {NoUser}]
  BY SMT DEF Replaced, Store
<1>3. Replaced(st, u, cred, sid, m).binding \in [SessionIds -> Users \cup {NoUser}]
  BY SMT DEF Replaced, Store
<1> QED BY <1>1, <1>2, <1>3 DEF Replaced, Store

\* Dropping them leaves the maps in agreement, whether or not the new session is refused.
LEMMA ReplacedAgrees ==
    ASSUME NEW st \in Store, NEW u \in Users, NEW cred \in Credentials,
           NEW sid \in GoogleIds \cup {NoSession}, NEW m \in McpSessions \cup {NoSession},
           Agree(st)
    PROVE  Agree(Replaced(st, u, cred, sid, m))
<1> DEFINE rep == Replaced(st, u, cred, sid, m)
           stale == Stale(st, u, sid, m)
<1>1. /\ rep.sessions = [st.sessions EXCEPT ![u] = [cred |-> cred, sid |-> sid, mcp |-> m]]
      /\ \A s \in SessionIds : rep.binding[s] = (IF s \in stale THEN NoUser ELSE st.binding[s])
      /\ \A x \in McpSessions : rep.mapping[x] = (IF x \in stale THEN NoUser ELSE st.mapping[x])
  BY DEF Replaced
<1>2. NoSession \notin SessionIds
  BY NoneAssumption, IdsAssumption DEF SessionIds
<1>3. ASSUME NEW s \in SessionIds, rep.binding[s] # NoUser
      PROVE  s \in {rep.sessions[rep.binding[s]].mcp, rep.sessions[rep.binding[s]].sid}
  <2> DEFINE v == st.binding[s]
  <2>1. s \notin stale /\ rep.binding[s] = v /\ v # NoUser
    BY <1>1, <1>3
  <2>2. v \in Users
    BY <2>1 DEF Store
  <2>3. s \in {st.sessions[v].mcp, st.sessions[v].sid}
    BY <2>1 DEF Agree, BoundIsKnown
  <2>4. CASE v = u
    <3>1. s \in {m, sid}
      BY <2>1, <2>3, <2>4, <1>2 DEF Stale
    <3>2. rep.sessions[u].mcp = m /\ rep.sessions[u].sid = sid
      BY <1>1 DEF Store
    <3> QED BY <3>1, <3>2, <2>1, <2>4
  <2>5. CASE v # u
    <3>1. rep.sessions[v] = st.sessions[v]
      BY <1>1, <2>2, <2>5 DEF Store
    <3> QED BY <3>1, <2>1, <2>3
  <2> QED BY <2>4, <2>5
<1>4. ASSUME NEW x \in McpSessions
      PROVE  rep.binding[x] = rep.mapping[x]
  BY <1>1 DEF Agree, MappedIsBound, SessionIds
<1> QED BY <1>3, <1>4 DEF Agree, BoundIsKnown, MappedIsBound

\* store_session as a whole, also when it raises.
LEMMA StoredType ==
    ASSUME NEW st \in Store, NEW u \in Users, NEW cred \in Credentials,
           NEW sid \in GoogleIds \cup {NoSession}, NEW m \in McpSessions \cup {NoSession}
    PROVE  Stored(st, u, cred, sid, m) \in Store
<1> DEFINE rep == Replaced(st, u, cred, sid, m)
<1>1. rep \in Store
  BY ReplacedType
<1>2. CASE Refused(st, u, cred, sid, m)
  BY <1>1, <1>2 DEF Stored
<1>3. CASE ~Refused(st, u, cred, sid, m)
  <2> DEFINE mp == [x \in McpSessions |-> IF x = m THEN u ELSE rep.mapping[x]]
             bd == [s \in SessionIds |-> IF s = m \/ (s = sid /\ rep.binding[s] = NoUser)
                                         THEN u ELSE rep.binding[s]]
  <2>1. Stored(st, u, cred, sid, m) = [rep EXCEPT !.mapping = mp, !.binding = bd]
    BY <1>3, Zenon DEF Stored
  <2>2. mp \in [McpSessions -> Users \cup {NoUser}]
    BY <1>1 DEF Store
  <2>3. bd \in [SessionIds -> Users \cup {NoUser}]
    BY <1>1 DEF Store
  <2> HIDE DEF mp, bd, rep
  <2> QED BY <2>1, <2>2, <2>3, <1>1 DEF Store
<1> QED BY <1>2, <1>3

\* A refused session is only dropped; an accepted one is bound and mapped alike.
LEMMA StoredAgrees ==
    ASSUME NEW st \in Store, NEW u \in Users, NEW cred \in Credentials,
           NEW sid \in GoogleIds \cup {NoSession}, NEW m \in McpSessions \cup {NoSession},
           Agree(st)
    PROVE  Agree(Stored(st, u, cred, sid, m))
<1> DEFINE rep == Replaced(st, u, cred, sid, m)
           new == Stored(st, u, cred, sid, m)
<1>1. rep \in Store /\ Agree(rep)
  BY ReplacedType, ReplacedAgrees
<1>2. CASE Refused(st, u, cred, sid, m)
  BY <1>1, <1>2 DEF Stored
<1>3. CASE ~Refused(st, u, cred, sid, m)
  <2>1. /\ new.sessions = rep.sessions
        /\ \A x \in McpSessions : new.mapping[x] = (IF x = m THEN u ELSE rep.mapping[x])
        /\ \A s \in SessionIds :
             new.binding[s] = (IF s = m \/ (s = sid /\ rep.binding[s] = NoUser)
                               THEN u ELSE rep.binding[s])
    BY <1>1, <1>3 DEF Stored, Store
  <2>2. rep.sessions[u].mcp = m /\ rep.sessions[u].sid = sid
    BY DEF Replaced, Store
  <2>3. ASSUME NEW s \in SessionIds, new.binding[s] # NoUser
        PROVE  s \in {new.sessions[new.binding[s]].mcp, new.sessions[new.binding[s]].sid}
    BY <2>1, <2>2, <2>3, <1>1 DEF Agree, BoundIsKnown
  <2>4. ASSUME NEW x \in McpSessions
        PROVE  new.binding[x] = new.mapping[x]
    <3>1. x \in SessionIds /\ x # sid
      BY IdsAssumption, NoneAssumption DEF SessionIds
    <3> QED BY <3>1, <2>1, <1>1 DEF Agree, MappedIsBound
  <2> QED BY <2>3, <2>4 DEF Agree, BoundIsKnown, MappedIsBound
<1> QED BY <1>2, <1>3

-----------------------------------------------------------------------------
(* remove_session and the cleanup *)

LEMMA CleanedAgrees ==
    ASSUME NEW st \in Store, Agree(st)
    PROVE  Cleaned(st) \in Store /\ Agree(Cleaned(st))
<1> DEFINE named_mcp == {st.sessions[u].mcp : u \in Users}
           named == named_mcp \cup {st.sessions[u].sid : u \in Users}
           mp == [m \in McpSessions |-> IF m \in named_mcp THEN st.mapping[m] ELSE NoUser]
           bd == [s \in SessionIds |-> IF s \in named THEN st.binding[s] ELSE NoUser]
           new == Cleaned(st)
<1>1. new = [st EXCEPT !.mapping = mp, !.binding = bd]
  BY Zenon DEF Cleaned
<1>2. mp \in [McpSessions -> Users \cup {NoUser}]
  BY DEF Store
<1>3. bd \in [SessionIds -> Users \cup {NoUser}]
  BY DEF Store
<1>4. /\ \A m \in McpSessions : mp[m] = (IF m \in named_mcp THEN st.mapping[m] ELSE NoUser)
      /\ \A s \in SessionIds : bd[s] = (IF s \in named THEN st.binding[s] ELSE NoUser)
  OBVIOUS
<1>5. McpSessions \cap {st.sessions[u].sid : u \in Users} = {}
  BY IdsAssumption, NoneAssumption DEF Store, Entry
<1> HIDE DEF mp, bd, named, named_mcp, new
<1>6. new \in Store /\ new.sessions = st.sessions /\ new.mapping = mp /\ new.binding = bd
  BY <1>1, <1>2, <1>3 DEF Store
<1>7. BoundIsKnown(new)
  BY <1>4, <1>6 DEF Agree, BoundIsKnown
<1>8. MappedIsBound(new)
  BY <1>4, <1>5, <1>6 DEF Agree, MappedIsBound, SessionIds, named
<1> QED BY <1>6, <1>7, <1>8 DEF Agree, new

LEMMA RemovedAgrees ==
    ASSUME NEW st \in Store, NEW u \in Users, Agree(st)
    PROVE  Removed(st, u) \in Store /\ Agree(Removed(st, u))
<1> DEFINE old == st.sessions[u]
           mapped == MappedTo(st, old.mcp) # NoUser
           ss == [st.sessions EXCEPT ![u] = NoEntry]
           mp == [m \in McpSessions |-> IF m = old.mcp THEN NoUser ELSE st.mapping[m]]
           bd == [s \in SessionIds |->
                    IF s = old.sid \/ (s = old.mcp /\ mapped) THEN NoUser ELSE st.binding[s]]
           cut == [sessions |-> ss, mapping |-> mp, binding |-> bd]
<1>1. CASE ~HasSession(st, u)
  BY <1>1, CleanedAgrees DEF Removed
<1>2. CASE HasSession(st, u)
  <2>1. Removed(st, u) = Cleaned(cut)
    BY <1>2, Zenon DEF Removed
  <2>2. ss \in [Users -> Entry]
    BY DEF Store, NoEntry, Entry
  <2>3. mp \in [McpSessions -> Users \cup {NoUser}]
    BY DEF Store
  <2>4. bd \in [SessionIds -> Users \cup {NoUser}]
    BY DEF Store
  <2>5. NoSession \notin SessionIds
    BY NoneAssumption, IdsAssumption DEF SessionIds
  <2>6. ASSUME NEW s \in SessionIds, bd[s] # NoUser
        PROVE  s \in {ss[bd[s]].mcp, ss[bd[s]].sid}
    <3>1. bd[s] = st.binding[s] /\ s # old.sid /\ ~(s = old.mcp /\ mapped)
      BY <2>6
    <3>2. st.binding[s] \in Users
      BY <2>6, <3>1 DEF Store
    <3>3. s \in {st.sessions[st.binding[s]].mcp, st.sessions[st.binding[s]].sid}
      BY <2>6, <3>1 DEF Agree, BoundIsKnown
    <3>4. st.binding[s] # u
      <4> SUFFICES ASSUME st.binding[s] = u PROVE FALSE
        OBVIOUS
      <4>1. s = old.mcp /\ ~mapped
        BY <3>1, <3>3
      <4>2. s \in McpSessions
        BY <4>1, <2>5, IdsAssumption DEF Store, Entry, SessionIds
      <4>3. st.mapping[s] = u
        BY <4>2 DEF Agree, MappedIsBound
      <4> QED BY <4>1, <4>2, <4>3, NoneAssumption DEF MappedTo
    <3> QED BY <3>1, <3>2, <3>3, <3>4 DEF Store
  <2>7. ASSUME NEW x \in McpSessions
        PROVE  bd[x] = mp[x]
    <3>1. x \in SessionIds /\ x # old.sid /\ x # NoSession
      BY IdsAssumption, NoneAssumption DEF SessionIds, Store, Entry
    <3>2. st.binding[x] = st.mapping[x]
      BY DEF Agree, MappedIsBound
    <3>3. CASE x = old.mcp
      BY <3>1, <3>2, <3>3 DEF MappedTo
    <3>4. CASE x # old.mcp
      BY <3>1, <3>2, <3>4
    <3> QED BY <3>3, <3>4
  <2> HIDE DEF ss, mp, bd
  <2>8. cut \in Store /\ cut.sessions = ss /\ cut.mapping = mp /\ cut.binding = bd
    BY <2>2, <2>3, <2>4 DEF Store
  <2>9. Agree(cut)
    BY <2>6, <2>7, <2>8 DEF Agree, BoundIsKnown, MappedIsBound
  <2> HIDE DEF cut
  <2> QED BY <2>1, <2>8, <2>9, CleanedAgrees
<1> QED BY <1>1, <1>2

-----------------------------------------------------------------------------
(* Types, and what a call under way has in hand *)

InHand == {"refresh_session", "refresh", "find_holder", "callback_fallback",
           "callback_file", "truncate", "write", "cache"}

\* A call that is under way knows its account, and has credentials from the moment it
\* goes on to refresh or to keep them.
Ready(k) ==
    /\ k.pc # "idle" => k.user \in Users /\ k.holder \in Users /\ k.mcp \in McpSessions
    /\ k.pc \in InHand => k.cred \in Credentials
    /\ k.pc \in {"refresh_session", "refresh"} => k.cred.refresh \in Users

CallsAreReady == \A c \in Calls : Ready(call[c])

TInv == TypeOK /\ CallsAreReady

USE DEF Mode, Stateless

\* What the session holds is a credential, or none.
LEMMA ByMcpSessionType ==
    ASSUME NEW st \in Store, NEW m \in McpSessions \cup {NoSession}
    PROVE  /\ MappedTo(st, m) \in Users \cup {NoUser}
           /\ ByMcpSession(st, m) \in Credentials \cup {NoCred}
BY DEF Store, MappedTo, ByMcpSession, Entry

LEMMA OnFileType ==
    ASSUME TypeOK, NEW u \in Users
    PROVE  OnFile(u) \in Credentials \cup {NoCred}
BY DEF TypeOK, OnFile

LEMMA CredentialType ==
    ASSUME NEW cred
    PROVE  /\ cred \in Credentials => /\ cred.token \in 1..MaxTokens
                                      /\ cred.access \in Users
                                      /\ cred.refresh \in Users \cup {NoUser}
           /\ cred # NoCred \/ cred \notin Credentials
BY CredentialsAssumption, CredAssumption

\* The credentials a call makes are credentials.
LEMMA RenewedType ==
    ASSUME NEW cred \in Credentials, cred.refresh \in Users, issued \in 0..MaxTokens,
           issued < MaxTokens
    PROVE  Renewed(cred) \in Credentials /\ issued + 1 \in 0..MaxTokens
<1>1. issued + 1 \in 1..MaxTokens
  BY MaxTokensAssumption
<1> QED BY <1>1, CredentialsAssumption, MaxTokensAssumption DEF Renewed

LEMMA RefreshableType ==
    ASSUME NEW cred \in Credentials, NEW refresh \in Users \cup {NoUser}
    PROVE  Refreshable(cred, refresh) \in Credentials
BY CredentialsAssumption DEF Refreshable

\* One slot changes.
LEMMA StepType ==
    ASSUME TInv, NEW c \in Calls, NEW rec \in Call, Ready(rec), Step(c, rec)
    PROVE  call' \in [Calls -> Call] /\ CallsAreReady'
<1>1. call' \in [Calls -> Call]
  BY DEF TInv, TypeOK, Step
<1>2. ASSUME NEW d \in Calls PROVE Ready(call'[d])
  <2>1. call'[d] = IF d = c THEN rec ELSE call[d]
    BY DEF TInv, TypeOK, Step
  <2> QED BY <2>1 DEF TInv, CallsAreReady
<1> QED BY <1>1, <1>2 DEF CallsAreReady, Ready

LEMMA IdleType == Idle \in Call /\ Ready(Idle)
BY DEF Idle, Call, Ready, InHand

LEMMA ReturnType ==
    ASSUME TInv, NEW c \in Calls, Return(c)
    PROVE  call' \in [Calls -> Call] /\ CallsAreReady'
BY StepType, IdleType DEF Return

\* The call goes on, with the credentials it had or with others.
LEMMA WithType ==
    ASSUME TInv, NEW c \in Calls, call[c].pc # "idle", NEW pc, NEW cred \in Credentials,
           pc \in InHand, pc \in {"refresh_session", "refresh"} => cred.refresh \in Users,
           With(c, pc, cred)
    PROVE  call' \in [Calls -> Call] /\ CallsAreReady'
<1> DEFINE rec == [pc |-> pc, user |-> call[c].user, mcp |-> call[c].mcp,
                   cred |-> cred, holder |-> call[c].holder]
<1>1. call[c] \in Call /\ Ready(call[c])
  BY DEF TInv, TypeOK, CallsAreReady
<1>2. rec \in Call
  BY <1>1 DEF Call, InHand
<1>3. Ready(rec)
  BY <1>1 DEF Ready
<1>4. Step(c, rec)
  BY DEF With
<1> HIDE DEF rec
<1> QED BY <1>2, <1>3, <1>4, StepType

LEMMA GotoType ==
    ASSUME TInv, NEW c \in Calls, NEW pc, Goto(c, pc), call[c].pc # "idle",
           pc \in {"file", "read_file", "callback_file", "write", "cache"},
           pc \in InHand => call[c].pc \in InHand
    PROVE  call' \in [Calls -> Call] /\ CallsAreReady'
<1> DEFINE rec == [call[c] EXCEPT !.pc = pc]
<1>1. call[c] \in Call /\ Ready(call[c])
  BY DEF TInv, TypeOK, CallsAreReady
<1>2. rec \in Call /\ rec.pc = pc /\ rec.user = call[c].user /\ rec.mcp = call[c].mcp
      /\ rec.cred = call[c].cred /\ rec.holder = call[c].holder
  BY <1>1 DEF Call
<1>3. Ready(rec)
  BY <1>1, <1>2 DEF Ready, InHand
<1>4. Step(c, rec)
  BY DEF Goto
<1> HIDE DEF rec
<1> QED BY <1>2, <1>3, <1>4, StepType

-----------------------------------------------------------------------------
(* Type correctness *)

LEMMA InitTInv == Init => TInv
<1> SUFFICES ASSUME Init PROVE TInv
  OBVIOUS
<1>1. EmptyStore \in Store
  <2>1. [u \in Users |-> NoEntry] \in [Users -> Entry]
    BY DEF NoEntry, Entry
  <2>2. [m \in McpSessions |-> NoUser] \in [McpSessions -> Users \cup {NoUser}]
    OBVIOUS
  <2>3. [s \in SessionIds |-> NoUser] \in [SessionIds -> Users \cup {NoUser}]
    OBVIOUS
  <2> QED BY <2>1, <2>2, <2>3 DEF EmptyStore, Store
<1>2. TypeOK
  BY <1>1, IdleType, MaxTokensAssumption DEF Init, TypeOK
<1>3. CallsAreReady
  BY IdleType DEF Init, CallsAreReady
<1> QED BY <1>2, <1>3 DEF TInv

\* A call is given its account.
LEMMA GetCredentialsType ==
    ASSUME TInv, NEW c \in Calls, NEW u \in Users, NEW m \in McpSessions,
           GetCredentials(c, u, m)
    PROVE  TInv'
<1> DEFINE pc == IF MappedTo(store, m) \in {u, NoUser} THEN "session" ELSE "read_file"
           rec == [pc |-> pc, user |-> u, mcp |-> m, cred |-> NoCred, holder |-> u]
<1>1. rec \in Call /\ Ready(rec)
  BY DEF Call, Ready, InHand
<1>2. Step(c, rec)
  BY Zenon DEF GetCredentials
<1> HIDE DEF rec
<1>3. call' \in [Calls -> Call] /\ CallsAreReady'
  BY <1>1, <1>2, StepType
<1> QED BY <1>3 DEF GetCredentials, TInv, TypeOK, SameGoogle, SameFiles

\* What the session and the file hold goes into the call as it is.
LEMMA ReadType ==
    ASSUME TInv, NEW c \in Calls,
           ReadSession(c) \/ ReadSessionAgain(c) \/ ReadFile(c)
    PROVE  TInv'
<1>1. /\ call[c] \in Call /\ Ready(call[c])
      /\ store \in Store
  BY DEF TInv, TypeOK, CallsAreReady
<1>2. /\ call[c].pc # "idle" /\ call[c].mcp \in McpSessions /\ call[c].user \in Users
  BY <1>1 DEF ReadSession, ReadSessionAgain, ReadFile, Ready
<1>3. call' \in [Calls -> Call] /\ CallsAreReady'
  <2>1. CASE ReadSession(c)
    <3> DEFINE found == ByMcpSession(store, call[c].mcp)
    <3>1. found \in Credentials \cup {NoCred}
      BY <1>1, <1>2, ByMcpSessionType
    <3>2. \/ Goto(c, "read_file") \/ Goto(c, "file")
          \/ Return(c)
          \/ found # NoCred /\ found.refresh # NoUser /\ With(c, "refresh_session", found)
      BY <2>1 DEF ReadSession
    <3> HIDE DEF found
    <3>3. found # NoCred /\ found.refresh # NoUser => found.refresh \in Users
      BY <3>1, CredentialType
    <3> QED BY <3>1, <3>2, <3>3, <1>2, GotoType, ReturnType, WithType DEF InHand
  <2>2. CASE ReadSessionAgain(c)
    <3> DEFINE found == ByMcpSession(store, call[c].mcp)
    <3>1. found \in Credentials \cup {NoCred}
      BY <1>1, <1>2, ByMcpSessionType
    <3>2. \/ Goto(c, "read_file")
          \/ Return(c)
          \/ found # NoCred /\ found.refresh # NoUser /\ With(c, "refresh", found)
      BY <2>2 DEF ReadSessionAgain
    <3> HIDE DEF found
    <3>3. found # NoCred /\ found.refresh # NoUser => found.refresh \in Users
      BY <3>1, CredentialType
    <3> QED BY <3>1, <3>2, <3>3, <1>2, GotoType, ReturnType, WithType DEF InHand
  <2>3. CASE ReadFile(c)
    <3> DEFINE found == IF Stateless THEN NoCred ELSE OnFile(call[c].user)
    <3>1. found \in Credentials \cup {NoCred}
      BY <1>2, OnFileType DEF TInv
    <3>2. \/ Return(c)
          \/ found # NoCred /\ found.refresh # NoUser /\ With(c, "refresh", found)
      BY <2>3 DEF ReadFile
    <3> HIDE DEF found
    <3>3. found # NoCred /\ found.refresh # NoUser => found.refresh \in Users
      BY <3>1, CredentialType
    <3> QED BY <3>1, <3>2, <3>3, <1>2, ReturnType, WithType DEF InHand
  <2> QED BY <2>1, <2>2, <2>3
<1>4. UNCHANGED <<deployment, store, flows, issued, consented, file, torn, written>>
  BY DEF ReadSession, ReadSessionAgain, ReadFile, SameGoogle, SameFiles
<1> QED BY <1>3, <1>4 DEF TInv, TypeOK

\* A refresh and the question whom it is for.
LEMMA RefreshType ==
    ASSUME TInv, NEW c \in Calls, Refresh(c) \/ FindHolder(c)
    PROVE  TInv'
<1>1. /\ call[c] \in Call /\ Ready(call[c])
      /\ store \in Store /\ issued \in 0..MaxTokens
  BY DEF TInv, TypeOK, CallsAreReady
<1>2. /\ call[c].pc # "idle" /\ call[c].mcp \in McpSessions /\ call[c].cred \in Credentials
      /\ call[c].user \in Users
  BY <1>1 DEF Refresh, FindHolder, Ready, InHand
<1>3. Keep \in {"cache", "truncate"}
  BY DEF Keep
<1>4. call' \in [Calls -> Call] /\ CallsAreReady' /\ issued' \in 0..MaxTokens
  <2>1. CASE Refresh(c)
    <3>1. CASE Return(c) /\ SameGoogle
      BY <3>1, <1>1, ReturnType DEF SameGoogle
    <3>2. CASE /\ issued < MaxTokens /\ issued' = issued + 1
               /\ With(c, IF call[c].pc = "refresh_session" THEN "find_holder" ELSE Keep,
                       Renewed(call[c].cred))
      <4>1. call[c].cred.refresh \in Users
        BY <1>1, <2>1 DEF Refresh, Ready
      <4>2. Renewed(call[c].cred) \in Credentials /\ issued' \in 0..MaxTokens
        BY <1>1, <1>2, <3>2, <4>1, RenewedType
      <4>3. (IF call[c].pc = "refresh_session" THEN "find_holder" ELSE Keep)
              \in {"find_holder", "cache", "truncate"}
        BY <1>3
      <4> QED BY <1>2, <3>2, <4>2, <4>3, WithType DEF InHand
    <3> QED BY <2>1, <3>1, <3>2 DEF Refresh
  <2>2. CASE FindHolder(c)
    <3> DEFINE holder == MappedTo(store, call[c].mcp)
               rec == [pc |-> Keep, user |-> call[c].user, mcp |-> call[c].mcp,
                       cred |-> call[c].cred, holder |-> holder]
    <3>1. holder \in Users \cup {NoUser}
      BY <1>1, <1>2, ByMcpSessionType
    <3>2. Return(c) \/ (holder # NoUser /\ Step(c, rec))
      BY <2>2, Zenon DEF FindHolder
    <3>3. holder # NoUser => rec \in Call /\ Ready(rec)
      BY <1>2, <1>3, <3>1 DEF Call, Ready, InHand
    <3>4. issued' = issued
      BY <2>2 DEF FindHolder, SameGoogle
    <3> HIDE DEF holder, rec
    <3> QED BY <1>1, <3>2, <3>3, <3>4, ReturnType, StepType
  <2> QED BY <2>1, <2>2
<1>5. UNCHANGED <<deployment, store, flows, consented, file, torn, written>>
  BY DEF Refresh, FindHolder, SameGoogle, SameFiles
<1> QED BY <1>4, <1>5 DEF TInv, TypeOK

\* A sign-in and its callback.
LEMMA SignInType ==
    ASSUME TInv,
           \/ \E u \in Users, m \in McpSessions : StartAuthFlow(u, m)
           \/ \E c \in Calls, flow \in flows, u \in Users : Callback(c, flow, u)
    PROVE  TInv'
<1>1. CASE \E u \in Users, m \in McpSessions : StartAuthFlow(u, m)
  <2>1. flows' \subseteq Flow
    BY <1>1 DEF StartAuthFlow, Flow, TInv, TypeOK, Known
  <2>2. UNCHANGED <<deployment, store, call, issued, consented, file, torn, written>>
    BY <1>1 DEF StartAuthFlow, SameGoogle, SameFiles
  <2>3. CallsAreReady'
    BY <2>2 DEF TInv, CallsAreReady, Ready
  <2> QED BY <2>1, <2>2, <2>3 DEF TInv, TypeOK
<1>2. ASSUME NEW c \in Calls, NEW flow \in flows, NEW u \in Users, Callback(c, flow, u)
      PROVE  TInv'
  <2>1. flow \in Flow /\ flows' \subseteq Flow
    BY <1>2 DEF Callback, TInv, TypeOK
  <2>2. UNCHANGED <<deployment, store, file, torn, written>>
    BY <1>2 DEF Callback, SameFiles
  <2>3. CASE UNCHANGED call /\ SameGoogle
    BY <2>1, <2>2, <2>3 DEF TInv, TypeOK, CallsAreReady, SameGoogle, Ready
  <2>4. CASE issued < MaxTokens
    <3>1. PICK full \in BOOLEAN :
            LET cred == [token |-> issued + 1, access |-> u,
                         refresh |-> IF full THEN u ELSE NoUser]
                rec == [user |-> u, mcp |-> flow.mcp, cred |-> cred, holder |-> u,
                        pc |-> IF full THEN Keep ELSE "callback_fallback"]
            IN /\ issued' = issued + 1
               /\ consented' = consented \cup {u}
               /\ Step(c, rec) \/ UNCHANGED call
      BY <1>2, <2>4, Zenon DEF Callback
    <3> DEFINE cred == [token |-> issued + 1, access |-> u,
                        refresh |-> IF full THEN u ELSE NoUser]
               rec == [user |-> u, mcp |-> flow.mcp, cred |-> cred, holder |-> u,
                       pc |-> IF full THEN Keep ELSE "callback_fallback"]
    <3>2. issued + 1 \in 1..MaxTokens /\ issued + 1 \in 0..MaxTokens
      BY <2>4, MaxTokensAssumption DEF TInv, TypeOK
    <3>3. cred \in Credentials
      BY <3>2, CredentialsAssumption
    <3> HIDE DEF cred
    <3>4. rec \in Call /\ Ready(rec)
      BY <2>1, <3>3 DEF Call, Ready, InHand, Keep, Flow
    <3> HIDE DEF rec
    <3>5. Step(c, rec) \/ UNCHANGED call
      BY <3>1 DEF rec, cred
    <3>6. call' \in [Calls -> Call] /\ CallsAreReady'
      <4>1. CASE Step(c, rec)
        BY <4>1, <3>4, StepType
      <4>2. CASE UNCHANGED call
        BY <4>2 DEF TInv, TypeOK, CallsAreReady, Ready
      <4> QED BY <3>5, <4>1, <4>2
    <3>7. issued' \in 0..MaxTokens /\ consented' \subseteq Users
      BY <3>1, <3>2 DEF TInv, TypeOK
    <3> QED BY <2>1, <2>2, <3>6, <3>7 DEF TInv, TypeOK
  <2> QED BY <1>2, <2>3, <2>4 DEF Callback
<1> QED BY <1>1, <1>2

\* The refresh token that is put back is an account's or none.
LEMMA FallbackType ==
    ASSUME TInv, NEW c \in Calls, FallbackToSession(c) \/ FallbackToFile(c)
    PROVE  TInv'
<1>1. /\ call[c] \in Call /\ Ready(call[c])
      /\ store \in Store
  BY DEF TInv, TypeOK, CallsAreReady
<1>2. /\ call[c].pc # "idle" /\ call[c].mcp \in McpSessions /\ call[c].user \in Users
      /\ call[c].pc \in InHand /\ call[c].cred \in Credentials
  BY <1>1 DEF FallbackToSession, FallbackToFile, Ready, InHand
<1>3. call' \in [Calls -> Call] /\ CallsAreReady'
  <2>1. CASE FallbackToSession(c)
    <3> DEFINE found == ByMcpSession(store, call[c].mcp)
    <3>1. found \in Credentials \cup {NoCred}
      BY <1>1, <1>2, ByMcpSessionType
    <3>2. \/ Goto(c, "cache") \/ Goto(c, "callback_file")
          \/ /\ found # NoCred
             /\ With(c, Keep, Refreshable(call[c].cred, found.refresh))
      BY <2>1 DEF FallbackToSession
    <3> HIDE DEF found
    <3>3. found # NoCred => Refreshable(call[c].cred, found.refresh) \in Credentials
      BY <1>2, <3>1, CredentialType, RefreshableType
    <3>4. Keep \in InHand /\ Keep \notin {"refresh_session", "refresh"}
      BY DEF Keep, InHand
    <3> QED BY <1>2, <3>2, <3>3, <3>4, GotoType, WithType DEF InHand
  <2>2. CASE FallbackToFile(c)
    <3> DEFINE found == OnFile(call[c].user)
               again == IF found # NoCred THEN found.refresh ELSE NoUser
    <3>1. found \in Credentials \cup {NoCred}
      BY <1>2, OnFileType DEF TInv
    <3>2. again \in Users \cup {NoUser}
      BY <3>1, CredentialType
    <3>3. With(c, "truncate", Refreshable(call[c].cred, again))
      BY <2>2 DEF FallbackToFile
    <3> HIDE DEF found, again
    <3>4. Refreshable(call[c].cred, again) \in Credentials
      BY <1>2, <3>2, RefreshableType
    <3> QED BY <1>2, <3>3, <3>4, WithType DEF InHand
  <2> QED BY <2>1, <2>2
<1>4. UNCHANGED <<deployment, store, flows, issued, consented, file, torn, written>>
  BY DEF FallbackToSession, FallbackToFile, SameGoogle, SameFiles
<1> QED BY <1>3, <1>4 DEF TInv, TypeOK

\* The file is truncated and written, and the session kept.
LEMMA KeepType ==
    ASSUME TInv, NEW c \in Calls, Truncate(c) \/ Write(c) \/ Cache(c)
    PROVE  TInv'
<1>1. /\ call[c] \in Call /\ Ready(call[c])
  BY DEF TInv, TypeOK, CallsAreReady
<1>2. /\ call[c].pc # "idle" /\ call[c].mcp \in McpSessions /\ call[c].holder \in Users
      /\ call[c].pc \in InHand /\ call[c].cred \in Credentials
  BY <1>1 DEF Truncate, Write, Cache, Ready, InHand
<1>3. call' \in [Calls -> Call] /\ CallsAreReady'
  <2>1. Return(c) \/ Goto(c, "write") \/ Goto(c, "cache")
    BY DEF Truncate, Write, Cache
  <2> QED BY <2>1, <1>2, ReturnType, GotoType
<1>4. UNCHANGED <<deployment, flows, issued, consented>>
  BY DEF Truncate, Write, Cache, SameGoogle
<1>5. /\ file' \in [Users -> Credentials \cup {NoCred}]
      /\ torn' \subseteq Users
      /\ written' \in [Users -> SUBSET Credentials]
  BY <1>2 DEF Truncate, Write, Cache, TInv, TypeOK, SameFiles
<1>6. store' \in Store
  <2>1. CASE Cache(c)
    <3> DEFINE m == Session(call[c].mcp)
               once == Stored(store, call[c].holder, call[c].cred, NoSession, m)
    <3>1. m \in McpSessions \cup {NoSession} /\ call[c].cred.access \in Users
      BY <1>2, CredentialType DEF Session
    <3>2. store' = once \/ store' = Stored(once, call[c].cred.access, call[c].cred, NoSession,
                             m)
      BY <2>1 DEF Cache
    <3> HIDE DEF m
    <3>3. once \in Store
      BY <1>2, <3>1, StoredType DEF TInv, TypeOK
    <3> HIDE DEF once
    <3> QED BY <1>2, <3>1, <3>2, <3>3, StoredType
  <2>2. CASE Truncate(c) \/ Write(c)
    BY <2>2 DEF Truncate, Write, TInv, TypeOK
  <2> QED BY <2>1, <2>2
<1> QED BY <1>3, <1>4, <1>5, <1>6 DEF TInv, TypeOK

\* What a step does to the session store.
StoreStep ==
    \/ \E c \in Calls : Cache(c)
    \/ \E u \in Users, m \in McpSessions \cup {NoSession} : TokenSession(u, m)
    \/ \E u \in Users : RemoveSession(u)
    \/ CleanupOrphanedMappings

LEMMA StoreEffects == [Next]_vars => UNCHANGED store \/ StoreStep
BY DEF Next, vars, StoreStep, GetCredentials, ReadSession, Refresh, FindHolder,
   ReadSessionAgain, ReadFile, StartAuthFlow, Callback, FallbackToSession, FallbackToFile,
   Truncate, Write

\* A property of stores that store_session, remove_session and the cleanup preserve is
\* preserved by every step; stated for the agreement of the maps.
LEMMA AgreePreserved ==
    ASSUME TInv, MapsAgree, [Next]_vars
    PROVE  MapsAgree'
<1> store \in Store /\ Agree(store)
  BY DEF TInv, TypeOK, MapsAgree
<1>1. CASE UNCHANGED store
  BY <1>1 DEF MapsAgree
<1>2. ASSUME NEW c \in Calls, Cache(c) PROVE MapsAgree'
  <2> DEFINE k == call[c]
             m == Session(k.mcp)
             once == Stored(store, k.holder, k.cred, NoSession, m)
  <2>1. k \in Call /\ Ready(k) /\ k.pc = "cache"
    BY <1>2 DEF Cache, TInv, TypeOK, CallsAreReady
  <2>2. k.holder \in Users /\ k.cred \in Credentials /\ k.cred.access \in Users
    BY <2>1, CredentialType DEF Ready, InHand
  <2>3. m \in McpSessions \cup {NoSession}
    BY <2>1 DEF Session, Ready
  <2>4. store' = once \/ store' = Stored(once, k.cred.access, k.cred, NoSession, m)
    BY <1>2 DEF Cache
  <2> HIDE DEF m
  <2>5. once \in Store /\ Agree(once)
    BY <2>2, <2>3, StoredType, StoredAgrees
  <2> HIDE DEF once, k
  <2> QED BY <2>2, <2>3, <2>4, <2>5, StoredAgrees DEF MapsAgree
<1>3. ASSUME NEW u \in Users, NEW m \in McpSessions \cup {NoSession}, TokenSession(u, m)
      PROVE  MapsAgree'
  <2>1. PICK refresh \in {u, NoUser} :
          store' = Stored(store, u, [token |-> issued + 1, access |-> u, refresh |-> refresh],
                          GoogleId(u), m)
    BY <1>3 DEF TokenSession
  <2>2. issued + 1 \in 1..MaxTokens
    BY <1>3, MaxTokensAssumption DEF TokenSession, TInv, TypeOK
  <2>3. [token |-> issued + 1, access |-> u, refresh |-> refresh] \in Credentials
    BY <2>2, CredentialsAssumption
  <2>4. GoogleId(u) \in GoogleIds
    BY DEF GoogleIds
  <2> QED BY <2>1, <2>3, <2>4, StoredAgrees DEF MapsAgree
<1>4. ASSUME NEW u \in Users, RemoveSession(u) PROVE MapsAgree'
  BY <1>4, RemovedAgrees DEF RemoveSession, MapsAgree
<1>5. CASE CleanupOrphanedMappings
  BY <1>5, CleanedAgrees DEF CleanupOrphanedMappings, MapsAgree
<1> QED BY <1>1, <1>2, <1>3, <1>4, <1>5, StoreEffects DEF StoreStep

\* The calls of the OAuth 2.1 mode.
LEMMA TokenCallsType ==
    ASSUME TInv, MapsAgree,
           \/ \E u \in Users, m \in McpSessions \cup {NoSession} : TokenSession(u, m)
           \/ \E u \in Users : RemoveSession(u)
           \/ CleanupOrphanedMappings
    PROVE  TInv'
<1> store \in Store /\ Agree(store) /\ issued \in 0..MaxTokens
  BY DEF TInv, TypeOK, MapsAgree
<1>1. store' \in Store /\ issued' \in 0..MaxTokens
  <2>1. ASSUME NEW u \in Users, NEW m \in McpSessions \cup {NoSession}, TokenSession(u, m)
        PROVE  store' \in Store /\ issued' \in 0..MaxTokens
    <3>1. PICK refresh \in {u, NoUser} :
            store' = Stored(store, u,
                            [token |-> issued + 1, access |-> u, refresh |-> refresh],
                            GoogleId(u), m)
      BY <2>1 DEF TokenSession
    <3>2. issued + 1 \in 1..MaxTokens
      BY <2>1, MaxTokensAssumption DEF TokenSession
    <3>3. [token |-> issued + 1, access |-> u, refresh |-> refresh] \in Credentials
      BY <3>2, CredentialsAssumption
    <3>4. GoogleId(u) \in GoogleIds
      BY DEF GoogleIds
    <3>5. issued' \in 0..MaxTokens
      BY <2>1, <3>2, MaxTokensAssumption DEF TokenSession
    <3> QED BY <3>1, <3>3, <3>4, <3>5, StoredType
  <2>2. ASSUME NEW u \in Users, RemoveSession(u)
        PROVE  store' \in Store /\ issued' \in 0..MaxTokens
    BY <2>2, RemovedAgrees DEF RemoveSession, SameGoogle
  <2>3. CASE CleanupOrphanedMappings
    BY <2>3, CleanedAgrees DEF CleanupOrphanedMappings, SameGoogle
  <2> QED BY <2>1, <2>2, <2>3
<1>2. UNCHANGED <<deployment, call, flows, consented, file, torn, written>>
  BY DEF TokenSession, RemoveSession, CleanupOrphanedMappings, SameGoogle, SameFiles
<1> QED BY <1>1, <1>2 DEF TInv, TypeOK, CallsAreReady, Ready

LEMMA TInvPreserved ==
    ASSUME TInv, MapsAgree, [Next]_vars
    PROVE  TInv'
<1>1. CASE UNCHANGED vars
  BY <1>1 DEF vars, TInv, TypeOK, CallsAreReady, Ready
<1>2. CASE Next
  BY <1>2, GetCredentialsType, ReadType, RefreshType, SignInType, FallbackType, KeepType,
     TokenCallsType DEF Next
<1> QED BY <1>1, <1>2

\* Initially nobody is bound.
LEMMA InitAgrees == Init => MapsAgree
BY DEF Init, MapsAgree, Agree, BoundIsKnown, MappedIsBound, EmptyStore, SessionIds

\* Every reachable state has the types the specification declares.
THEOREM TypeCorrect == Spec => []TypeOK
<1>1. TInv /\ MapsAgree /\ [Next]_vars => (TInv /\ MapsAgree)'
  BY TInvPreserved, AgreePreserved
<1>2. TInv => TypeOK
  BY DEF TInv
<1> QED BY InitTInv, InitAgrees, <1>1, <1>2, PTL DEF Spec

\* A session id is never bound to one account and mapped to another, nor bound to an
\* account that no longer names it (store_session, remove_session and the cleanup).
THEOREM BindingAndMappingAgree == Spec => []MapsAgree
<1>1. TInv /\ MapsAgree /\ [Next]_vars => (TInv /\ MapsAgree)'
  BY TInvPreserved, AgreePreserved
<1> QED BY InitTInv, InitAgrees, <1>1, PTL DEF Spec

-----------------------------------------------------------------------------
(* Whose credentials they are, behind a gateway that vouches for one account per *)
(* MCP session                                                                   *)

Owned(cred, u) == cred # NoCred => cred.access = u /\ cred.refresh \in {u, NoUser}

\* The session store: credentials are the account's own, sessions its own.
StoreOwned(st) ==
    /\ \A u \in Users : Owned(st.sessions[u].cred, u)
    /\ \A m \in McpSessions : st.mapping[m] # NoUser => st.mapping[m] \in deployment.serves[m]

\* A call is made for the account of its session, with credentials of that account.
CallOwned(k) ==
    k.pc # "idle" =>
        /\ k.user \in deployment.serves[k.mcp]
        /\ k.holder = k.user
        /\ Owned(k.cred, k.user)

OwnedParts ==
    /\ StoreOwned(store)
    /\ \A u \in Users : Owned(file[u], u)
    /\ \A c \in Calls : CallOwned(call[c])
    /\ \A f \in flows : f.user \in deployment.serves[f.mcp]

OwnedInv == Separated => OwnedParts

LEMMA StoredOwned ==
    ASSUME NEW st \in Store, NEW u \in Users, NEW cred \in Credentials,
           NEW sid \in GoogleIds \cup {NoSession}, NEW m \in McpSessions \cup {NoSession},
           StoreOwned(st), Owned(cred, u), m # NoSession => u \in deployment.serves[m]
    PROVE  StoreOwned(Stored(st, u, cred, sid, m))
<1> DEFINE rep == Replaced(st, u, cred, sid, m)
           new == Stored(st, u, cred, sid, m)
<1>1. rep \in Store
  BY ReplacedType
<1>2. new.sessions = rep.sessions
  BY <1>1 DEF Stored, Store
<1>3. \A v \in Users : Owned(rep.sessions[v].cred, v)
  BY DEF Replaced, Store, StoreOwned
<1>4. ASSUME NEW x \in McpSessions, new.mapping[x] # NoUser
      PROVE  new.mapping[x] \in deployment.serves[x]
  <2>1. rep.mapping[x] \in {NoUser, st.mapping[x]}
    BY DEF Replaced
  <2>2. new.mapping[x] = rep.mapping[x] \/ (x = m /\ new.mapping[x] = u)
    BY <1>1 DEF Stored, Store
  <2> QED BY <1>4, <2>1, <2>2, NoneAssumption DEF StoreOwned
<1> QED BY <1>2, <1>3, <1>4 DEF StoreOwned

LEMMA CleanedOwned ==
    ASSUME NEW st, StoreOwned(st),
           st = [sessions |-> st.sessions, mapping |-> st.mapping, binding |-> st.binding]
    PROVE  StoreOwned(Cleaned(st))
<1> DEFINE named_mcp == {st.sessions[u].mcp : u \in Users}
           named == named_mcp \cup {st.sessions[u].sid : u \in Users}
           mp == [m \in McpSessions |-> IF m \in named_mcp THEN st.mapping[m] ELSE NoUser]
           bd == [s \in SessionIds |-> IF s \in named THEN st.binding[s] ELSE NoUser]
<1>1. Cleaned(st) = [st EXCEPT !.mapping = mp, !.binding = bd]
  BY Zenon DEF Cleaned
<1>2. \A m \in McpSessions : mp[m] \in {NoUser, st.mapping[m]}
  OBVIOUS
<1> HIDE DEF mp, bd
<1>3. Cleaned(st).sessions = st.sessions /\ Cleaned(st).mapping = mp
  BY <1>1
<1> QED BY <1>2, <1>3 DEF StoreOwned

LEMMA RemovedOwned ==
    ASSUME NEW st \in Store, NEW u \in Users, StoreOwned(st)
    PROVE  StoreOwned(Removed(st, u))
<1> DEFINE old == st.sessions[u]
           mapped == MappedTo(st, old.mcp) # NoUser
           ss == [st.sessions EXCEPT ![u] = NoEntry]
           mp == [m \in McpSessions |-> IF m = old.mcp THEN NoUser ELSE st.mapping[m]]
           bd == [s \in SessionIds |->
                    IF s = old.sid \/ (s = old.mcp /\ mapped) THEN NoUser ELSE st.binding[s]]
           cut == [sessions |-> ss, mapping |-> mp, binding |-> bd]
<1>1. CASE ~HasSession(st, u)
  BY <1>1, CleanedOwned DEF Removed, Store
<1>2. CASE HasSession(st, u)
  <2>1. Removed(st, u) = Cleaned(cut)
    BY <1>2, Zenon DEF Removed
  <2>2. \A v \in Users : ss[v] \in {NoEntry, st.sessions[v]}
    BY DEF Store
  <2>3. \A m \in McpSessions : mp[m] \in {NoUser, st.mapping[m]}
    OBVIOUS
  <2> HIDE DEF ss, mp, bd
  <2>4. StoreOwned(cut)
    BY <2>2, <2>3 DEF StoreOwned, Owned, NoEntry
  <2> QED BY <2>1, <2>4, CleanedOwned
<1> QED BY <1>1, <1>2

\* What a session holds is its account's.
LEMMA SessionOwned ==
    ASSUME TInv, Separated, OwnedParts, NEW c \in Calls, call[c].pc # "idle"
    PROVE  /\ Owned(ByMcpSession(store, call[c].mcp), call[c].user)
           /\ MappedTo(store, call[c].mcp) \in {NoUser, call[c].user}
           /\ Owned(OnFile(call[c].user), call[c].user)
<1>1. /\ call[c].mcp \in McpSessions /\ call[c].user \in Users
      /\ call[c].mcp # NoSession
  BY NoneAssumption DEF TInv, CallsAreReady, Ready
<1>2. MappedTo(store, call[c].mcp) \in {NoUser, call[c].user}
  BY <1>1 DEF OwnedParts, StoreOwned, CallOwned, Separated, MappedTo
<1>3. Owned(ByMcpSession(store, call[c].mcp), call[c].user)
  BY <1>1, <1>2 DEF ByMcpSession, OwnedParts, StoreOwned, Owned
<1>4. Owned(OnFile(call[c].user), call[c].user)
  BY <1>1 DEF OnFile, OwnedParts, Owned
<1> QED BY <1>2, <1>3, <1>4

\* What one slot becomes.
LEMMA CallsOwned ==
    ASSUME TInv, OwnedParts, NEW c \in Calls, NEW rec, Step(c, rec), CallOwned(rec),
           UNCHANGED deployment
    PROVE  \A d \in Calls : CallOwned(call[d])'
<1> SUFFICES ASSUME NEW d \in Calls PROVE CallOwned(call[d])'
  OBVIOUS
<1>1. call'[d] = IF d = c THEN rec ELSE call[d]
  BY DEF Step, TInv, TypeOK
<1> QED BY <1>1 DEF CallOwned, OwnedParts, Owned

LEMMA IdleOwned == CallOwned(Idle)
BY DEF CallOwned, Idle

\* The steps of get_credentials and of a callback that only move the call on.
LEMMA CallStepOwned ==
    ASSUME TInv, Separated, OwnedParts, NEW c \in Calls, UNCHANGED deployment,
           \/ ReadSession(c) \/ Refresh(c) \/ FindHolder(c) \/ ReadSessionAgain(c)
           \/ ReadFile(c) \/ FallbackToSession(c) \/ FallbackToFile(c)
           \/ Truncate(c) \/ Write(c) \/ Cache(c)
    PROVE  \A d \in Calls : CallOwned(call[d])'
<1> DEFINE k == call[c]
           found == ByMcpSession(store, k.mcp)
           read == OnFile(k.user)
<1>1. /\ k \in Call /\ Ready(k) /\ CallOwned(k)
      /\ k.pc # "idle"
  BY DEF TInv, TypeOK, CallsAreReady, OwnedParts, ReadSession, Refresh, FindHolder,
     ReadSessionAgain, ReadFile, FallbackToSession, FallbackToFile, Truncate, Write, Cache
<1>2. /\ Owned(found, k.user) /\ Owned(read, k.user)
      /\ MappedTo(store, k.mcp) \in {NoUser, k.user}
  BY <1>1, SessionOwned
<1>3. ASSUME NEW pc, Goto(c, pc) PROVE \A d \in Calls : CallOwned(call[d])'
  <2>1. CallOwned([k EXCEPT !.pc = pc])
    BY <1>1 DEF CallOwned, Call
  <2> QED BY <1>3, <2>1, CallsOwned DEF Goto
<1>4. ASSUME NEW pc, NEW cred, Owned(cred, k.user), With(c, pc, cred)
      PROVE  \A d \in Calls : CallOwned(call[d])'
  <2> DEFINE rec == [pc |-> pc, user |-> k.user, mcp |-> k.mcp, cred |-> cred,
                     holder |-> k.holder]
  <2>1. CallOwned(rec)
    BY <1>1, <1>4 DEF CallOwned
  <2>2. Step(c, rec)
    BY <1>4 DEF With
  <2> HIDE DEF rec
  <2> QED BY <2>1, <2>2, CallsOwned
<1>5. CASE Return(c)
  BY <1>5, IdleOwned, CallsOwned DEF Return
<1> HIDE DEF k, found, read
<1>6. CASE ReadSession(c)
  <2>1. Return(c) \/ Goto(c, "read_file") \/ Goto(c, "file")
                       \/ With(c, "refresh_session", found)
    BY <1>6 DEF ReadSession, found, k
  <2> QED BY <2>1, <1>2, <1>3, <1>4, <1>5
<1>7. CASE ReadSessionAgain(c)
  <2>1. Return(c) \/ Goto(c, "read_file") \/ With(c, "refresh", found)
    BY <1>7 DEF ReadSessionAgain, found, k
  <2> QED BY <2>1, <1>2, <1>3, <1>4, <1>5
<1>8. CASE ReadFile(c)
  <2>1. Return(c) \/ With(c, "refresh", read)
    BY <1>8 DEF ReadFile, read, k
  <2> QED BY <2>1, <1>2, <1>4, <1>5
<1>9. CASE Refresh(c)
  <2>1. \/ Return(c)
        \/ With(c, IF k.pc = "refresh_session" THEN "find_holder" ELSE Keep, Renewed(k.cred))
    BY <1>9 DEF Refresh, k
  <2>2. k.cred.refresh \in Users /\ k.cred # NoCred
    BY <1>1, <1>9, CredentialType DEF Refresh, Ready, InHand, k
  <2>3. Owned(Renewed(k.cred), k.user)
    BY <1>1, <2>2, NoneAssumption DEF Renewed, CallOwned, Owned
  <2> QED BY <2>1, <2>3, <1>4, <1>5
<1>10. CASE FindHolder(c)
  <2> DEFINE holder == MappedTo(store, k.mcp)
             rec == [pc |-> Keep, user |-> k.user, mcp |-> k.mcp, cred |-> k.cred,
                     holder |-> holder]
  <2>1. Return(c) \/ (holder # NoUser /\ Step(c, rec))
    BY <1>10, Zenon DEF FindHolder, k
  <2>2. holder # NoUser => CallOwned(rec)
    BY <1>1, <1>2 DEF CallOwned
  <2> HIDE DEF holder, rec
  <2> QED BY <2>1, <2>2, <1>5, CallsOwned
<1>11. CASE FallbackToSession(c)
  <2>1. \/ Goto(c, "cache") \/ Goto(c, "callback_file")
        \/ found # NoCred /\ With(c, Keep, Refreshable(k.cred, found.refresh))
    BY <1>11 DEF FallbackToSession, found, k
  <2>2. k.cred # NoCred
    BY <1>1, <1>11, CredentialType DEF FallbackToSession, Ready, InHand, k
  <2>3. found # NoCred => Owned(Refreshable(k.cred, found.refresh), k.user)
    BY <1>1, <1>2, <2>2 DEF Refreshable, CallOwned, Owned
  <2> QED BY <2>1, <2>3, <1>3, <1>4
<1>12. CASE FallbackToFile(c)
  <2> DEFINE again == IF read # NoCred THEN read.refresh ELSE NoUser
  <2>1. With(c, "truncate", Refreshable(k.cred, again))
    BY <1>12 DEF FallbackToFile, read, k
  <2>2. k.cred # NoCred
    BY <1>1, <1>12, CredentialType DEF FallbackToFile, Ready, InHand, k
  <2>3. Owned(Refreshable(k.cred, again), k.user)
    BY <1>1, <1>2, <2>2 DEF Refreshable, CallOwned, Owned
  <2> QED BY <2>1, <2>3, <1>4
<1>13. CASE Truncate(c) \/ Write(c) \/ Cache(c)
  BY <1>13, <1>3, <1>5 DEF Truncate, Write, Cache
<1> QED BY <1>6, <1>7, <1>8, <1>9, <1>10, <1>11, <1>12, <1>13

\* What Cache puts into the store is the account's, put there twice.
LEMMA CacheOwned ==
    ASSUME TInv, Separated, OwnedParts, NEW c \in Calls, Cache(c), UNCHANGED deployment
    PROVE  /\ StoreOwned(store')
           /\ \A u \in Users : store'.sessions[u].cred \in {store.sessions[u].cred}
                 \cup (IF u = call[c].holder THEN {call[c].cred} ELSE {})
<1> DEFINE k == call[c]
           m == Session(k.mcp)
           once == Stored(store, k.holder, k.cred, NoSession, m)
           twice == Stored(once, k.cred.access, k.cred, NoSession, m)
<1>1. k \in Call /\ Ready(k) /\ CallOwned(k) /\ k.pc = "cache" /\ store \in Store
  BY DEF Cache, TInv, TypeOK, CallsAreReady, OwnedParts
<1>2. /\ k.holder \in Users /\ k.cred \in Credentials /\ k.cred.access = k.holder
      /\ Owned(k.cred, k.holder) /\ k.holder \in deployment.serves[k.mcp]
  BY <1>1, CredentialType DEF Ready, InHand, CallOwned, Owned
<1>3. m \in McpSessions \cup {NoSession} /\ (m # NoSession => m = k.mcp)
  BY <1>1 DEF Session, Ready
<1>4. store' = once \/ store' = twice
  BY DEF Cache
<1>5. ASSUME NEW st \in Store, NEW u \in Users
      PROVE  Stored(st, k.holder, k.cred, NoSession, m).sessions[u].cred
               \in {st.sessions[u].cred} \cup (IF u = k.holder THEN {k.cred} ELSE {})
  <2>1. Stored(st, k.holder, k.cred, NoSession, m).sessions
          = Replaced(st, k.holder, k.cred, NoSession, m).sessions
    BY <1>2, <1>3, ReplacedType DEF Stored, Store
  <2> QED BY <2>1 DEF Replaced, Store
<1> HIDE DEF m
<1>6. once \in Store /\ StoreOwned(once)
  BY <1>1, <1>2, <1>3, StoredType, StoredOwned DEF OwnedParts
<1> HIDE DEF once
<1>7. StoreOwned(twice)
  BY <1>2, <1>3, <1>6, StoredOwned
<1>8. \A u \in Users : once.sessions[u].cred
        \in {store.sessions[u].cred} \cup (IF u = k.holder THEN {k.cred} ELSE {})
  BY <1>1, <1>5 DEF once
<1>9. \A u \in Users : twice.sessions[u].cred
        \in {once.sessions[u].cred} \cup (IF u = k.holder THEN {k.cred} ELSE {})
  BY <1>2, <1>5, <1>6
<1> HIDE DEF twice
<1> QED BY <1>4, <1>6, <1>7, <1>8, <1>9 DEF StoreOwned

LEMMA DeploymentIsFixed == [Next]_vars => UNCHANGED deployment
BY DEF Next, vars, GetCredentials, ReadSession, Refresh, FindHolder, ReadSessionAgain,
   ReadFile, StartAuthFlow, Callback, FallbackToSession, FallbackToFile, Truncate, Write,
   Cache, TokenSession, RemoveSession, CleanupOrphanedMappings

CallStep(c) ==
    \/ ReadSession(c) \/ Refresh(c) \/ FindHolder(c) \/ ReadSessionAgain(c)
    \/ ReadFile(c) \/ FallbackToSession(c) \/ FallbackToFile(c)
    \/ Truncate(c) \/ Write(c) \/ Cache(c)

\* The steps of a call under way leave the sign-ins alone, write only what the call has
\* in hand, and keep it only in Cache.
LEMMA CallStepEffects ==
    ASSUME NEW c \in Calls, CallStep(c), TInv
    PROVE  /\ flows' = flows
           /\ \A u \in Users : file'[u] \in {file[u]}
                \cup (IF u = call[c].holder /\ call[c].pc = "write" THEN {call[c].cred} ELSE {})
           /\ Cache(c) \/ UNCHANGED store
<1>1. flows' = flows /\ (Cache(c) \/ UNCHANGED store)
  BY DEF CallStep, ReadSession, Refresh, FindHolder, ReadSessionAgain, ReadFile,
     FallbackToSession, FallbackToFile, Truncate, Write, Cache
<1>2. CASE Write(c)
  BY <1>1, <1>2 DEF Write, TInv, TypeOK
<1>3. CASE ~Write(c)
  <2>1. file' = file
    BY <1>3 DEF CallStep, ReadSession, Refresh, FindHolder, ReadSessionAgain, ReadFile,
       FallbackToSession, FallbackToFile, Truncate, Cache, SameFiles
  <2> QED BY <1>1, <2>1
<1> QED BY <1>2, <1>3

LEMMA OwnedPreserved ==
    ASSUME TInv, MapsAgree, OwnedInv, [Next]_vars
    PROVE  OwnedInv'
<1>1. UNCHANGED deployment
  BY DeploymentIsFixed
<1> SUFFICES ASSUME Separated PROVE OwnedParts'
  BY <1>1 DEF OwnedInv, Separated
<1>2. OwnedParts /\ store \in Store
  BY DEF OwnedInv, TInv, TypeOK
<1>3. CASE UNCHANGED vars
  BY <1>2, <1>3 DEF vars, OwnedParts, StoreOwned, CallOwned, Owned
<1>4. ASSUME NEW c \in Calls, CallStep(c) PROVE OwnedParts'
  <2>1. \A d \in Calls : CallOwned(call[d])'
    BY <1>1, <1>2, <1>4, CallStepOwned DEF CallStep
  <2>2. call[c] \in Call /\ Ready(call[c]) /\ CallOwned(call[c]) /\ call[c].pc # "idle"
    BY <1>2, <1>4 DEF CallStep, TInv, TypeOK, CallsAreReady, OwnedParts, ReadSession,
       Refresh, FindHolder, ReadSessionAgain, ReadFile, FallbackToSession, FallbackToFile,
       Truncate, Write, Cache
  <2>3. StoreOwned(store)'
    <3>1. CASE Cache(c)
      BY <1>1, <1>2, <3>1, CacheOwned DEF StoreOwned
    <3>2. CASE UNCHANGED store
      BY <1>1, <1>2, <3>2 DEF OwnedParts, StoreOwned
    <3> QED BY <1>4, <3>1, <3>2, CallStepEffects
  <2>4. \A u \in Users : Owned(file'[u], u)
    BY <1>2, <1>4, <2>2, CallStepEffects DEF OwnedParts, CallOwned
  <2>5. \A f \in flows' : f.user \in deployment'.serves[f.mcp]
    BY <1>1, <1>2, <1>4, CallStepEffects DEF OwnedParts
  <2> QED BY <2>1, <2>3, <2>4, <2>5 DEF OwnedParts, Owned
<1>5. ASSUME NEW c \in Calls, NEW u \in Users, NEW m \in McpSessions, GetCredentials(c, u, m)
      PROVE  OwnedParts'
  <2> DEFINE rec == [pc |-> IF MappedTo(store, m) \in {u, NoUser} THEN "session"
                            ELSE "read_file",
                     user |-> u, mcp |-> m, cred |-> NoCred, holder |-> u]
  <2>1. Step(c, rec) /\ u \in deployment.serves[m]
    BY <1>5, Zenon DEF GetCredentials
  <2>2. CallOwned(rec)
    BY <2>1 DEF CallOwned, Owned
  <2> HIDE DEF rec
  <2>3. \A d \in Calls : CallOwned(call[d])'
    BY <1>1, <1>2, <2>1, <2>2, CallsOwned
  <2>4. UNCHANGED <<store, file, flows>>
    BY <1>5 DEF GetCredentials, SameFiles
  <2> QED BY <1>1, <1>2, <2>3, <2>4 DEF OwnedParts, StoreOwned, Owned
<1>6. ASSUME NEW u \in Users, NEW m \in McpSessions, StartAuthFlow(u, m) PROVE OwnedParts'
  <2>1. \A f \in flows' : f.user \in deployment.serves[f.mcp]
    BY <1>2, <1>6 DEF StartAuthFlow, OwnedParts
  <2>2. UNCHANGED <<store, file, call>>
    BY <1>6 DEF StartAuthFlow, SameFiles
  <2> QED BY <1>1, <1>2, <2>1, <2>2 DEF OwnedParts, StoreOwned, CallOwned, Owned
<1>7. ASSUME NEW c \in Calls, NEW flow \in flows, NEW u \in Users, Callback(c, flow, u)
      PROVE  OwnedParts'
  <2>1. UNCHANGED <<store, file>> /\ flows' \subseteq flows
    BY <1>7 DEF Callback, SameFiles
  <2>2. \A d \in Calls : CallOwned(call[d])'
    <3>1. CASE UNCHANGED call
      BY <1>1, <1>2, <3>1 DEF OwnedParts, CallOwned, Owned
    <3>2. CASE call' # call
      <4>1. PICK full \in BOOLEAN :
              LET cred == [token |-> issued + 1, access |-> u,
                           refresh |-> IF full THEN u ELSE NoUser]
              IN /\ Accepted(flow, u)
                 /\ Step(c, [user |-> u, mcp |-> flow.mcp, cred |-> cred, holder |-> u,
                             pc |-> IF full THEN Keep ELSE "callback_fallback"])
        BY <1>7, <3>2, Zenon DEF Callback
      <4> DEFINE cred == [token |-> issued + 1, access |-> u,
                          refresh |-> IF full THEN u ELSE NoUser]
                 rec == [user |-> u, mcp |-> flow.mcp, cred |-> cred, holder |-> u,
                         pc |-> IF full THEN Keep ELSE "callback_fallback"]
      <4>2. u \in deployment.serves[flow.mcp]
        BY <1>2, <1>7, <4>1 DEF Accepted, Separated, OwnedParts
      <4>3. Owned(cred, u)
        BY DEF Owned
      <4> HIDE DEF cred
      <4>4. CallOwned(rec)
        BY <4>2, <4>3 DEF CallOwned
      <4>5. Step(c, rec)
        BY <4>1 DEF cred
      <4> HIDE DEF rec
      <4> QED BY <1>1, <1>2, <4>4, <4>5, CallsOwned
    <3> QED BY <3>1, <3>2
  <2> QED BY <1>1, <1>2, <2>1, <2>2 DEF OwnedParts, StoreOwned, Owned
<1>8. CASE StoreStep /\ ~\E c \in Calls : Cache(c)
  <2>1. UNCHANGED <<call, file, flows>>
    BY <1>8 DEF StoreStep, TokenSession, RemoveSession, CleanupOrphanedMappings, SameFiles
  <2>2. StoreOwned(store')
    <3>1. ASSUME NEW u \in Users, NEW m \in McpSessions \cup {NoSession}, TokenSession(u, m)
          PROVE  StoreOwned(store')
      <4>1. PICK refresh \in {u, NoUser} :
              store' = Stored(store, u,
                              [token |-> issued + 1, access |-> u, refresh |-> refresh],
                              GoogleId(u), m)
        BY <3>1 DEF TokenSession
      <4> DEFINE cred == [token |-> issued + 1, access |-> u, refresh |-> refresh]
      <4>2. issued + 1 \in 1..MaxTokens
        BY <3>1, MaxTokensAssumption DEF TokenSession, TInv, TypeOK
      <4>3. cred \in Credentials /\ Owned(cred, u)
        BY <4>2, CredentialsAssumption DEF Owned
      <4>4. GoogleId(u) \in GoogleIds /\ (m # NoSession => u \in deployment.serves[m])
        BY <3>1 DEF GoogleIds, TokenSession
      <4> HIDE DEF cred
      <4>5. store' = Stored(store, u, cred, GoogleId(u), m)
        BY <4>1 DEF cred
      <4> QED BY <1>2, <4>3, <4>4, <4>5, StoredOwned DEF OwnedParts
    <3>2. ASSUME NEW u \in Users, RemoveSession(u) PROVE StoreOwned(store')
      BY <1>2, <3>2, RemovedOwned DEF RemoveSession, OwnedParts
    <3>3. CASE CleanupOrphanedMappings
      BY <1>2, <3>3, CleanedOwned DEF CleanupOrphanedMappings, OwnedParts, Store
    <3> QED BY <1>8, <3>1, <3>2, <3>3 DEF StoreStep
  <2> QED BY <1>1, <1>2, <2>1, <2>2 DEF OwnedParts, StoreOwned, CallOwned, Owned
<1> QED BY <1>3, <1>4, <1>5, <1>6, <1>7, <1>8 DEF Next, CallStep, StoreStep

\* Behind a gateway that vouches for one account per session, no file and no session
\* ever holds a token of another account, however sign-ins, refreshes and calls overlap.
THEOREM CredentialsStayWithTheirAccount == Spec => []OwnCredentials
<1> DEFINE Inv == TInv /\ MapsAgree /\ OwnedInv
<1>1. Init => Inv
  <2>1. Init => OwnedInv
    BY IdleOwned DEF Init, OwnedInv, OwnedParts, StoreOwned, EmptyStore, NoEntry, Owned,
       CallOwned
  <2> QED BY <2>1, InitTInv, InitAgrees
<1>2. Inv /\ [Next]_vars => Inv'
  BY TInvPreserved, AgreePreserved, OwnedPreserved
<1>3. Inv => OwnCredentials
  BY DEF OwnedInv, OwnedParts, StoreOwned, Owned, OwnCredentials
<1> QED BY <1>1, <1>2, <1>3, PTL DEF Spec

-----------------------------------------------------------------------------
(* The file comes first *)

\* A call that is about to keep credentials in the session store has written them.
PersistedParts ==
    /\ \A u \in Users : store.sessions[u].cred \in written[u] \cup {NoCred}
    /\ \A c \in Calls : call[c].pc = "cache" => call[c].cred \in written[call[c].holder]

PersistedInv == Mode("files") /\ Separated => PersistedParts

LEMMA WrittenGrows ==
    ASSUME TInv, [Next]_vars
    PROVE  \A u \in Users : written[u] \subseteq written'[u]
<1>1. ASSUME NEW c \in Calls, Write(c) PROVE \A u \in Users : written[u] \subseteq written'[u]
  BY <1>1 DEF Write, TInv, TypeOK
<1>2. CASE ~\E c \in Calls : Write(c)
  BY <1>2 DEF Next, vars, GetCredentials, ReadSession, Refresh, FindHolder,
     ReadSessionAgain, ReadFile, StartAuthFlow, Callback, FallbackToSession,
     FallbackToFile, Truncate, Cache, TokenSession, RemoveSession,
     CleanupOrphanedMappings, SameFiles
<1> QED BY <1>1, <1>2

\* With credential files, a call gets to Cache through Write only.
LEMMA ReachesCache ==
    ASSUME TInv, Mode("files"), [Next]_vars, NEW d \in Calls, call'[d].pc = "cache"
    PROVE  \/ call'[d] = call[d]
           \/ /\ Write(d) /\ call'[d].cred = call[d].cred /\ call'[d].holder = call[d].holder
              /\ call[d].holder \in Users
              /\ call[d].cred \in written'[call[d].holder]
<1>1. CASE UNCHANGED call
  BY <1>1
<1>2. ASSUME NEW c \in Calls, CallStep(c)
      PROVE  \/ call'[d] = call[d]
             \/ /\ Write(d) /\ call'[d].cred = call[d].cred
                /\ call'[d].holder = call[d].holder
                /\ call[d].holder \in Users
                /\ call[d].cred \in written'[call[d].holder]
  <2>1. \A e \in Calls : call[e] \in Call
    BY DEF TInv, TypeOK
  <2>2. CASE c # d
    BY <1>2, <2>1, <2>2 DEF CallStep, ReadSession, Refresh, FindHolder, ReadSessionAgain,
       ReadFile, FallbackToSession, FallbackToFile, Truncate, Write, Cache, Return, Goto,
       With, Step, TInv, TypeOK
  <2>3. CASE c = d /\ Write(c)
    <3>1. call[c].holder \in Users /\ call[c].pc = "write"
      BY <2>3 DEF Write, TInv, CallsAreReady, Ready
    <3>2. CASE Return(c)
      BY <2>3, <3>2 DEF Return, Step, Idle, TInv, TypeOK
    <3>3. CASE /\ written' = [written EXCEPT ![call[c].holder] = @ \cup {call[c].cred}]
               /\ Goto(c, "cache")
      <4>1. call'[c] = [call[c] EXCEPT !.pc = "cache"]
        BY <3>3 DEF Goto, Step, TInv, TypeOK
      <4>2. call'[c].cred = call[c].cred /\ call'[c].holder = call[c].holder
        BY <4>1, <2>1 DEF Call
      <4>3. call[c].cred \in written'[call[c].holder]
        BY <3>1, <3>3 DEF TInv, TypeOK
      <4> QED BY <2>3, <3>1, <4>2, <4>3
    <3> QED BY <2>3, <3>2, <3>3 DEF Write
  <2>4. CASE c = d /\ ~Write(c)
    <3>1. Keep = "truncate"
      BY DEF Keep
    <3>2. call'[c].pc # "cache"
      BY <1>2, <2>1, <2>4, <3>1 DEF CallStep, ReadSession, Refresh, FindHolder,
         ReadSessionAgain, ReadFile, FallbackToSession, FallbackToFile, Truncate, Cache,
         Return, Goto, With, Step, Idle, TInv, TypeOK, Call
    <3> QED BY <2>4, <3>2
  <2> QED BY <2>2, <2>3, <2>4
<1>3. ASSUME NEW c \in Calls, NEW u \in Users, NEW m \in McpSessions, GetCredentials(c, u, m)
      PROVE  call'[d] = call[d]
  BY <1>3 DEF GetCredentials, Step, TInv, TypeOK
<1>4. ASSUME NEW c \in Calls, NEW flow \in flows, NEW u \in Users, Callback(c, flow, u)
      PROVE  call'[d] = call[d]
  <2>1. CASE UNCHANGED call
    BY <2>1
  <2>2. CASE call' # call
    <3>1. PICK rec : Step(c, rec) /\ rec.pc \in {Keep, "callback_fallback"}
      BY <1>4, <2>2 DEF Callback
    <3>2. rec.pc # "cache"
      BY <3>1 DEF Keep
    <3> QED BY <3>1, <3>2 DEF Step, TInv, TypeOK
  <2> QED BY <2>1, <2>2
<1>5. CASE \/ \E u \in Users, m \in McpSessions : StartAuthFlow(u, m)
           \/ \E u \in Users, m \in McpSessions \cup {NoSession} : TokenSession(u, m)
           \/ \E u \in Users : RemoveSession(u)
           \/ CleanupOrphanedMappings
  BY <1>5 DEF StartAuthFlow, TokenSession, RemoveSession, CleanupOrphanedMappings
<1> QED BY <1>1, <1>2, <1>3, <1>4, <1>5 DEF Next, CallStep, vars

LEMMA PersistedPreserved ==
    ASSUME TInv, MapsAgree, OwnedInv, PersistedInv, [Next]_vars
    PROVE  PersistedInv'
<1>1. UNCHANGED deployment
  BY DeploymentIsFixed
<1> SUFFICES ASSUME Mode("files"), Separated PROVE PersistedParts'
  BY <1>1 DEF PersistedInv, Separated
<1>2. PersistedParts /\ OwnedParts
  BY DEF PersistedInv, OwnedInv
<1>3. ASSUME NEW d \in Calls, call'[d].pc = "cache"
      PROVE  call'[d].cred \in written'[call'[d].holder]
  <2>1. CASE call'[d] = call[d]
    <3>1. call[d].holder \in Users
      BY <1>3, <2>1 DEF TInv, CallsAreReady, Ready
    <3> QED BY <1>2, <1>3, <2>1, <3>1, WrittenGrows DEF PersistedParts
  <2> QED BY <1>3, <2>1, ReachesCache
<1>4. ASSUME NEW u \in Users
      PROVE  store'.sessions[u].cred \in written'[u] \cup {NoCred}
  <2>1. CASE UNCHANGED store
    BY <1>2, <2>1, WrittenGrows DEF PersistedParts
  <2>2. ASSUME NEW c \in Calls, Cache(c)
        PROVE  store'.sessions[u].cred \in written'[u] \cup {NoCred}
    <3>1. store'.sessions[u].cred \in {store.sessions[u].cred}
            \cup (IF u = call[c].holder THEN {call[c].cred} ELSE {})
      BY <1>1, <1>2, <2>2, CacheOwned
    <3>2. call[c].cred \in written[call[c].holder]
      BY <1>2, <2>2 DEF PersistedParts, Cache
    <3> QED BY <1>2, <3>1, <3>2, WrittenGrows DEF PersistedParts
  <2>3. ~ \E v \in Users, m \in McpSessions \cup {NoSession} : TokenSession(v, m)
    BY DEF TokenSession
  <2>4. ~CleanupOrphanedMappings /\ ~ \E v \in Users : RemoveSession(v)
    BY DEF RemoveSession, CleanupOrphanedMappings
  <2> QED BY <2>1, <2>2, <2>3, <2>4, StoreEffects DEF StoreStep
<1> QED BY <1>3, <1>4 DEF PersistedParts

\* What the session store of such a deployment hands out was written to the account's
\* file before.
THEOREM FileComesFirst == Spec => []SessionIsPersisted
<1> DEFINE Inv == TInv /\ MapsAgree /\ OwnedInv /\ PersistedInv
<1>1. Init => Inv
  <2>1. Init => OwnedInv
    BY IdleOwned DEF Init, OwnedInv, OwnedParts, StoreOwned, EmptyStore, NoEntry, Owned,
       CallOwned
  <2>2. Init => PersistedInv
    BY DEF Init, PersistedInv, PersistedParts, EmptyStore, NoEntry, Idle
  <2> QED BY <2>1, <2>2, InitTInv, InitAgrees
<1>2. Inv /\ [Next]_vars => Inv'
  BY TInvPreserved, AgreePreserved, OwnedPreserved, PersistedPreserved
<1>3. Inv => SessionIsPersisted
  BY DEF PersistedInv, PersistedParts, SessionIsPersisted
<1> QED BY <1>1, <1>2, <1>3, PTL DEF Spec

-----------------------------------------------------------------------------
(* Whose account a call acts for                                           *)

\* What is kept of a call, and where it has got to.
CallStages == {"idle", "identify", "resolve", "authenticate", "run"}
CallRecords ==
    [pc : CallStages, session : CallingMcpIds \cup {NoAccount}, bearer : Calling!MaybeAccount,
     asked : Calling!MaybeAccount, principal : Calling!MaybeAccount,
     told : Calling!MaybeAccount, needs : 1..2, services : Seq(Calling!MaybeAccount),
     readonly : BOOLEAN, attempt : Nat, ran : Nat]

\* Who is identified, told and served, in each mode.
CallTrue(m, r) ==
    /\ r.pc # "idle" => r.session \in CallingMcpIds
    /\ r.attempt <= CallingAttempts /\ r.ran <= r.attempt
    /\ ~r.readonly \/ r.pc = "identify" => r.attempt <= 1
    /\ r.pc = "identify" => r.attempt = 0
    /\ r.pc \in {"identify", "resolve"} => r.services = <<>>
    /\ r.pc = "authenticate" => Len(r.services) < r.needs
    /\ Len(r.services) <= r.needs
    /\ r.pc = "run" => Len(r.services) = r.needs
    /\ m = "oauth21" => r.principal = NoAccount
    /\ m = "gateway" /\ r.pc \in {"resolve", "authenticate", "run"} =>
         r.principal = r.bearer /\ r.bearer # NoAccount
    /\ m = "gateway" /\ r.pc \in {"authenticate", "run"} => r.told = r.bearer
    /\ m = "oauth20" /\ r.pc \in {"authenticate", "run"} => r.told = r.asked
    /\ m = "oauth21" /\ r.pc \in {"authenticate", "run"} /\ Len(r.services) > 0 =>
         r.told = r.bearer
    /\ r.pc \in {"authenticate", "run"} =>
         \A i \in DOMAIN r.services : r.services[i] = r.told

CallsInv ==
    /\ callingMode \in Calling!Modes /\ callingDefault \in Calling!MaybeAccount
    /\ callingContext \in [CallingMcpIds -> Calling!MaybeAccount]
    /\ callingCall \in [CallingCalls -> CallRecords]
    /\ \A c \in CallingCalls : CallTrue(callingMode, callingCall[c])

\* So it is from the start, whatever a step does, and this is what is promised.
LEMMA CallsBegin ==
  ASSUME CallingAttempts \in Nat \ {0}, Calling!Init
  PROVE  CallsInv
<1>1. Calling!Idle \in CallRecords
  BY DEF Calling!Idle, CallRecords, CallStages, Calling!MaybeAccount
<1>2. CallTrue(callingMode, Calling!Idle)
  BY DEF Calling!Idle, CallTrue
<1>3. callingCall = [c \in CallingCalls |-> Calling!Idle] /\ callingMode \in Calling!Modes
       /\ callingDefault \in Calling!MaybeAccount
      /\ callingContext = [s \in CallingMcpIds |-> NoAccount]
  BY DEF Calling!Init
<1> QED
  BY <1>1, <1>2, <1>3 DEF CallsInv, Calling!MaybeAccount

\* An update of one call.
LEMMA CallUpdated ==
  ASSUME CallsInv, NEW c \in CallingCalls, NEW r \in CallRecords, CallTrue(callingMode, r),
         Calling!Update(c, r), callingMode' = callingMode, callingDefault' = callingDefault,
         callingContext' \in [CallingMcpIds -> Calling!MaybeAccount]
  PROVE  CallsInv'
<1>1. callingCall' \in [CallingCalls -> CallRecords] /\ callingCall'[c] = r
      /\ \A d \in CallingCalls \ {c} : callingCall'[d] = callingCall[d]
  BY DEF Calling!Update, CallsInv
<1>2. \A d \in CallingCalls : CallTrue(callingMode', callingCall'[d])
  BY <1>1 DEF CallsInv
<1> QED
  BY <1>1, <1>2 DEF CallsInv

LEMMA CallsStep ==
  ASSUME CallingAttempts \in Nat \ {0}, CallsInv, Calling!Next
  PROVE  CallsInv'
<1> USE DEF Calling!Managed
<1>1. PICK c \in CallingCalls :
        \/ \E s \in CallingMcpIds, bearer, asked \in Calling!MaybeAccount, n \in 1..2,
             r \in BOOLEAN :
             Calling!Arrive(c, s, bearer, asked, n, r)
        \/ Calling!Identify(c) \/ Calling!Resolve(c) \/ Calling!Authenticate(c)
             \/ Calling!Run(c) \/ Calling!Answer(c) \/ Calling!SslError(c)
  BY DEF Calling!Next
<1> DEFINE k == callingCall[c]
<1>2. k \in CallRecords /\ CallTrue(callingMode, k) /\ callingMode \in Calling!Modes
  BY DEF CallsInv
<1>3. Calling!Idle \in CallRecords /\ CallTrue(callingMode, Calling!Idle)
  BY DEF Calling!Idle, CallRecords, CallStages, Calling!MaybeAccount, CallTrue
<1>4. ASSUME Calling!Return(c), callingMode' = callingMode, callingDefault' = callingDefault,
       callingContext' = callingContext
      PROVE  CallsInv'
  BY <1>3, <1>4, CallUpdated DEF Calling!Return, CallsInv
<1>5. ASSUME NEW s \in CallingMcpIds, NEW bearer \in Calling!MaybeAccount,
       NEW asked \in Calling!MaybeAccount,
             NEW n \in 1..2, NEW ro \in BOOLEAN, Calling!Arrive(c, s, bearer, asked, n, ro)
      PROVE  CallsInv'
  <2> DEFINE r == [Calling!Idle EXCEPT !.pc = "identify", !.session = s, !.bearer = bearer,
                               !.asked = Calling!Argument(asked), !.needs = n,
                               !.readonly = ro]
  <2>1. Calling!Argument(asked) \in Calling!MaybeAccount
    BY DEF Calling!Argument, Calling!MaybeAccount, CallsInv
  <2>2. r \in CallRecords
    BY <1>3, <2>1 DEF Calling!Idle, CallRecords, CallStages, Calling!MaybeAccount
  <2>3. CallTrue(callingMode, r)
    BY <2>1 DEF Calling!Idle, CallTrue
  <2>4. Calling!Update(c, r) /\ UNCHANGED <<callingMode, callingDefault, callingContext>>
    BY <1>5 DEF Calling!Arrive
  <2> HIDE DEF r
  <2> QED
    BY <2>2, <2>3, <2>4, CallUpdated DEF CallsInv
<1>6. ASSUME Calling!Identify(c) PROVE CallsInv'
  <2>1. CASE callingMode = "gateway" /\ k.bearer = NoAccount
    BY <1>4, <1>6, <2>1 DEF Calling!Identify
  <2>2. CASE ~(callingMode = "gateway" /\ k.bearer = NoAccount)
    <3> DEFINE r == [k EXCEPT !.pc = "resolve", !.attempt = 1,
                              !.principal = IF Calling!KeepsForSession(c) THEN NoAccount
                                            ELSE k.bearer]
    <3>1. k.pc = "identify" /\ Calling!Update(c, r) /\ UNCHANGED <<callingMode, callingDefault>>
          /\ callingContext' = IF Calling!KeepsForSession(c)
                        THEN [callingContext EXCEPT ![k.session] = k.bearer] ELSE callingContext
      BY <1>6, <2>2 DEF Calling!Identify
    <3>2. r \in CallRecords
      BY <1>2 DEF CallRecords, CallStages, Calling!MaybeAccount
    <3>3. CallTrue(callingMode, r)
      BY <1>2, <2>2, <3>1 DEF CallTrue, CallRecords, Calling!KeepsForSession
    <3>4. callingContext' \in [CallingMcpIds -> Calling!MaybeAccount]
      BY <1>2, <3>1 DEF CallsInv, CallRecords
    <3> HIDE DEF r
    <3> QED
      BY <3>1, <3>2, <3>3, <3>4, CallUpdated
  <2> QED
    BY <2>1, <2>2
<1>7. ASSUME Calling!Resolve(c) PROVE CallsInv'
  <2> DEFINE told == IF Calling!Managed THEN Calling!Authenticated(c) ELSE k.asked
             r == [k EXCEPT !.pc = "authenticate", !.told = told]
  <2>1. k.pc = "resolve" /\ UNCHANGED <<callingMode, callingDefault, callingContext>>
        /\ (Calling!Return(c) \/ (told # NoAccount /\ Calling!Update(c, r)))
    BY <1>7 DEF Calling!Resolve
  <2>2. told \in Calling!MaybeAccount
    BY <1>2, <2>1 DEF Calling!Authenticated, CallsInv, CallRecords, CallTrue
  <2>3. r \in CallRecords
    BY <1>2, <2>2 DEF CallRecords, CallStages
  <2>4. CallTrue(callingMode, r)
    BY <1>2, <2>1 DEF CallTrue, CallRecords, Calling!Authenticated, Calling!Modes
  <2> HIDE DEF r
  <2> QED
    BY <1>4, <2>1, <2>3, <2>4, CallUpdated DEF CallsInv
<1>8. ASSUME Calling!Authenticate(c) PROVE CallsInv'
  <2> DEFINE services == Append(k.services, Calling!CredentialsOf(c))
             r == [k EXCEPT !.services = services,
                            !.pc = IF Len(services) = k.needs THEN "run" ELSE "authenticate"]
  <2>1. k.pc = "authenticate" /\ UNCHANGED <<callingMode, callingDefault, callingContext>>
        /\ (Calling!Return(c)
             \/ ((callingMode = "oauth21" => Calling!TokenMatches(c)) /\ Calling!Update(c, r)))
    BY <1>8 DEF Calling!Authenticate
  <2>2. Calling!CredentialsOf(c) \in Calling!MaybeAccount
         /\ k.services \in Seq(Calling!MaybeAccount)
    BY <1>2 DEF Calling!CredentialsOf, CallRecords
  <2>3. services \in Seq(Calling!MaybeAccount) /\ Len(services) = Len(k.services) + 1
        /\ Len(k.services) \in Nat
        /\ \A i \in DOMAIN services : services[i] =
             IF i \in DOMAIN k.services THEN k.services[i] ELSE Calling!CredentialsOf(c)
    BY <2>2
  <2> HIDE DEF services
  <2>4. r \in CallRecords
    BY <1>2, <2>3 DEF CallRecords, CallStages
  <2>5. ASSUME callingMode = "oauth21" => Calling!TokenMatches(c)
        PROVE  CallTrue(callingMode, r)
    <3>1. Calling!CredentialsOf(c) = k.told /\ (callingMode = "oauth21" => k.told = k.bearer)
      BY <2>5 DEF Calling!CredentialsOf, Calling!TokenMatches
    <3>2. k.needs \in Nat /\ Len(services) <= k.needs
      BY <1>2, <2>1, <2>3 DEF CallRecords, CallTrue
    <3>3. \A i \in DOMAIN services : services[i] = k.told
      BY <1>2, <2>1, <2>3, <3>1 DEF CallTrue
    <3> QED
      BY <1>2, <2>1, <2>3, <3>1, <3>2, <3>3 DEF CallRecords, CallTrue
  <2> HIDE DEF r
  <2> QED
    BY <1>4, <2>1, <2>4, <2>5, CallUpdated DEF CallsInv
<1>9. ASSUME Calling!Run(c) PROVE CallsInv'
  <2> DEFINE r == [k EXCEPT !.ran = @ + 1]
  <2>1. k.pc = "run" /\ k.ran < k.attempt /\ Calling!Update(c, r)
        /\ UNCHANGED <<callingMode, callingDefault, callingContext>>
    BY <1>9 DEF Calling!Run
  <2>2. r \in CallRecords /\ CallTrue(callingMode, r)
    BY <1>2, <2>1 DEF CallRecords, CallTrue
  <2> HIDE DEF r
  <2> QED
    BY <2>1, <2>2, CallUpdated DEF CallsInv
<1>10. ASSUME Calling!Answer(c) PROVE CallsInv'
  BY <1>4, <1>10 DEF Calling!Answer
<1>11. ASSUME Calling!SslError(c) PROVE CallsInv'
  <2> DEFINE r == [k EXCEPT !.pc = "resolve", !.attempt = @ + 1, !.services = <<>>,
                            !.told = NoAccount]
  <2>1. k.pc = "run" /\ UNCHANGED <<callingMode, callingDefault, callingContext>>
        /\ (Calling!Return(c) \/ (Calling!Retried(c) /\ Calling!Update(c, r)))
    BY <1>11 DEF Calling!SslError
  <2>2. ASSUME Calling!Retried(c)
        PROVE  r \in CallRecords /\ CallTrue(callingMode, r)
    <3>1. <<>> \in Seq(Calling!MaybeAccount) /\ Len(<<>>) = 0
           /\ NoAccount \in Calling!MaybeAccount
      BY DEF Calling!MaybeAccount
    <3>2. r \in CallRecords
      <4> DEFINE n == k.attempt + 1
      <4>1. n \in Nat /\ k \in CallRecords
        BY <1>2 DEF CallRecords
      <4>2. r = [k EXCEPT !.pc = "resolve", !.attempt = n, !.services = <<>>,
                          !.told = NoAccount]
        BY <4>1 DEF CallRecords
      <4> HIDE DEF n, k, r
      <4> QED
        BY <3>1, <4>1, <4>2 DEF CallRecords, CallStages
    <3>3. r.readonly /\ r.attempt = k.attempt + 1 /\ r.attempt <= CallingAttempts
          /\ r.ran = k.ran /\ r.services = <<>> /\ r.pc = "resolve" /\ r.session = k.session
          /\ r.principal = k.principal /\ r.bearer = k.bearer /\ r.needs = k.needs
      BY <1>2, <2>2 DEF Calling!Retried, CallRecords
    <3> HIDE DEF r
    <3>4. CallTrue(callingMode, r)
      BY <1>2, <2>1, <3>1, <3>2, <3>3 DEF CallRecords, CallTrue
    <3> QED
      BY <3>2, <3>4
  <2> HIDE DEF r
  <2> QED
    BY <1>4, <2>1, <2>2, CallUpdated DEF CallsInv
<1> HIDE DEF k
<1> QED
  BY <1>1, <1>5, <1>6, <1>7, <1>8, <1>9, <1>10, <1>11

LEMMA CallsKept ==
  ASSUME CallsInv, UNCHANGED Calling!vars
  PROVE  CallsInv'
  BY DEF CallsInv, Calling!vars

LEMMA CallsHold ==
  ASSUME CallsInv
  PROVE  Calling!ActsForItsCaller /\ Calling!WritesAreDoneOnce
<1>1. \A c \in CallingCalls : callingCall[c] \in CallRecords
       /\ CallTrue(callingMode, callingCall[c])
  BY DEF CallsInv
<1>2. ASSUME NEW c \in CallingCalls, callingCall[c].pc = "run"
      PROVE  callingCall[c].told = Calling!Caller(c)
  <2>1. Len(callingCall[c].services) > 0
    BY <1>1, <1>2 DEF CallTrue, CallRecords
  <2> QED
    BY <1>1, <1>2, <2>1 DEF CallTrue, Calling!Caller, Calling!Managed, CallsInv, Calling!Modes
<1>3. ASSUME NEW c \in CallingCalls, callingCall[c].pc = "run",
       NEW i \in DOMAIN callingCall[c].services
      PROVE  callingCall[c].services[i] = Calling!Caller(c)
  BY <1>1, <1>2, <1>3 DEF CallTrue
<1>4. ASSUME NEW c \in CallingCalls, ~callingCall[c].readonly
      PROVE  callingCall[c].ran <= 1
  BY <1>1, <1>4 DEF CallTrue, CallRecords
<1> QED
  BY <1>2, <1>3, <1>4 DEF Calling!ActsForItsCaller, Calling!WritesAreDoneOnce

-----------------------------------------------------------------------------
(* Whose endpoint a sign-in is told of                                     *)

\* A process that waits for its listener, or believes in one, saw its port free or ours:
\* only an intruder can have come since.
Believes(k) ==
    \/ k.pc = "wait"
    \/ (k.running = TRUE \/ k.thread # "none") /\ k.thread # "dead"
PortTrue(k, who, open) ==
    /\ k.up = FALSE => k = Ports!Off
    /\ k.up = TRUE => k.port \in Ports!Ports
    /\ k.up = TRUE /\ Believes(k) /\ ~open => who # Foreign

PortsInv ==
    /\ portsOwner \in [Ports!Ports -> PortsProcesses \cup {Foreign, Nobody}]
    /\ portsProcess \in [PortsProcesses -> Ports!Process]
    /\ portsIntruded \subseteq PortsProcesses
    /\ \A p \in PortsProcesses : PortTrue(portsProcess[p], Ports!Owner(p), p \in portsIntruded)

\* So it is from the start, whatever a step does, and this is what is promised.
LEMMA PortsBegin ==
  ASSUME PortsConstants, Ports!Init
  PROVE  PortsInv
<1>1. Ports!Off \in Ports!Process /\ Ports!Off.up = FALSE
  BY DEF Ports!Off, Ports!Process
<1>2. \A p \in PortsProcesses : PortTrue(Ports!Off, Ports!Owner(p), p \in portsIntruded)
  BY <1>1 DEF PortTrue
<1> QED
  BY <1>1, <1>2 DEF PortsInv, Ports!Init

\* A step of one process that leaves the ports alone.
LEMMA PortsUpdated ==
  ASSUME PortsInv, NEW p \in PortsProcesses, NEW k \in Ports!Process, Ports!Update(p, k),
         UNCHANGED portsOwner,
         portsIntruded' \subseteq PortsProcesses,
         \A q \in PortsProcesses \ {p} : q \in portsIntruded' <=> q \in portsIntruded,
         PortTrue(k, portsOwner[k.port], p \in portsIntruded')
  PROVE  PortsInv'
<1>1. portsProcess' \in [PortsProcesses -> Ports!Process] /\ portsProcess'[p] = k
      /\ \A q \in PortsProcesses \ {p} : portsProcess'[q] = portsProcess[q]
  BY DEF PortsInv, Ports!Update
<1>2. ASSUME NEW q \in PortsProcesses
      PROVE  PortTrue(portsProcess'[q], portsOwner'[portsProcess'[q].port],
             q \in portsIntruded')
  BY <1>1 DEF PortsInv, Ports!Owner
<1> QED
  BY <1>1, <1>2 DEF PortsInv, Ports!Owner

LEMMA PortsStep ==
  ASSUME PortsConstants, PortsInv, Ports!Next
  PROVE  PortsInv' /\ Ports!OursAnswers
<1>1. Ports!Off \in Ports!Process /\ Ports!Off.up = FALSE /\ Ports!Off.pc = "idle"
  BY DEF Ports!Off, Ports!Process
<1>2. ASSUME NEW p \in PortsProcesses,
             Ports!Boot(p) \/ Ports!Ensure(p) \/ Ports!Probe(p) \/ Ports!Bind(p)
                                \/ Ports!Connect(p) \/ Ports!Exit(p)
      PROVE  PortsInv' /\ Ports!OursAnswers
  <2> DEFINE k == portsProcess[p]
             o == portsOwner[k.port]
  <2>1. /\ k \in Ports!Process /\ PortTrue(k, o, p \in portsIntruded)
    BY DEF PortsInv, Ports!Owner
  <2>2. k.pc # "idle" => k.up = TRUE
    BY <1>1, <2>1 DEF Ports!Process, PortTrue
  <2>3. k.up = TRUE => k.port \in Ports!Ports /\ o \in PortsProcesses \cup {Foreign, Nobody}
    BY <2>1 DEF PortsInv, PortTrue
  <2>4. ASSUME NEW n \in Ports!Process, Ports!Update(p, n)
        PROVE  portsProcess'[p] = n /\ \A q \in PortsProcesses \ {p} :
                                         portsProcess'[q] = portsProcess[q]
    BY <2>4 DEF Ports!Update, PortsInv
  <2>5. ASSUME Ports!Boot(p) PROVE PortsInv' /\ Ports!OursAnswers
    <3>1. PICK n \in Ports!Ports : Ports!Update(p, [Ports!Off EXCEPT !.up = TRUE, !.port = n])
      BY <2>5 DEF Ports!Boot
    <3> DEFINE m == [Ports!Off EXCEPT !.up = TRUE, !.port = n]
    <3>2. m \in Ports!Process
      BY DEF Ports!Off, Ports!Process
    <3>3. PortTrue(m, portsOwner[m.port], p \in portsIntruded') /\ m.pc = "idle"
      BY DEF PortTrue, Ports!Off, Believes
    <3> HIDE DEF m
    <3>4. UNCHANGED <<portsOwner, portsIntruded>>
      BY <2>5 DEF Ports!Boot
    <3>5. Ports!Update(p, m)
      BY <3>1 DEF m
    <3>6. PortsInv'
      BY <3>2, <3>3, <3>4, <3>5, PortsUpdated DEF PortsInv
    <3> QED
      BY <2>4, <3>2, <3>3, <3>5, <3>6 DEF Ports!OursAnswers
  <2>6. ASSUME Ports!Ensure(p) PROVE PortsInv' /\ Ports!OursAnswers
    <3>0. k.up = TRUE /\ UNCHANGED portsOwner
      BY <2>1, <2>6 DEF Ports!Ensure, Ports!Process
    <3>1. CASE Ports!ActuallyRunning(p)
      <4> DEFINE m == [k EXCEPT !.pc = "available"]
      <4>1. Ports!Update(p, m) /\ UNCHANGED portsIntruded
        BY <2>6, <3>1 DEF Ports!Ensure
      <4>2. m \in Ports!Process /\ m.port = k.port
        BY <2>1 DEF Ports!Process
      <4>3. Believes(k) /\ o # Nobody
        BY <2>1, <3>1 DEF Ports!ActuallyRunning, Believes, Ports!Owner, Ports!Process
      <4>4. PortTrue(m, portsOwner[m.port], p \in portsIntruded')
        BY <2>1, <3>0, <4>1, <4>3 DEF PortTrue, Believes, Ports!Process
      <4>5. p \notin portsIntruded => o \in PortsProcesses
        BY <2>1, <2>3, <3>0, <4>3 DEF PortTrue
      <4> HIDE DEF m
      <4>6. PortsInv'
        BY <3>0, <4>1, <4>2, <4>4, PortsUpdated DEF PortsInv
      <4>7. portsProcess'[p] = m
        BY <2>4, <4>1, <4>2
      <4> QED
        BY <2>4, <3>0, <4>1, <4>2, <4>5, <4>6, <4>7 DEF Ports!OursAnswers
    <3>2. CASE ~Ports!ActuallyRunning(p)
      <4> DEFINE m == [k EXCEPT !.pc = "probe", !.running = FALSE, !.reusing = FALSE,
                                !.thread = IF k.running THEN "none" ELSE k.thread]
      <4>1. Ports!Update(p, m) /\ portsIntruded' = portsIntruded \ {p}
        BY <2>6, <3>2 DEF Ports!Ensure
      <4>2. m \in Ports!Process /\ m.port = k.port /\ m.pc = "probe" /\ m.up = TRUE
            /\ m.running = FALSE /\ m.thread = (IF k.running THEN "none" ELSE k.thread)
        BY <2>1, <3>0 DEF Ports!Process
      <4> HIDE DEF m
      <4>3. Believes(m) => o = Nobody
        BY <2>1, <3>2, <4>2 DEF Ports!ActuallyRunning, Believes, Ports!Owner, Ports!Process
      <4>4. PortTrue(m, portsOwner[m.port], p \in portsIntruded')
        BY <2>3, <3>0, <4>2, <4>3 DEF PortTrue, PortsConstants
      <4>6. PortsInv'
        BY <3>0, <4>1, <4>2, <4>4, PortsUpdated DEF PortsInv
      <4> QED
        BY <2>4, <4>1, <4>2, <4>6 DEF Ports!OursAnswers
    <3> QED
      BY <3>1, <3>2
  <2>7. ASSUME Ports!Probe(p) PROVE PortsInv' /\ Ports!OursAnswers
    <3>0. k.pc = "probe" /\ k.up = TRUE /\ UNCHANGED <<portsOwner, portsTurns, portsIntruded>>
      BY <2>2, <2>7 DEF Ports!Probe
    <3>1. CASE o = Nobody
      <4> DEFINE m == [k EXCEPT !.reusing = FALSE, !.thread = "started", !.pc = "wait"]
      <4>1. Ports!Update(p, m)
        BY <2>7, <3>1 DEF Ports!Probe, Ports!Owner
      <4>2. m \in Ports!Process /\ m.port = k.port /\ m.pc = "wait" /\ m.up = TRUE
        BY <2>1, <3>0 DEF Ports!Process
      <4> HIDE DEF m
      <4>3. PortTrue(m, portsOwner[m.port], p \in portsIntruded')
        BY <2>3, <3>0, <3>1, <4>2 DEF PortTrue, PortsConstants
      <4>4. PortsInv'
        BY <3>0, <4>1, <4>2, <4>3, PortsUpdated DEF PortsInv
      <4> QED
        BY <2>4, <4>1, <4>2, <4>4 DEF Ports!OursAnswers
    <3>2. CASE o # Nobody /\ o \in PortsProcesses
      <4> DEFINE m == [k EXCEPT !.running = TRUE, !.reusing = TRUE, !.pc = "available"]
      <4>1. Ports!Update(p, m)
        BY <2>7, <3>2 DEF Ports!Probe, Ports!Owner, Ports!LooksLikeWorkspace
      <4>2. m \in Ports!Process /\ m.port = k.port /\ m.up = TRUE
        BY <2>1, <3>0 DEF Ports!Process
      <4> HIDE DEF m
      <4>3. PortTrue(m, portsOwner[m.port], p \in portsIntruded')
        BY <2>3, <3>0, <3>2, <4>2 DEF PortTrue, PortsConstants
      <4>4. PortsInv'
        BY <3>0, <4>1, <4>2, <4>3, PortsUpdated DEF PortsInv
      <4>5. portsProcess'[p] = m
        BY <2>4, <4>1, <4>2
      <4> QED
        BY <2>4, <3>0, <3>2, <4>1, <4>2, <4>4, <4>5 DEF Ports!OursAnswers
    <3>3. CASE o # Nobody /\ o \notin PortsProcesses
      <4> DEFINE m == [k EXCEPT !.pc = "failed"]
      <4>1. Ports!Update(p, m)
        BY <2>7, <3>3 DEF Ports!Probe, Ports!Owner, Ports!LooksLikeWorkspace
      <4>2. m \in Ports!Process /\ m.port = k.port /\ m.up = TRUE /\ m.pc = "failed"
            /\ m.running = k.running /\ m.thread = k.thread
        BY <2>1, <3>0 DEF Ports!Process
      <4> HIDE DEF m
      <4>3. PortTrue(m, portsOwner[m.port], p \in portsIntruded')
        BY <2>1, <2>3, <3>0, <4>2 DEF PortTrue, Believes
      <4>4. PortsInv'
        BY <3>0, <4>1, <4>2, <4>3, PortsUpdated DEF PortsInv
      <4> QED
        BY <2>4, <4>1, <4>2, <4>4 DEF Ports!OursAnswers
    <3> QED
      BY <3>1, <3>2, <3>3
  <2>8. ASSUME Ports!Bind(p) PROVE PortsInv' /\ Ports!OursAnswers
    <3>0. k.thread = "started" /\ k.up = TRUE /\ UNCHANGED <<portsTurns, portsIntruded>>
      BY <2>1, <2>8 DEF Ports!Bind, Ports!Process
    <3>1. CASE o = Nobody
      <4> DEFINE m == [k EXCEPT !.thread = "serving"]
      <4>1. Ports!Update(p, m) /\ portsOwner' = [portsOwner EXCEPT ![k.port] = p]
        BY <2>8, <3>1 DEF Ports!Bind, Ports!Owner
      <4>2. m \in Ports!Process /\ m.port = k.port /\ m.up = TRUE /\ m.pc = k.pc
        BY <2>1, <3>0 DEF Ports!Process
      <4> HIDE DEF m
      <4>3. portsProcess' \in [PortsProcesses -> Ports!Process]
        BY <4>1, <4>2 DEF Ports!Update, PortsInv
      <4>4. portsOwner' \in [Ports!Ports -> PortsProcesses \cup {Foreign, Nobody}]
            /\ \A n \in Ports!Ports : portsOwner'[n] = Foreign => portsOwner[n] = Foreign
        BY <2>3, <3>0, <4>1 DEF PortsInv, PortsConstants
      <4>5. portsOwner'[k.port] = p
        BY <2>3, <3>0, <4>1 DEF PortsInv
      <4>6. ASSUME NEW q \in PortsProcesses
            PROVE  PortTrue(portsProcess'[q], portsOwner'[portsProcess'[q].port],
                   q \in portsIntruded')
        <5>1. CASE q = p
          <6>1. portsProcess'[q] = m
            BY <2>4, <4>1, <4>2, <5>1
          <6> QED
            BY <2>3, <3>0, <4>2, <4>5, <5>1, <6>1 DEF PortTrue, PortsConstants
        <5>2. CASE q # p
          <6>1. portsProcess'[q] = portsProcess[q]
            BY <2>4, <4>1, <4>2, <5>2
          <6>2. PortTrue(portsProcess[q], portsOwner[portsProcess[q].port], q \in portsIntruded)
            BY DEF PortsInv, Ports!Owner
          <6> QED
            BY <3>0, <4>4, <6>1, <6>2 DEF PortTrue
        <5> QED
          BY <5>1, <5>2
      <4>7. PortsInv'
        BY <3>0, <4>3, <4>4, <4>6 DEF PortsInv, Ports!Owner
      <4> QED
        BY <2>4, <4>1, <4>2, <4>7 DEF Ports!OursAnswers
    <3>2. CASE o # Nobody
      <4> DEFINE m == [k EXCEPT !.thread = "dead"]
      <4>1. Ports!Update(p, m) /\ UNCHANGED portsOwner
        BY <2>8, <3>2 DEF Ports!Bind, Ports!Owner
      <4>2. m \in Ports!Process /\ m.port = k.port /\ m.up = TRUE /\ m.pc = k.pc
                                /\ m.thread = "dead"
        BY <2>1, <3>0 DEF Ports!Process
      <4> HIDE DEF m
      <4>3. PortTrue(m, portsOwner[m.port], p \in portsIntruded')
        BY <2>1, <2>3, <3>0, <4>2 DEF PortTrue, Believes
      <4>4. PortsInv'
        BY <3>0, <4>1, <4>2, <4>3, PortsUpdated DEF PortsInv
      <4> QED
        BY <2>4, <4>1, <4>2, <4>4 DEF Ports!OursAnswers
    <3> QED
      BY <3>1, <3>2
  <2>9. ASSUME Ports!Connect(p) PROVE PortsInv' /\ Ports!OursAnswers
    <3>0. k.pc = "wait" /\ k.up = TRUE /\ UNCHANGED <<portsOwner, portsTurns, portsIntruded>>
      BY <2>2, <2>9 DEF Ports!Connect
    <3>1. p \notin portsIntruded => o # Foreign
      <4>1. Believes(k)
        BY <3>0 DEF Believes
      <4> HIDE DEF k, o
      <4> QED
        BY <2>1, <3>0, <4>1 DEF PortTrue
    <3>2. CASE o # Nobody /\ Ports!Update(p, [k EXCEPT !.running = TRUE, !.pc = "available"])
      <4> DEFINE m == [k EXCEPT !.running = TRUE, !.pc = "available"]
      <4>1. Ports!Update(p, m)
        BY <3>2
      <4>2. m \in Ports!Process /\ m.port = k.port /\ m.up = TRUE
        BY <2>1, <3>0 DEF Ports!Process
      <4> HIDE DEF m
      <4>3. PortTrue(m, portsOwner[m.port], p \in portsIntruded')
        BY <2>3, <3>0, <3>1, <4>2 DEF PortTrue
      <4>4. PortsInv'
        BY <3>0, <4>1, <4>2, <4>3, PortsUpdated DEF PortsInv
      <4>5. portsProcess'[p] = m
        BY <2>4, <4>1, <4>2
      <4>6. p \notin portsIntruded => o \in PortsProcesses
        BY <2>3, <3>0, <3>1, <3>2
      <4> QED
        BY <2>4, <3>0, <4>1, <4>2, <4>4, <4>5, <4>6 DEF Ports!OursAnswers
    <3>3. CASE Ports!Update(p, [k EXCEPT !.pc = "failed"])
      <4> DEFINE m == [k EXCEPT !.pc = "failed"]
      <4>1. Ports!Update(p, m)
        BY <3>3
      <4>2. m \in Ports!Process /\ m.port = k.port /\ m.up = TRUE /\ m.pc = "failed"
        BY <2>1, <3>0 DEF Ports!Process
      <4> HIDE DEF m
      <4>3. PortTrue(m, portsOwner[m.port], p \in portsIntruded')
        BY <2>3, <3>0, <3>1, <4>2 DEF PortTrue
      <4>4. PortsInv'
        BY <3>0, <4>1, <4>2, <4>3, PortsUpdated DEF PortsInv
      <4> QED
        BY <2>4, <4>1, <4>2, <4>4 DEF Ports!OursAnswers
    <3> QED
      BY <2>9, <3>2, <3>3 DEF Ports!Connect, Ports!Owner
  <2>10. ASSUME Ports!Exit(p) PROVE PortsInv' /\ Ports!OursAnswers
    <3>1. /\ portsOwner'
               = [n \in Ports!Ports |-> IF portsOwner[n] = p THEN Nobody ELSE portsOwner[n]]
          /\ Ports!Update(p, Ports!Off) /\ portsIntruded' = portsIntruded \ {p}
      BY <2>10 DEF Ports!Exit
    <3>2. portsOwner' \in [Ports!Ports -> PortsProcesses \cup {Foreign, Nobody}]
          /\ \A n \in Ports!Ports : portsOwner'[n] = Foreign => portsOwner[n] = Foreign
      BY <3>1 DEF PortsInv, PortsConstants
    <3>3. portsProcess' \in [PortsProcesses -> Ports!Process]
      BY <1>1, <3>1 DEF Ports!Update, PortsInv
    <3>4. ASSUME NEW q \in PortsProcesses
          PROVE  PortTrue(portsProcess'[q], portsOwner'[portsProcess'[q].port],
                 q \in portsIntruded')
      <4>1. CASE q = p
        BY <1>1, <2>4, <3>1, <4>1 DEF PortTrue
      <4>2. CASE q # p
        <5>1. portsProcess'[q] = portsProcess[q]
          BY <1>1, <2>4, <3>1, <4>2
        <5>2. PortTrue(portsProcess[q], portsOwner[portsProcess[q].port], q \in portsIntruded)
          BY DEF PortsInv, Ports!Owner
        <5> QED
          BY <3>1, <3>2, <4>2, <5>1, <5>2 DEF PortTrue
      <4> QED
        BY <4>1, <4>2
    <3>5. PortsInv'
      BY <3>1, <3>2, <3>3, <3>4 DEF PortsInv, Ports!Owner
    <3> QED
      BY <1>1, <2>4, <3>1, <3>5 DEF Ports!OursAnswers
  <2> QED
    BY <1>2, <2>5, <2>6, <2>7, <2>8, <2>9, <2>10
<1>3. ASSUME NEW n \in Ports!Ports, Ports!Takes(n) PROVE PortsInv' /\ Ports!OursAnswers
  <2>1. /\ portsOwner' = [portsOwner EXCEPT ![n] = Foreign] /\ UNCHANGED portsProcess
        /\ portsIntruded' = portsIntruded \cup {p \in PortsProcesses : portsProcess[p].port = n}
    BY <1>3 DEF Ports!Takes
  <2>2. \A q \in PortsProcesses :
         PortTrue(portsProcess'[q], portsOwner'[portsProcess'[q].port], q \in portsIntruded')
    BY <2>1 DEF PortsInv, PortTrue, Ports!Owner
  <2>3. PortsInv'
    BY <2>1, <2>2 DEF PortsInv, Ports!Owner
  <2> QED
    BY <2>1, <2>3 DEF Ports!OursAnswers
<1>4. ASSUME NEW n \in Ports!Ports, Ports!Leaves(n) PROVE PortsInv' /\ Ports!OursAnswers
  <2>1. portsOwner' = [portsOwner EXCEPT ![n] = Nobody]
         /\ UNCHANGED <<portsProcess, portsTurns, portsIntruded>>
    BY <1>4 DEF Ports!Leaves
  <2>2. \A q \in PortsProcesses :
         PortTrue(portsProcess'[q], portsOwner'[portsProcess'[q].port], q \in portsIntruded')
    BY <2>1 DEF PortsInv, PortTrue, Ports!Owner, PortsConstants
  <2>3. PortsInv'
    BY <2>1, <2>2 DEF PortsInv, Ports!Owner
  <2> QED
    BY <2>1, <2>3 DEF Ports!OursAnswers
<1> QED
  BY <1>2, <1>3, <1>4 DEF Ports!Next

LEMMA PortsKept ==
  ASSUME PortsInv, UNCHANGED Ports!vars
  PROVE  PortsInv' /\ Ports!OursAnswers
BY DEF PortsInv, Ports!Owner, Ports!OursAnswers, Ports!vars

-----------------------------------------------------------------------------
(* The files kept for download                                             *)

OnDisk == {"unused", "absent", "partial", "whole"}
Stamps == Files!Times \cup {Files!Never}
Answers == [id : FilesIds \cup {NoId},
            pc : {"none", "listed", "found", "served", "refused", "broken"}]

\* A file: at the time n, of what is on disk, its entry, until when it was handed out, and
\* whether anybody else had a hand in it.
FileTrue(n, d, e, u, other) ==
    /\ e # Files!Never => e = u
    /\ u # Files!Never => d # "unused"
    /\ ~other /\ u # Files!Never /\ n <= u => d = "whole" /\ e # Files!Never

\* A request asks for what was handed out, and finds it broken for a reason.
AnswerTrue(q) ==
    /\ q.pc # "none" => q.id \in FilesIds /\ Files!HandedOut(q.id)
    /\ q.pc = "broken" => q.id \in filesDisturbed \/ filesNow > filesUntil[q.id]

FilesInv ==
    /\ filesNow \in Files!Times /\ filesDisk \in [FilesIds -> OnDisk]
    /\ filesEntry \in [FilesIds -> Stamps]
    /\ filesUntil \in [FilesIds -> Stamps] /\ filesDisturbed \subseteq FilesIds
    /\ filesSaving \in [FilesSaves -> FilesIds \cup {NoId}]
    /\ filesRequest \in [FilesRequests -> Answers]
    /\ \A i \in FilesIds :
         FileTrue(filesNow, filesDisk[i], filesEntry[i], filesUntil[i], i \in filesDisturbed)
    /\ \A s \in FilesSaves : filesSaving[s] # NoId =>
         filesDisk[filesSaving[s]] = "partial" /\ filesUntil[filesSaving[s]] = Files!Never
                /\ filesEntry[filesSaving[s]] = Files!Never
    /\ \A s, t \in FilesSaves : filesSaving[s] = filesSaving[t] /\ filesSaving[s] # NoId
         => s = t
    /\ \A r \in FilesRequests : AnswerTrue(filesRequest[r])

\* So it is from the start, whatever a step does, and this is what is promised.
LEMMA FilesBegin ==
  ASSUME FilesConstants, Files!Init
  PROVE  FilesInv
<1>1. Files!NoRequest \in Answers /\ Files!NoRequest.pc = "none"
  BY DEF Files!NoRequest, Answers
<1>2. \A r \in FilesRequests : AnswerTrue(filesRequest[r])
  BY <1>1 DEF AnswerTrue, Files!Init
<1>3. 0 \in Files!Times /\ Files!Never \in Stamps
  BY DEF Files!Times, Stamps, FilesConstants
<1>4. \A i \in FilesIds :
       FileTrue(filesNow, filesDisk[i], filesEntry[i], filesUntil[i], i \in filesDisturbed)
  BY DEF FileTrue, Files!Init
<1> QED
  BY <1>1, <1>2, <1>3, <1>4 DEF FilesInv, Files!Init, OnDisk

LEMMA FilesStep ==
  ASSUME FilesConstants, FilesInv, Files!Next
  PROVE  FilesInv'
<1>1. /\ filesNow \in Nat /\ Files!Never \in Nat /\ Files!Never \notin Files!Times
      /\ FilesLifetime \in Nat
      /\ Files!Times \subseteq Nat /\ Stamps \subseteq Nat /\ Files!Never \in Stamps
  BY DEF FilesConstants, FilesInv, Files!Times, Stamps, Files!Never
<1>2. Files!NoRequest \in Answers /\ Files!NoRequest.pc = "none"
  BY DEF Files!NoRequest, Answers
<1>3. ASSUME NEW s \in FilesSaves, NEW i \in FilesIds, Files!Open(s, i) PROVE FilesInv'
  <2>1. /\ filesSaving[s] = NoId /\ filesDisk[i] = "unused"
        /\ filesSaving' = [filesSaving EXCEPT ![s] = i]
        /\ filesDisk' = [filesDisk EXCEPT ![i] = "partial"]
        /\ UNCHANGED <<filesNow, filesEntry, filesRequest, filesUntil, filesDisturbed>>
    BY <1>3 DEF Files!Open
  <2>2. filesUntil[i] = Files!Never /\ filesEntry[i] = Files!Never
    BY <1>1, <2>1 DEF FilesInv, FileTrue, OnDisk
  <2>3. \A k \in FilesIds :
         FileTrue(filesNow', filesDisk'[k], filesEntry'[k], filesUntil'[k],
                k \in filesDisturbed')
    BY <2>1, <2>2 DEF FilesInv, FileTrue
  <2>4. \A t \in FilesSaves : filesSaving[t] # i
    BY <2>1 DEF FilesInv, FilesConstants
  <2>5. /\ filesDisk' \in [FilesIds -> OnDisk]
        /\ filesSaving' \in [FilesSaves -> FilesIds \cup {NoId}]
    BY <2>1 DEF FilesInv, OnDisk
  <2>6. \A t \in FilesSaves : filesSaving'[t] # NoId =>
         filesDisk'[filesSaving'[t]] = "partial" /\ filesUntil[filesSaving'[t]] = Files!Never
                /\ filesEntry[filesSaving'[t]] = Files!Never
    BY <2>1, <2>2, <2>4 DEF FilesInv
  <2>7. \A t, v \in FilesSaves : filesSaving'[t] = filesSaving'[v] /\ filesSaving'[t] # NoId
         => t = v
    BY <2>1, <2>4 DEF FilesInv
  <2>8. \A r \in FilesRequests : AnswerTrue(filesRequest[r])'
    BY <2>1 DEF FilesInv, AnswerTrue, Files!HandedOut
  <2> QED
    BY <2>1, <2>3, <2>5, <2>6, <2>7, <2>8 DEF FilesInv
<1>4. ASSUME NEW s \in FilesSaves, Files!Write(s) PROVE FilesInv'
  <2> DEFINE i == filesSaving[s]
  <2>1. /\ i \in FilesIds /\ filesSaving' = [filesSaving EXCEPT ![s] = NoId]
        /\ UNCHANGED <<filesNow, filesRequest, filesDisturbed>>
        /\ filesDisk[i] = "partial" /\ filesUntil[i] = Files!Never
        /\ filesEntry[i] = Files!Never
    BY <1>4 DEF Files!Write, FilesInv
  <2>2. CASE /\ filesNow <= FilesLifetime
             /\ filesDisk' = [filesDisk EXCEPT ![i] = "whole"]
             /\ filesEntry' = [filesEntry EXCEPT ![i] = filesNow + FilesLifetime]
             /\ filesUntil' = [filesUntil EXCEPT ![i] = filesNow + FilesLifetime]
    <3>1. filesNow + FilesLifetime \in Files!Times /\ filesNow + FilesLifetime # Files!Never
      BY <1>1, <2>2 DEF Files!Times, Files!Never
    <3> DEFINE n == filesNow + FilesLifetime
    <3>2. FileTrue(filesNow, "whole", n, n, i \in filesDisturbed)
      BY <3>1 DEF FileTrue
    <3> HIDE DEF n
    <3>3. \A k \in FilesIds :
           FileTrue(filesNow', filesDisk'[k], filesEntry'[k], filesUntil'[k],
                  k \in filesDisturbed')
      BY <2>1, <2>2, <3>2 DEF FilesInv, n
    <3>4. filesDisk' \in [FilesIds -> OnDisk] /\ filesEntry' \in [FilesIds -> Stamps]
           /\ filesUntil' \in [FilesIds -> Stamps]
          /\ filesSaving' \in [FilesSaves -> FilesIds \cup {NoId}]
      BY <2>1, <2>2, <3>1 DEF FilesInv, OnDisk, Stamps
    <3>5. \A t \in FilesSaves \ {s} : filesSaving'[t] = filesSaving[t] /\ filesSaving[t] # i
      BY <2>1 DEF FilesInv, FilesConstants
    <3>6. filesSaving'[s] = NoId
      BY <2>1 DEF FilesInv
    <3>7. \A t \in FilesSaves : filesSaving'[t] # NoId =>
           filesDisk'[filesSaving'[t]] = "partial" /\ filesUntil'[filesSaving'[t]] = Files!Never
           /\ filesEntry'[filesSaving'[t]] = Files!Never
      BY <2>2, <3>5, <3>6 DEF FilesInv
    <3>8. \A t, v \in FilesSaves : filesSaving'[t] = filesSaving'[v] /\ filesSaving'[t] # NoId
           => t = v
      BY <3>5, <3>6 DEF FilesInv
    <3>9. \A r \in FilesRequests : AnswerTrue(filesRequest[r])'
      BY <2>1, <2>2, <3>1 DEF FilesInv, AnswerTrue, Files!HandedOut
    <3> QED
      BY <2>1, <3>3, <3>4, <3>7, <3>8, <3>9 DEF FilesInv
  <2>3. CASE UNCHANGED <<filesDisk, filesEntry, filesUntil>>
    <3>1. \A t \in FilesSaves \ {s} : filesSaving'[t] = filesSaving[t]
      BY <2>1 DEF FilesInv
    <3>2. filesSaving'[s] = NoId /\ filesSaving' \in [FilesSaves -> FilesIds \cup {NoId}]
      BY <2>1 DEF FilesInv
    <3>3. \A r \in FilesRequests : AnswerTrue(filesRequest[r])'
      BY <2>1, <2>3 DEF FilesInv, AnswerTrue, Files!HandedOut
    <3> QED
      BY <2>1, <2>3, <3>1, <3>2, <3>3 DEF FilesInv
  <2> QED
    BY <1>4, <2>2, <2>3 DEF Files!Write
\* What an expired file's removal leaves, whatever becomes of the requests.
<1>5. ASSUME NEW i \in FilesIds, filesRequest' \in [FilesRequests -> Answers],
       UNCHANGED <<filesNow, filesSaving, filesUntil>>,
             \A k \in FilesIds \ {i} : filesDisk'[k] = filesDisk[k]
                    /\ filesEntry'[k] = filesEntry[k]
                                  /\ (k \in filesDisturbed' <=> k \in filesDisturbed),
             filesDisk' \in [FilesIds -> OnDisk], filesEntry' \in [FilesIds -> Stamps],
             filesDisturbed' \subseteq FilesIds, filesDisturbed \subseteq filesDisturbed',
             filesUntil[i] # Files!Never,
             FileTrue(filesNow, filesDisk'[i], filesEntry'[i], filesUntil[i],
                    i \in filesDisturbed'),
             \A r \in FilesRequests : \/ filesRequest'[r] = filesRequest[r]
                                      \/ filesRequest'[r].id \in FilesIds
                                           /\ Files!HandedOut(filesRequest'[r].id)
                                         /\ filesRequest'[r].pc # "broken"
      PROVE  FilesInv'
  <2>1. \A k \in FilesIds :
         FileTrue(filesNow', filesDisk'[k], filesEntry'[k], filesUntil'[k],
                k \in filesDisturbed')
    BY <1>5 DEF FilesInv
  <2>2. \A s \in FilesSaves : filesSaving[s] # i
    BY <1>5 DEF FilesInv, FilesConstants
  <2>3. \A s \in FilesSaves : filesSaving'[s] # NoId =>
         filesDisk'[filesSaving'[s]] = "partial" /\ filesUntil'[filesSaving'[s]] = Files!Never
         /\ filesEntry'[filesSaving'[s]] = Files!Never
    BY <1>5, <2>2 DEF FilesInv
  <2>4. \A r \in FilesRequests : AnswerTrue(filesRequest[r])'
    BY <1>5 DEF FilesInv, AnswerTrue, Files!HandedOut
  <2> QED
    BY <1>5, <2>1, <2>3, <2>4 DEF FilesInv
<1>6. ASSUME NEW i \in FilesIds, Files!Expired(i), Files!Cleanup(i)
      PROVE  /\ \A k \in FilesIds \ {i} : filesDisk'[k] = filesDisk[k]
                  /\ filesEntry'[k] = filesEntry[k]
                                  /\ (k \in filesDisturbed' <=> k \in filesDisturbed)
             /\ filesDisk' \in [FilesIds -> OnDisk] /\ filesEntry' \in [FilesIds -> Stamps]
             /\ filesDisturbed' \subseteq FilesIds /\ filesDisturbed \subseteq filesDisturbed'
             /\ filesUntil[i] # Files!Never
             /\ FileTrue(filesNow, filesDisk'[i], filesEntry'[i], filesUntil[i],
                  i \in filesDisturbed')
  <2>1. filesUntil[i] # Files!Never /\ filesUntil[i] < filesNow /\ filesUntil[i] \in Nat
    BY <1>1, <1>6 DEF Files!Expired, Files!Listed, FilesInv, FileTrue
  <2>2. filesEntry' = [filesEntry EXCEPT ![i] = Files!Never]
         /\ filesEntry' \in [FilesIds -> Stamps] /\ filesEntry'[i] = Files!Never
    BY <1>1, <1>6 DEF Files!Cleanup, FilesInv
  <2>3. CASE filesDisk' = [filesDisk EXCEPT ![i] = "absent"] /\ UNCHANGED filesDisturbed
    BY <1>1, <2>1, <2>2, <2>3 DEF FilesInv, FileTrue, OnDisk
  <2>4. CASE UNCHANGED filesDisk /\ filesDisturbed' = filesDisturbed \cup {i}
    BY <1>1, <2>1, <2>2, <2>4 DEF FilesInv, FileTrue, OnDisk
  <2> QED
    BY <1>6, <2>3, <2>4 DEF Files!Cleanup
<1>7. ASSUME NEW r \in FilesRequests, NEW i \in FilesIds, Files!Ask(r, i) PROVE FilesInv'
  <2> DEFINE q == [id |-> i, pc |-> IF Files!Listed(i)
         /\ ~Files!Expired(i) THEN "listed" ELSE "refused"]
  <2>1. /\ Files!HandedOut(i) /\ filesRequest' = [filesRequest EXCEPT ![r] = q]
        /\ UNCHANGED <<filesNow, filesSaving, filesUntil>>
    BY <1>7 DEF Files!Ask
  <2>2. q \in Answers /\ q.id = i /\ q.pc # "broken"
    BY DEF Answers
  <2> HIDE DEF q
  <2>3. /\ filesRequest' \in [FilesRequests -> Answers]
        /\ \A x \in FilesRequests : \/ filesRequest'[x] = filesRequest[x]
                                    \/ filesRequest'[x].id \in FilesIds
                                         /\ Files!HandedOut(filesRequest'[x].id)
                                       /\ filesRequest'[x].pc # "broken"
    BY <2>1, <2>2 DEF FilesInv
  <2>4. CASE Files!Expired(i)
    <3>1. Files!Cleanup(i)
      BY <1>7, <2>4 DEF Files!Ask
    <3> QED
      BY <1>5, <1>6, <2>1, <2>3, <2>4, <3>1
  <2>5. CASE ~Files!Expired(i)
    <3>1. UNCHANGED <<filesEntry, filesDisk, filesDisturbed>>
      BY <1>7, <2>5 DEF Files!Ask
    <3> QED
      BY <1>5, <2>1, <2>3, <3>1 DEF FilesInv, Files!HandedOut
  <2> QED
    BY <2>4, <2>5
<1>8. ASSUME NEW r \in FilesRequests, Files!Find(r) PROVE FilesInv'
  <2> DEFINE i == filesRequest[r].id
  <2>1. /\ i \in FilesIds /\ Files!HandedOut(i)
        /\ UNCHANGED <<filesNow, filesSaving, filesUntil>>
    BY <1>8 DEF Files!Find, FilesInv, AnswerTrue
  <2>2. ASSUME NEW pc \in {"refused", "found"}, Files!To(r, pc)
        PROVE  /\ filesRequest' \in [FilesRequests -> Answers]
               /\ \A x \in FilesRequests : \/ filesRequest'[x] = filesRequest[x]
                                           \/ filesRequest'[x].id \in FilesIds
                                                  /\ Files!HandedOut(filesRequest'[x].id)
                                              /\ filesRequest'[x].pc # "broken"
    <3> DEFINE q == [filesRequest[r] EXCEPT !.pc = pc]
    <3>1. q \in Answers /\ q.id = i /\ q.pc # "broken"
      BY DEF FilesInv, Answers
    <3>2. filesRequest' = [filesRequest EXCEPT ![r] = q]
      BY <2>2 DEF Files!To, FilesInv
    <3> HIDE DEF q
    <3> QED
      BY <2>1, <3>1, <3>2 DEF FilesInv
  <2>3. CASE Files!To(r, "refused") /\ UNCHANGED <<filesEntry, filesDisk, filesDisturbed>>
    BY <1>5, <2>1, <2>2, <2>3 DEF FilesInv, Files!HandedOut
  <2>4. CASE Files!To(r, "refused") /\ Files!Expired(i) /\ Files!Cleanup(i)
    BY <1>5, <1>6, <2>1, <2>2, <2>4
  <2>5. CASE /\ Files!To(r, "refused") /\ UNCHANGED <<filesDisk, filesDisturbed>>
             /\ filesDisk[i] = "absent"
             /\ filesEntry' = [filesEntry EXCEPT ![i] = Files!Never]
    <3>1. FileTrue(filesNow, filesDisk'[i], filesEntry'[i], filesUntil[i],
           i \in filesDisturbed')
      BY <2>1, <2>5 DEF FilesInv, FileTrue
    <3>2. filesEntry' \in [FilesIds -> Stamps]
           /\ \A k \in FilesIds \ {i} : filesEntry'[k] = filesEntry[k]
      BY <1>1, <2>5 DEF FilesInv
    <3> QED
      BY <1>5, <2>1, <2>2, <2>5, <3>1, <3>2 DEF FilesInv, Files!HandedOut
  <2>6. CASE Files!To(r, "found") /\ UNCHANGED <<filesEntry, filesDisk, filesDisturbed>>
    BY <1>5, <2>1, <2>2, <2>6 DEF FilesInv, Files!HandedOut
  <2> QED
    BY <1>8, <2>3, <2>4, <2>5, <2>6 DEF Files!Find
<1>9. ASSUME NEW r \in FilesRequests, Files!Send(r) PROVE FilesInv'
  <2> DEFINE i == filesRequest[r].id
             pc == IF filesDisk[i] = "whole" THEN "served" ELSE "broken"
             q == [filesRequest[r] EXCEPT !.pc = pc]
  <2>1. /\ i \in FilesIds /\ Files!HandedOut(i)
        /\ UNCHANGED <<filesNow, filesDisk, filesEntry, filesSaving, filesUntil,
             filesDisturbed>>
        /\ filesRequest' = [filesRequest EXCEPT ![r] = q]
    BY <1>9 DEF Files!Send, Files!To, FilesInv, AnswerTrue
  <2>2. q \in Answers /\ q.id = i /\ (q.pc = "broken" => filesDisk[i] # "whole")
    BY DEF FilesInv, Answers
  <2> HIDE DEF q
  <2>3. filesDisk[i] # "whole" => i \in filesDisturbed \/ filesNow > filesUntil[i]
    <3>1. filesNow \in Nat /\ filesUntil[i] \in Nat /\ filesUntil[i] # Files!Never
      BY <1>1, <2>1 DEF FilesInv, Files!HandedOut
    <3>2. FileTrue(filesNow, filesDisk[i], filesEntry[i], filesUntil[i], i \in filesDisturbed)
      BY <2>1 DEF FilesInv
    <3> HIDE DEF i
    <3> QED
      BY <3>1, <3>2 DEF FileTrue
  <2>4. AnswerTrue(q)
    BY <2>1, <2>2, <2>3 DEF AnswerTrue
  <2>5. \A x \in FilesRequests : filesRequest'[x] \in Answers /\ AnswerTrue(filesRequest'[x])
    BY <2>1, <2>2, <2>4 DEF FilesInv
  <2>6. \A x \in FilesRequests : AnswerTrue(filesRequest[x])'
    BY <2>1, <2>5 DEF AnswerTrue, Files!HandedOut
  <2> QED
    BY <2>1, <2>2, <2>6 DEF FilesInv
<1>10. ASSUME NEW r \in FilesRequests, Files!Done(r) PROVE FilesInv'
  <2>1. /\ UNCHANGED <<filesNow, filesDisk, filesEntry, filesSaving, filesUntil,
             filesDisturbed>>
        /\ filesRequest' = [filesRequest EXCEPT ![r] = Files!NoRequest]
    BY <1>10 DEF Files!Done
  <2>2. \A x \in FilesRequests : AnswerTrue(filesRequest[x])'
    BY <1>2, <2>1 DEF FilesInv, AnswerTrue, Files!HandedOut
  <2> QED
    BY <1>2, <2>1, <2>2 DEF FilesInv
<1>11. ASSUME Files!Tick PROVE FilesInv'
  <2>1. filesNow' = filesNow + 1 /\ filesNow' \in Files!Times /\ filesNow' \in Nat
        /\ UNCHANGED <<filesDisk, filesEntry, filesSaving, filesRequest, filesUntil,
             filesDisturbed>>
    BY <1>1, <1>11 DEF Files!Tick, Files!Times, FilesConstants
  <2>2. \A i \in FilesIds : filesUntil[i] \in Nat
    BY <1>1 DEF FilesInv
  <2>3. \A i \in FilesIds :
         FileTrue(filesNow', filesDisk'[i], filesEntry'[i], filesUntil'[i],
                i \in filesDisturbed')
    BY <1>1, <2>1, <2>2 DEF FilesInv, FileTrue
  <2>4. \A x \in FilesRequests : AnswerTrue(filesRequest[x])'
    BY <1>1, <2>1, <2>2 DEF FilesInv, AnswerTrue, Files!HandedOut
  <2> QED
    BY <2>1, <2>3, <2>4 DEF FilesInv
<1>12. ASSUME NEW i \in FilesIds, Files!Vanish(i) PROVE FilesInv'
  <2>1. /\ filesDisk' = [filesDisk EXCEPT ![i] = "absent"]
        /\ filesDisturbed' = filesDisturbed \cup {i}
        /\ UNCHANGED <<filesNow, filesEntry, filesSaving, filesRequest, filesUntil>>
        /\ \A s \in FilesSaves : filesSaving[s] # i
    BY <1>12 DEF Files!Vanish
  <2>2. \A k \in FilesIds :
         FileTrue(filesNow', filesDisk'[k], filesEntry'[k], filesUntil'[k],
                k \in filesDisturbed')
    BY <2>1 DEF FilesInv, FileTrue
  <2>3. \A x \in FilesRequests : AnswerTrue(filesRequest[x])'
    BY <2>1 DEF FilesInv, AnswerTrue, Files!HandedOut
  <2> QED
    BY <2>1, <2>2, <2>3 DEF FilesInv, OnDisk
<1>13. ASSUME Files!Restart PROVE FilesInv'
  <2>1. /\ filesEntry' = [i \in FilesIds |-> Files!Never]
        /\ filesSaving' = [s \in FilesSaves |-> NoId]
        /\ filesRequest' = [r \in FilesRequests |-> Files!NoRequest]
        /\ filesDisturbed' = filesDisturbed \cup {i \in FilesIds : filesDisk[i] # "unused"}
        /\ UNCHANGED <<filesNow, filesDisk, filesUntil>>
    BY <1>13 DEF Files!Restart
  <2>2. \A k \in FilesIds :
         FileTrue(filesNow', filesDisk'[k], filesEntry'[k], filesUntil'[k],
                k \in filesDisturbed')
    BY <2>1 DEF FilesInv, FileTrue
  <2>3. \A x \in FilesRequests : AnswerTrue(filesRequest[x])'
    BY <1>2, <2>1 DEF AnswerTrue
  <2> QED
    BY <1>1, <1>2, <2>1, <2>2, <2>3 DEF FilesInv
<1> QED
  BY <1>3, <1>4, <1>7, <1>8, <1>9, <1>10, <1>11, <1>12, <1>13 DEF Files!Next

LEMMA FilesKept ==
  ASSUME FilesInv, UNCHANGED Files!vars
  PROVE  FilesInv'
BY DEF FilesInv, AnswerTrue, Files!HandedOut, Files!vars

LEMMA FilesHold ==
  ASSUME FilesConstants, FilesInv
  PROVE  Files!UrlsAreGood
<1>1. \A i \in FilesIds \ filesDisturbed :
        Files!HandedOut(i) /\ filesNow <= filesUntil[i]
                                => filesDisk[i] = "whole" /\ Files!Listed(i)
  BY DEF FilesInv, FileTrue, Files!HandedOut, Files!Listed
<1>2. \A r \in FilesRequests : filesRequest[r].pc = "broken" =>
        filesRequest[r].id \in filesDisturbed \/ filesNow > filesUntil[filesRequest[r].id]
  BY DEF FilesInv, AnswerTrue
<1> QED
  BY <1>1, <1>2 DEF Files!UrlsAreGood

-----------------------------------------------------------------------------
(* What the command line restricts                                         *)

-----------------------------------------------------------------------------
AllRead == {"gmail.readonly", "drive.readonly", "presentations.readonly", "tasks.readonly",
            "script.projects.readonly"}

LEMMA TheServices ==
  /\ Selection!Services = {"gmail", "drive", "slides", "tasks", "appscript"}
  /\ UNION {Selection!ReadScopes[s] : s \in Selection!Services} = AllRead
<1>1. Selection!Services = {"gmail", "drive", "slides", "tasks", "appscript"}
  BY DEF Selection!Services, Selection!FullScopes
<1>2. UNION {Selection!ReadScopes[s] : s \in Selection!Services} =
        Selection!ReadScopes.gmail \cup Selection!ReadScopes.drive
               \cup Selection!ReadScopes.slides \cup Selection!ReadScopes.tasks
        \cup Selection!ReadScopes.appscript
  BY <1>1
<1> QED
  BY <1>1, <1>2 DEF Selection!ReadScopes, AllRead

\* A tool whose scopes are read-only ones does not write.
LEMMA ReadersDoNotWrite ==
  ASSUME NEW t \in Selection!ToolNames, Selection!WithinRead(t)
  PROVE  Selection!Catalogue[t].writes = FALSE
<1>1. Selection!Catalogue[t].scopes \subseteq AllRead
  BY TheServices DEF Selection!WithinRead
<1>2. Selection!ToolNames
       = {"search_gmail_messages", "send_gmail_message", "draft_gmail_message",
         "modify_gmail_message_labels", "search_drive_files", "manage_drive_access",
         "get_presentation", "list_presentation_comments", "manage_presentation_comment",
         "list_tasks", "manage_task", "list_script_projects", "delete_script_project",
         "start_google_auth"}
  BY DEF Selection!ToolNames, Selection!Catalogue
<1>3. CASE t \in {"send_gmail_message", "draft_gmail_message", "modify_gmail_message_labels",
                  "manage_drive_access", "manage_presentation_comment", "manage_task",
                  "delete_script_project"}
  <2>1. ASSUME NEW scope, scope \in Selection!Catalogue[t].scopes PROVE scope \in AllRead
    BY <1>1, <2>1
  <2>2. CASE t = "send_gmail_message"
    <3>1. "gmail.send" \in Selection!Catalogue[t].scopes
      BY <2>2 DEF Selection!Catalogue, Selection!Tool
    <3> QED BY <2>1, <3>1 DEF AllRead
  <2>3. CASE t = "draft_gmail_message"
    <3>1. "gmail.compose" \in Selection!Catalogue[t].scopes
      BY <2>3 DEF Selection!Catalogue, Selection!Tool
    <3> QED BY <2>1, <3>1 DEF AllRead
  <2>4. CASE t = "modify_gmail_message_labels"
    <3>1. "gmail.modify" \in Selection!Catalogue[t].scopes
      BY <2>4 DEF Selection!Catalogue, Selection!Tool
    <3> QED BY <2>1, <3>1 DEF AllRead
  <2>5. CASE t = "manage_drive_access"
    <3>1. "drive" \in Selection!Catalogue[t].scopes
      BY <2>5 DEF Selection!Catalogue, Selection!Tool
    <3> QED BY <2>1, <3>1 DEF AllRead
  <2>6. CASE t = "manage_presentation_comment"
    <3>1. "drive" \in Selection!Catalogue[t].scopes
      BY <2>6 DEF Selection!Catalogue, Selection!Tool
    <3> QED BY <2>1, <3>1 DEF AllRead
  <2>7. CASE t = "manage_task"
    <3>1. "tasks" \in Selection!Catalogue[t].scopes
      BY <2>7 DEF Selection!Catalogue, Selection!Tool
    <3> QED BY <2>1, <3>1 DEF AllRead
  <2>8. CASE t = "delete_script_project"
    <3>1. "drive" \in Selection!Catalogue[t].scopes
      BY <2>8 DEF Selection!Catalogue, Selection!Tool
    <3> QED BY <2>1, <3>1 DEF AllRead
  <2> QED BY <1>3, <2>2, <2>3, <2>4, <2>5, <2>6, <2>7, <2>8
<1>4. CASE t \in {"search_gmail_messages", "search_drive_files", "get_presentation",
                  "list_presentation_comments", "list_tasks", "list_script_projects",
                  "start_google_auth"}
  BY <1>4 DEF Selection!Catalogue, Selection!Tool
<1> QED
  BY <1>2, <1>3, <1>4

LEMMA TierIsKept ==
  ASSUME NEW among, NEW t \in Selection!TierTools("core", among)
  PROVE  Selection!Catalogue[t].tier = "core"
<1>1. PICK j \in 1..3 : Selection!Catalogue[t].tier = Selection!Tiers[j]
                        /\ \E k \in 1..3 : k >= j /\ Selection!Tiers[k] = "core"
  BY DEF Selection!TierTools, Selection!Tiers
<1> QED
  BY <1>1 DEF Selection!Tiers

LEMMA LevelsAreInTheMaps ==
  ASSUME NEW s \in Selection!Services, NEW l
  PROVE  Selection!LevelScopes(s, l) \subseteq Selection!FullScopes[s]
         \cup Selection!ReadScopes[s]
<1>1. \A i \in DOMAIN Selection!Levels[s] :
       Selection!Levels[s][i][2] \subseteq Selection!FullScopes[s] \cup Selection!ReadScopes[s]
  <2>1. CASE s = "gmail" BY <2>1 DEF Selection!Levels, Selection!FullScopes,
         Selection!ReadScopes
  <2>2. CASE s = "drive" BY <2>2 DEF Selection!Levels, Selection!FullScopes,
         Selection!ReadScopes
  <2>3. CASE s = "slides" BY <2>3 DEF Selection!Levels, Selection!FullScopes,
         Selection!ReadScopes
  <2>4. CASE s = "tasks" BY <2>4 DEF Selection!Levels, Selection!FullScopes,
         Selection!ReadScopes
  <2>5. CASE s = "appscript" BY <2>5 DEF Selection!Levels, Selection!FullScopes,
         Selection!ReadScopes
  <2> QED BY <2>1, <2>2, <2>3, <2>4, <2>5, TheServices
<1> QED
  BY <1>1 DEF Selection!LevelScopes, Selection!UpTo

\* Only a service's own levels have what it owns alone.
LEMMA OwnScopeOwned ==
  ASSUME NEW s \in Selection!Services, NEW r \in Selection!Services, NEW l,
         NEW scope \in Selection!LevelScopes(r, l),
         Selection!OwnScope(scope, s)
  PROVE  r = s
<1>1. scope \in Selection!FullScopes[r] \cup Selection!ReadScopes[r]
  BY LevelsAreInTheMaps
<1> QED
  BY <1>1 DEF Selection!OwnScope

LEMMA TasksAreOwned == Selection!OwnScope("tasks", "tasks")
<1>1. \A s \in Selection!Services :
       "tasks" \in Selection!FullScopes[s] \cup Selection!ReadScopes[s] <=> s = "tasks"
  BY TheServices DEF Selection!FullScopes, Selection!ReadScopes
<1> QED
  BY <1>1, TheServices DEF Selection!OwnScope

\* The level of the tasks that has the scope to change them is full or manage.
LEMMA TasksLevels ==
  ASSUME NEW l, "tasks" \in Selection!LevelScopes("tasks", l)
  PROVE  l \in {"manage", "full"}
<1>1. PICK i \in DOMAIN Selection!Levels["tasks"] :
        /\ "tasks" \in Selection!Levels["tasks"][i][2]
        /\ \E j \in DOMAIN Selection!Levels["tasks"] : j >= i
             /\ Selection!Levels["tasks"][j][1] = l
  BY DEF Selection!LevelScopes, Selection!UpTo
<1>2. DOMAIN Selection!Levels["tasks"] = 1..3
  BY DEF Selection!Levels
<1>3. i # 1
  BY <1>1 DEF Selection!Levels
<1> QED
  BY <1>1, <1>2, <1>3 DEF Selection!Levels
-----------------------------------------------------------------------------
SelectionStages == {"off", "tools", "tier", "readOnly", "permissions", "select", "serving"}

\* The settings a server serves under, and the tools it has kept.
Serving ==
    /\ selectionRegistered \subseteq Selection!ToolNames
    /\ Selection!PermissionsMode =>
         /\ selectionArgs.permissions \in LevelSets /\ selectionArgs.readOnly = FALSE
         /\ \A t \in selectionRegistered :
              Selection!Catalogue[t].scopes \subseteq Selection!PermittedScopes
    /\ ~Selection!PermissionsMode /\ selectionArgs.readOnly = TRUE
         => \A t \in selectionRegistered : Selection!WithinRead(t)
    /\ selectionArgs.tier = "core"
         => \A t \in selectionRegistered : Selection!Catalogue[t].tier = "core"
\* Where the last call got to.
CallGot ==
    /\ selectionCall.outcome \in {"done", "sign_in"}
         => selectionStage = "serving" /\ selectionCall.tool \in selectionRegistered
    /\ selectionCall.outcome = "done"
         => ~Selection!Refused(selectionCall.tool, selectionCall.action)
    /\ selectionCall.outcome = "sign_in" =>
         selectionCredentials = Unset \/ ~Selection!Covers(selectionCredentials,
                                           Selection!Catalogue[selectionCall.tool].scopes)

SelectionInv ==
    /\ selectionStage \in SelectionStages
    /\ selectionStage # "serving"
         => selectionArgs \in Selection!Settings /\ selectionCall = Selection!NoCall
    /\ selectionStage = "serving" => Serving
    /\ CallGot

LEMMA NoCallGot ==
  ASSUME SelectionConstants, selectionCall = Selection!NoCall
  PROVE  CallGot
BY DEF CallGot, Selection!NoCall, SelectionConstants

LEMMA NothingSet ==
  ASSUME SelectionConstants
  PROVE  Selection!NoSettings \in Selection!Settings
BY DEF Selection!NoSettings, Selection!Settings

\* So it is from the start, whatever a step does, and this is what is promised.
LEMMA SelectionBegin ==
  ASSUME SelectionConstants, Selection!Init
  PROVE  SelectionInv
BY NoCallGot, NothingSet DEF SelectionInv, SelectionStages, Selection!Init

LEMMA TurnedOff ==
  ASSUME SelectionConstants, Selection!Off
  PROVE  SelectionInv'
<1>1. selectionStage' = "off" /\ selectionArgs' = Selection!NoSettings
                              /\ selectionCall' = Selection!NoCall
  BY DEF Selection!Off
<1>2. CallGot'
  BY <1>1 DEF CallGot, Selection!NoCall, SelectionConstants
<1> QED
  BY <1>1, <1>2, NothingSet DEF SelectionInv, SelectionStages, Selection!Settings

\* A variable of the environment makes the settings no worse, or ends the launch.
LEMMA SettingRead ==
  ASSUME SelectionConstants, SelectionInv,
         NEW field \in {"tools", "tier", "readOnly", "permissions"},
         NEW open \in BOOLEAN, NEW value,
         NEW next \in {"tier", "readOnly", "permissions", "select"},
         Selection!FromEnv(field, open, value, next),
         open /\ value \notin {Unset, Invalid}
                   => [selectionArgs EXCEPT ![field] = value] \in Selection!Settings
  PROVE  SelectionInv'
<1>1. CASE open /\ value = Invalid
  BY <1>1, TurnedOff DEF Selection!FromEnv
<1>2. CASE ~(open /\ value = Invalid)
  <2>1. /\ selectionArgs'
             = [selectionArgs EXCEPT ![field] = IF open
                    /\ value # Unset THEN value ELSE selectionArgs[field]]
        /\ selectionStage = field /\ selectionStage' = next
        /\ UNCHANGED <<selectionGiven, selectionOauth21, selectionServices,
             selectionRegistered, selectionCredentials, selectionCall, selectionLaunches>>
    BY <1>2 DEF Selection!FromEnv
  <2>2. selectionArgs \in Selection!Settings /\ selectionCall = Selection!NoCall
    BY <2>1 DEF SelectionInv
  <2>3. selectionArgs' \in Selection!Settings
    <3>1. CASE open /\ value # Unset
      BY <1>2, <2>1, <3>1
    <3>2. CASE ~(open /\ value # Unset)
      <4>1. selectionArgs' = [selectionArgs EXCEPT ![field] = selectionArgs[field]]
        BY <2>1, <3>2
      <4>2. selectionArgs' = selectionArgs
        BY <2>2, <4>1 DEF Selection!Settings
      <4> QED BY <2>2, <4>2
    <3> QED BY <3>1, <3>2
  <2>4. CallGot'
    BY <2>1, <2>2 DEF CallGot, Selection!NoCall, SelectionConstants
  <2> QED
    BY <2>1, <2>2, <2>3, <2>4 DEF SelectionInv, SelectionStages
<1> QED
  BY <1>1, <1>2

LEMMA Launched ==
  ASSUME SelectionConstants, SelectionInv, NEW missing, Selection!Launch(missing)
  PROVE  SelectionInv'
<1> DEFINE perms == selectionArgs.permissions
           kept == IF Selection!PermissionsMode
                   THEN Selection!Restrict(perms, Selection!Selected \cap DOMAIN perms)
                   ELSE Unset
           permitted == IF Selection!PermissionsMode
                        THEN UNION {Selection!LevelScopes(s, kept[s]) : s \in DOMAIN kept}
                        ELSE {}
<1>1. selectionStage = "select" /\ selectionArgs \in Selection!Settings
                                /\ selectionCall = Selection!NoCall
  BY DEF Selection!Launch, SelectionInv
<1>2. CASE (Selection!PermissionsMode /\ (selectionArgs.readOnly
                                           \/ selectionArgs.tools # Unset)) \/ perms = Invalid
  BY <1>2, TurnedOff DEF Selection!Launch
<1>3. CASE ~((Selection!PermissionsMode
       /\ (selectionArgs.readOnly \/ selectionArgs.tools # Unset)) \/ perms = Invalid)
  <2>1. /\ selectionRegistered' = {t \in Selection!Offered :
                            /\ Selection!Catalogue[t].service
                                 \in (Selection!Selected \ missing) \cup {Unset}
                            /\ Selection!Stays(t, permitted)}
        /\ selectionArgs' = [selectionArgs EXCEPT !.permissions = kept]
        /\ selectionStage' = "serving"
        /\ UNCHANGED <<selectionGiven, selectionOauth21, selectionCredentials, selectionCall,
             selectionLaunches>>
    BY <1>3 DEF Selection!Launch
  <2>2. selectionRegistered' \subseteq Selection!ToolNames
         /\ selectionRegistered' \subseteq Selection!Offered
        /\ \A t \in selectionRegistered' : Selection!Stays(t, permitted)
    BY <2>1 DEF Selection!Offered, Selection!TierTools
  <2>3. selectionArgs'.permissions = kept /\ selectionArgs'.readOnly = selectionArgs.readOnly
         /\ selectionArgs'.tier = selectionArgs.tier
    BY <1>1, <2>1 DEF Selection!Settings
  <2>4. ASSUME Selection!PermissionsMode
        PROVE  kept \in LevelSets /\ kept # Unset /\ selectionArgs.readOnly = FALSE
    <3>1. perms \in LevelSets
      BY <1>1, <1>3, <2>4 DEF Selection!PermissionsMode, Selection!Settings, SelectionConstants
    <3>2. PICK D \in SUBSET Selection!Services : perms \in [D -> LevelNames]
      BY <3>1 DEF LevelSets
    <3>3. kept = [s \in Selection!Selected \cap D |-> perms[s]]
      BY <2>4, <3>2 DEF Selection!Restrict
    <3>4. kept \in [Selection!Selected \cap D -> LevelNames]
      BY <3>2, <3>3
    <3>5. kept \in LevelSets
      BY <3>4 DEF LevelSets
    <3>6. selectionArgs.readOnly = FALSE
      BY <1>1, <1>3, <2>4 DEF Selection!Settings
    <3> HIDE DEF kept
    <3> QED
      BY <3>5, <3>6 DEF SelectionConstants
  <2>5. ~Selection!PermissionsMode => kept = Unset
    OBVIOUS
  <2> HIDE DEF kept
  <2>6. Selection!PermissionsMode' <=> Selection!PermissionsMode
    BY <2>3, <2>4, <2>5 DEF Selection!PermissionsMode
  <2>7. ASSUME Selection!PermissionsMode
        PROVE  Selection!PermittedScopes' = permitted
    BY <2>3, <2>7 DEF Selection!PermittedScopes
  <2>8. \A t \in selectionRegistered' : Selection!PermissionsMode
         => Selection!Catalogue[t].scopes \subseteq permitted
    BY <2>2 DEF Selection!Stays
  <2>9. \A t \in selectionRegistered' : ~Selection!PermissionsMode /\ selectionArgs.readOnly
         => Selection!WithinRead(t)
    BY <2>2 DEF Selection!Stays
  <2>10. ASSUME selectionArgs.tier = "core", NEW t \in selectionRegistered'
         PROVE  Selection!Catalogue[t].tier = "core"
    <3>1. selectionArgs.tier # Unset
      BY <2>10 DEF SelectionConstants
    <3>2. PICK among : Selection!Offered = Selection!TierTools("core", among)
      BY <2>10, <3>1 DEF Selection!Offered
    <3> QED
      BY <2>2, <3>2, TierIsKept
  <2> HIDE DEF permitted
  <2>11. Serving'
    BY <2>2, <2>3, <2>4, <2>6, <2>7, <2>8, <2>9, <2>10 DEF Serving
  <2>12. CallGot'
    BY <1>1, <2>1 DEF CallGot, Selection!NoCall, SelectionConstants
  <2> QED
    BY <2>1, <2>11, <2>12 DEF SelectionInv, SelectionStages
<1> QED
  BY <1>2, <1>3

\* What leaves the launch alone keeps what it serves under.
LEMMA StillServing ==
  ASSUME Serving, UNCHANGED <<selectionArgs, selectionRegistered>>
  PROVE  Serving'
BY DEF Serving, Selection!PermissionsMode, Selection!PermittedScopes

LEMMA SelectionStep ==
  ASSUME SelectionConstants, SelectionInv, Selection!Next
  PROVE  SelectionInv'
<1>1. ASSUME NEW tools \in SelectionToolsets \cup {Unset}, NEW tier \in {"core", Unset},
             NEW readOnly \in BOOLEAN, NEW new \in BOOLEAN,
             NEW permissions \in SelectionPermissionSets \cup {Unset, Invalid},
             Selection!CommandLine(tools, tier, readOnly, permissions, new)
      PROVE  SelectionInv'
  <2>1. selectionStage = "off" /\ selectionStage' = "tools" /\ UNCHANGED selectionCall
        /\ selectionArgs' = [tools |-> tools, tier |-> tier, readOnly |-> readOnly,
                    permissions |-> permissions]
    BY <1>1 DEF Selection!CommandLine
  <2>2. selectionArgs' \in Selection!Settings
    BY <2>1 DEF Selection!Settings
  <2>3. selectionCall' = Selection!NoCall
    BY <2>1 DEF SelectionInv
  <2>4. CallGot'
    BY <2>3 DEF CallGot, Selection!NoCall, SelectionConstants
  <2> QED
    BY <2>1, <2>2, <2>3, <2>4 DEF SelectionInv, SelectionStages
<1>2. ASSUME selectionStage \in {"tools", "tier", "readOnly", "permissions"}
      PROVE  selectionArgs \in Selection!Settings
  BY <1>2 DEF SelectionInv
<1>3. ASSUME NEW tools \in SelectionToolsets \cup {Unset, Invalid},
       Selection!ToolsFromEnv(tools)
      PROVE  SelectionInv'
  <2>1. selectionArgs \in Selection!Settings
    BY <1>2, <1>3 DEF Selection!ToolsFromEnv, Selection!FromEnv
  <2>2. tools \notin {Unset, Invalid}
         => [selectionArgs EXCEPT !["tools"] = tools] \in Selection!Settings
    BY <2>1 DEF Selection!Settings
  <2> DEFINE open == selectionGiven.tools = Unset /\ selectionGiven.permissions = Unset
  <2>3. open \in BOOLEAN /\ Selection!FromEnv("tools", open, tools, "tier")
    BY <1>3 DEF Selection!ToolsFromEnv
  <2> HIDE DEF open
  <2> QED
    BY <2>2, <2>3, SettingRead
<1>4. ASSUME NEW tier \in {"extended", Unset, Invalid}, Selection!TierFromEnv(tier)
      PROVE  SelectionInv'
  <2>1. selectionArgs \in Selection!Settings
    BY <1>2, <1>4 DEF Selection!TierFromEnv, Selection!FromEnv
  <2>2. tier \notin {Unset, Invalid}
         => [selectionArgs EXCEPT !["tier"] = tier] \in Selection!Settings
    BY <2>1 DEF Selection!Settings
  <2> DEFINE open == selectionGiven.tier = Unset
  <2>3. open \in BOOLEAN /\ Selection!FromEnv("tier", open, tier, "readOnly")
    BY <1>4 DEF Selection!TierFromEnv
  <2> HIDE DEF open
  <2> QED
    BY <2>2, <2>3, SettingRead
<1>5. ASSUME NEW readOnly \in {TRUE, FALSE, Unset, Invalid}, Selection!ReadOnlyFromEnv(readOnly)
      PROVE  SelectionInv'
  <2>1. selectionArgs \in Selection!Settings
    BY <1>2, <1>5 DEF Selection!ReadOnlyFromEnv, Selection!FromEnv
  <2>2. readOnly \notin {Unset, Invalid}
         => [selectionArgs EXCEPT !["readOnly"] = readOnly] \in Selection!Settings
    BY <2>1 DEF Selection!Settings
  <2> DEFINE open == ~selectionGiven.readOnly /\ selectionGiven.permissions = Unset
  <2>3. open \in BOOLEAN /\ Selection!FromEnv("readOnly", open, readOnly, "permissions")
    BY <1>5 DEF Selection!ReadOnlyFromEnv
  <2> HIDE DEF open
  <2> QED
    BY <2>2, <2>3, SettingRead
<1>6. ASSUME NEW permissions \in SelectionPermissionSets \cup {Unset, Invalid},
             Selection!PermissionsFromEnv(permissions)
      PROVE  SelectionInv'
  <2>1. selectionArgs \in Selection!Settings
    BY <1>2, <1>6 DEF Selection!PermissionsFromEnv, Selection!FromEnv
  <2>2. permissions \notin {Unset, Invalid} =>
          [selectionArgs EXCEPT !["permissions"] = permissions] \in Selection!Settings
    BY <2>1 DEF Selection!Settings
  <2> DEFINE open == selectionGiven.permissions = Unset /\ ~selectionGiven.readOnly
         /\ selectionGiven.tools = Unset
  <2>3. open \in BOOLEAN /\ Selection!FromEnv("permissions", open, permissions, "select")
    BY <1>6 DEF Selection!PermissionsFromEnv
  <2> HIDE DEF open
  <2> QED
    BY <2>2, <2>3, SettingRead
<1>7. ASSUME NEW t \in selectionRegistered, NEW action \in Selection!Actions,
       Selection!CallTool(t, action)
      PROVE  SelectionInv'
  <2>1. /\ selectionStage = "serving" /\ Serving
        /\ UNCHANGED <<selectionStage, selectionGiven, selectionArgs, selectionOauth21,
             selectionServices, selectionRegistered, selectionCredentials, selectionLaunches>>
        /\ selectionCall' = [tool |-> t, action |-> action,
                    outcome |->
                      IF selectionCredentials = Unset
                             \/ ~Selection!Covers(selectionCredentials,
                                  Selection!Catalogue[t].scopes)
                      THEN "sign_in"
                      ELSE IF Selection!Refused(t, action) THEN "denied" ELSE "done"]
    BY <1>7 DEF Selection!CallTool, SelectionInv
  <2>2. /\ selectionCall'.tool = t /\ selectionCall'.action = action
        /\ selectionCall'.outcome =
              IF selectionCredentials = Unset
                     \/ ~Selection!Covers(selectionCredentials, Selection!Catalogue[t].scopes)
              THEN "sign_in" ELSE IF Selection!Refused(t, action) THEN "denied" ELSE "done"
    BY <2>1
  <2>3. Selection!Refused(selectionCall.tool, selectionCall.action)' <=> Selection!Refused(t,
         action)
    BY <2>1, <2>2 DEF Selection!Refused, Selection!PermissionsMode
  <2>4. CallGot'
    BY <2>1, <2>2, <2>3 DEF CallGot
  <2> QED
    BY <2>1, <2>4, StillServing DEF SelectionInv
<1>8. ASSUME Selection!SignIn PROVE SelectionInv'
  <2>1. /\ selectionStage = "serving" /\ Serving /\ selectionCall' = Selection!NoCall
        /\ UNCHANGED <<selectionStage, selectionGiven, selectionArgs, selectionOauth21,
             selectionServices, selectionRegistered, selectionLaunches>>
    BY <1>8 DEF Selection!SignIn, SelectionInv
  <2>2. CallGot'
    BY <2>1 DEF CallGot, Selection!NoCall, SelectionConstants
  <2> QED
    BY <2>1, <2>2, StillServing DEF SelectionInv
<1> QED
  BY <1>1, <1>3, <1>4, <1>5, <1>6, <1>7, <1>8, Launched, TurnedOff DEF Selection!Next,
     Selection!Shutdown

LEMMA SelectionKept ==
  ASSUME SelectionInv, UNCHANGED Selection!vars
  PROVE  SelectionInv'
<1>1. UNCHANGED <<selectionStage, selectionArgs, selectionRegistered, selectionCredentials,
       selectionCall>>
  BY DEF Selection!vars
<1>2. CallGot'
  BY <1>1 DEF SelectionInv, CallGot, Selection!Refused, Selection!PermissionsMode
<1> QED
  BY <1>1, <1>2, StillServing DEF SelectionInv

LEMMA SelectionHolds ==
  ASSUME SelectionConstants, SelectionInv
  PROVE  Selection!ActsWithinTheMode /\ Selection!SignInHelpsUnderPermissions
<1>1. ASSUME selectionCall.outcome = "done"
      PROVE  LET t == Selection!Catalogue[selectionCall.tool] IN
             /\ selectionArgs.readOnly => ~t.writes
             /\ selectionArgs.tier = "core" => t.tier = "core"
             /\ Selection!PermissionsMode =>
                   /\ \A scope \in t.scopes, s \in Selection!Services :
                         Selection!OwnScope(scope, s) =>
                             /\ s \in DOMAIN selectionArgs.permissions
                             /\ scope \in Selection!LevelScopes(s, selectionArgs.permissions[s])
                   /\ selectionCall.tool = "manage_task" /\ selectionCall.action = "delete" =>
                         selectionArgs.permissions["tasks"] = "full"
  <2> DEFINE n == selectionCall.tool
  <2>1. Serving /\ n \in selectionRegistered /\ n \in Selection!ToolNames
                /\ ~Selection!Refused(n, selectionCall.action)
    BY <1>1 DEF SelectionInv, CallGot, Serving
  <2>2. selectionArgs.readOnly = TRUE => Selection!Catalogue[n].writes = FALSE
    BY <2>1, ReadersDoNotWrite DEF Serving
  <2>3. ASSUME Selection!PermissionsMode, NEW scope \in Selection!Catalogue[n].scopes,
         NEW s \in Selection!Services,
               Selection!OwnScope(scope, s)
        PROVE  s \in DOMAIN selectionArgs.permissions
               /\ scope \in Selection!LevelScopes(s, selectionArgs.permissions[s])
    <3>1. PICK r \in DOMAIN selectionArgs.permissions :
           scope \in Selection!LevelScopes(r, selectionArgs.permissions[r])
      BY <2>1, <2>3 DEF Serving, Selection!PermittedScopes
    <3>2. r \in Selection!Services
      BY <2>1, <2>3, <3>1 DEF Serving, LevelSets
    <3>3. r = s
      BY <2>3, <3>1, <3>2, OwnScopeOwned
    <3> QED
      BY <3>1, <3>3
  <2>4. ASSUME Selection!PermissionsMode, n = "manage_task", selectionCall.action = "delete"
        PROVE  selectionArgs.permissions["tasks"] = "full"
    <3>1. "tasks" \in Selection!Catalogue[n].scopes /\ Selection!Catalogue[n].service = "tasks"
      BY <2>4 DEF Selection!Catalogue, Selection!Tool
    <3>2. "tasks" \in DOMAIN selectionArgs.permissions
          /\ "tasks" \in Selection!LevelScopes("tasks", selectionArgs.permissions["tasks"])
      BY <2>3, <2>4, <3>1, TasksAreOwned, TheServices
    <3>3. selectionArgs.permissions["tasks"] \in {"manage", "full"}
      BY <3>2, TasksLevels
    <3> QED
      BY <2>1, <2>4, <3>1, <3>2, <3>3 DEF Selection!Refused, Selection!Denied
  <2>5. selectionArgs.tier = "core" => Selection!Catalogue[n].tier = "core"
    BY <2>1 DEF Serving
  <2> QED
    BY <2>2, <2>3, <2>4, <2>5
<1>2. ASSUME Selection!PermissionsMode, selectionCall.outcome = "sign_in"
      PROVE  selectionCredentials = Unset
             \/ ~Selection!Covers(selectionCredentials, Selection!Requested)
  <2>1. Serving /\ selectionCall.tool \in selectionRegistered
        /\ (selectionCredentials = Unset
             \/ ~Selection!Covers(selectionCredentials,
                  Selection!Catalogue[selectionCall.tool].scopes))
    BY <1>2 DEF SelectionInv, CallGot
  <2>2. Selection!Catalogue[selectionCall.tool].scopes \subseteq Selection!Requested
    BY <1>2, <2>1 DEF Serving, Selection!Requested
  <2> QED
    BY <2>1, <2>2 DEF Selection!Covers
<1> QED
  BY <1>1, <1>2 DEF Selection!ActsWithinTheMode, Selection!SignInHelpsUnderPermissions,
     Selection!SignInHelps

-----------------------------------------------------------------------------
(* The runs of a benchmark                                                 *)

Agents == [pc : {"waiting", "running", "ended", "graded", "done"}, disturbed : BOOLEAN,
           end : Runs!Ends \cup {NoVerdict}, graded : Runs!Documents \cup {NoFile},
           found : BOOLEAN]
Servers == [doc : Runs!Documents \cup {NoFile}, calling : BOOLEAN, calls : 0..RunsMaxCalls]
Disks == [state : Runs!Documents \cup {NoFile}, transcript : BOOLEAN,
          record : Runs!Records \cup {NoFile, Half}]

\* What the harness says is wrong with a run, of the two looks at its state; a run whose
\* state came between them is not among those.
Ungraded(a) == \/ a.end \in {"unstarted", "killed"}
               \/ a.graded = NoFile /\ a.found = FALSE
               \/ a.graded # NoFile /\ a.graded.broken
Between(a) == a.graded = NoFile /\ a.found = TRUE
Spoilt(a) == a.disturbed = TRUE \/ a.end = "killed" \/ Ungraded(a)

\* A run: its agent, its server, its directory, its verdict and the rebuilt one.
RunTrue(h, a, s, d, v, b) ==
    /\ d.state = s.doc
    /\ a.end = NoVerdict <=> a.pc \in {"waiting", "running"}
    /\ s.calling = TRUE => s.doc # NoFile /\ a.pc # "waiting"
                           /\ a.end \notin {"clean", "unstarted"}
    /\ a.pc = "waiting" => s.doc = NoFile
    /\ a.pc \notin {"graded", "done"} => a.graded = NoFile
    /\ a.end = "clean" => a.graded \in {NoFile, d.state}
    /\ a.pc = "graded" => d.transcript = TRUE
    /\ a.pc = "done" <=> v \in Runs!Outcomes
    /\ v \in {"PASS", "FAIL"} => ~Spoilt(a)
    /\ v = "PASS" => Runs!Passes(a.graded)
    /\ d.record \in Runs!Records =>
         /\ a.pc = "done" /\ d.transcript = TRUE
         /\ d.record.harnessError = TRUE <=> Ungraded(a)
         /\ d.record.timedOut = TRUE <=> a.end = "killed"
         /\ v = IF Spoilt(a) THEN "INCONCLUSIVE"
                ELSE IF Runs!Passes(a.graded) THEN "PASS" ELSE "FAIL"
    /\ b # NoVerdict =>
         /\ h # "runs" /\ d.record \in Runs!Records
         /\ b = "INCONCLUSIVE" <=> Spoilt(a)
         /\ a.end = "clean" /\ ~Between(a) => b = v

RunsInv ==
    /\ runsHarness \in {"runs", "reported", "crashed"}
    /\ runsAgent \in [RunsJobs -> Agents] /\ runsServer \in [RunsJobs -> Servers]
    /\ runsDisk \in [RunsJobs -> Disks]
    /\ runsVerdict \in [RunsJobs -> Runs!Outcomes \cup {NoVerdict}]
    /\ runsRebuilt \in [RunsJobs -> Runs!Outcomes \cup {NoVerdict}]
    /\ \A j \in RunsJobs :
         RunTrue(runsHarness, runsAgent[j], runsServer[j], runsDisk[j], runsVerdict[j],
                runsRebuilt[j])
    /\ runsHarness = "reported"
         => runsReport = Runs!Counts(runsVerdict)
                /\ \A j \in RunsJobs : runsAgent[j].pc = "done"

\* So it is from the start, whatever a step does, and this is what is promised.
LEMMA RunsBegin ==
  ASSUME RunsConstants, Runs!Init
  PROVE  RunsInv
<1> DEFINE a == [pc |-> "waiting", disturbed |-> FALSE, end |-> NoVerdict, graded |-> NoFile,
                  found |-> FALSE]
           s == [doc |-> NoFile, calling |-> FALSE, calls |-> 0]
           d == [state |-> NoFile, transcript |-> FALSE, record |-> NoFile]
<1>1. a \in Agents /\ s \in Servers /\ d \in Disks
  BY DEF Agents, Servers, Disks, RunsConstants
<1>2. RunTrue("runs", a, s, d, NoVerdict, NoVerdict)
  BY DEF RunTrue, RunsConstants, Runs!Outcomes, Runs!Ends
<1>3. /\ runsHarness = "runs" /\ runsAgent = [j \in RunsJobs |-> a]
      /\ runsServer = [j \in RunsJobs |-> s]
      /\ runsDisk = [j \in RunsJobs |-> d] /\ runsVerdict = [j \in RunsJobs |-> NoVerdict]
      /\ runsRebuilt = [j \in RunsJobs |-> NoVerdict]
  BY DEF Runs!Init
<1> HIDE DEF a, s, d
<1> QED
  BY <1>1, <1>2, <1>3 DEF RunsInv

\* A run comes to this.
RunBecomes(j, a, s, d, v) ==
    /\ runsAgent' = [runsAgent EXCEPT ![j] = a] /\ runsServer' = [runsServer EXCEPT ![j] = s]
    /\ runsDisk' = [runsDisk EXCEPT ![j] = d] /\ runsVerdict' = [runsVerdict EXCEPT ![j] = v]
    /\ runsHarness = "reported" => a = runsAgent[j] /\ v = runsVerdict[j]
    /\ UNCHANGED <<runsHarness, runsReport, runsRebuilt>>

\* A step that changes one run, while the batch runs or after it.
LEMMA RunChanged ==
  ASSUME RunsInv, NEW j \in RunsJobs, NEW a \in Agents, NEW s \in Servers, NEW d \in Disks,
         NEW v \in Runs!Outcomes \cup {NoVerdict},
         RunTrue(runsHarness, a, s, d, v, runsRebuilt[j]),
         RunBecomes(j, a, s, d, v)
  PROVE  RunsInv'
<1> USE DEF RunBecomes
<1>1. /\ runsAgent' \in [RunsJobs -> Agents] /\ runsServer' \in [RunsJobs -> Servers]
      /\ runsDisk' \in [RunsJobs -> Disks]
      /\ runsVerdict' \in [RunsJobs -> Runs!Outcomes \cup {NoVerdict}]
  BY DEF RunsInv
<1>2. ASSUME NEW k \in RunsJobs
      PROVE  RunTrue(runsHarness', runsAgent'[k], runsServer'[k], runsDisk'[k],
             runsVerdict'[k], runsRebuilt'[k])
  <2>1. CASE k = j
    BY <2>1 DEF RunsInv
  <2>2. CASE k # j
    BY <2>2 DEF RunsInv
  <2> QED
    BY <2>1, <2>2
<1>3. ASSUME runsHarness = "reported"
      PROVE  runsVerdict' = runsVerdict /\ runsAgent' = runsAgent
  BY <1>3 DEF RunsInv
<1>4. runsHarness' = "reported" =>
        runsReport' = Runs!Counts(runsVerdict') /\ \A k \in RunsJobs : runsAgent'[k].pc = "done"
  BY <1>3 DEF RunsInv
<1> QED
  BY <1>1, <1>2, <1>4 DEF RunsInv

LEMMA RunsStep ==
  ASSUME RunsConstants, RunsInv, Runs!Next
  PROVE  RunsInv'
<1>1. runsHarness \in {"runs", "reported", "crashed"}
  BY DEF RunsInv
<1>2. ASSUME Runs!Report PROVE RunsInv'
  <2>1. \A j \in RunsJobs : runsAgent[j].pc = "done"
    BY <1>2 DEF Runs!Report
  <2>2. runsHarness = "runs" /\ runsHarness' = "reported"
                             /\ runsReport' = Runs!Counts(runsVerdict)
        /\ UNCHANGED <<runsAgent, runsServer, runsDisk, runsVerdict, runsRebuilt>>
    BY <1>2 DEF Runs!Report
  <2>3. \A j \in RunsJobs :
         RunTrue(runsHarness', runsAgent[j], runsServer[j], runsDisk[j], runsVerdict[j],
                runsRebuilt[j])
    BY <2>2 DEF RunsInv, RunTrue
  <2> QED
    BY <2>1, <2>2, <2>3 DEF RunsInv, Runs!Counts
<1>3. ASSUME Runs!Crash PROVE RunsInv'
  <2>1. PICK cut \in SUBSET {j \in RunsJobs : runsAgent[j].pc = "graded"} :
          runsDisk' = [j \in RunsJobs |->
                    IF j \in cut THEN [runsDisk[j] EXCEPT !.record = Half] ELSE runsDisk[j]]
    BY <1>3 DEF Runs!Crash
  <2>2. runsHarness = "runs" /\ runsHarness' = "crashed"
        /\ UNCHANGED <<runsAgent, runsServer, runsVerdict, runsReport, runsRebuilt>>
    BY <1>3 DEF Runs!Crash
  <2>3. ASSUME NEW j \in RunsJobs
        PROVE  /\ runsDisk'[j] \in Disks
               /\ RunTrue("crashed", runsAgent[j], runsServer[j], runsDisk'[j], runsVerdict[j],
                    runsRebuilt[j])
    <3>1. runsDisk[j] \in Disks
          /\ RunTrue("runs", runsAgent[j], runsServer[j], runsDisk[j], runsVerdict[j],
               runsRebuilt[j])
      BY <2>2 DEF RunsInv
    <3>2. CASE j \notin cut
      BY <2>1, <3>1, <3>2 DEF RunTrue
    <3>3. CASE j \in cut
      <4> DEFINE e == runsDisk'[j]
      <4>1. e = [runsDisk[j] EXCEPT !.record = Half]
        BY <2>1, <3>3
      <4>2. e \in Disks /\ e.state = runsDisk[j].state /\ e.record = Half
              /\ e.transcript = runsDisk[j].transcript
        BY <3>1, <4>1 DEF Disks
      <4>3. runsAgent[j].pc = "graded"
        BY <3>3
      <4> HIDE DEF e
      <4>4. RunTrue("crashed", runsAgent[j], runsServer[j], e, runsVerdict[j], runsRebuilt[j])
        BY <3>1, <4>2, <4>3 DEF RunTrue, RunsConstants
      <4> QED
        BY <4>2, <4>4 DEF e
    <3> QED
      BY <3>2, <3>3
  <2>4. runsDisk' \in [RunsJobs -> Disks]
    BY <2>1, <2>3
  <2> QED
    BY <2>2, <2>3, <2>4 DEF RunsInv
<1>4. ASSUME Runs!Rebuild PROVE RunsInv'
  <2>1. runsHarness # "runs" /\ UNCHANGED <<runsHarness, runsAgent, runsServer, runsDisk,
                                  runsVerdict, runsReport>>
        /\ runsRebuilt' = [j \in RunsJobs |->
            IF runsDisk[j].record \in {NoFile, Half}
                   THEN NoVerdict ELSE Runs!Outcome(Runs!FactsOf(j))]
    BY <1>4 DEF Runs!Rebuild
  <2>2. ASSUME NEW j \in RunsJobs
        PROVE  /\ runsRebuilt'[j] \in Runs!Outcomes \cup {NoVerdict}
               /\ RunTrue(runsHarness, runsAgent[j], runsServer[j], runsDisk[j],
                    runsVerdict[j], runsRebuilt'[j])
    <3> DEFINE a == runsAgent[j]
               s == runsServer[j]
               d == runsDisk[j]
               v == runsVerdict[j]
    <3>1. a \in Agents /\ d \in Disks /\ RunTrue(runsHarness, a, s, d, v, runsRebuilt[j])
      BY DEF RunsInv
    <3>2. CASE d.record \in {NoFile, Half}
      BY <2>1, <3>1, <3>2 DEF RunTrue
    <3>3. CASE d.record \in Runs!Records
      <4>1. runsRebuilt'[j] = Runs!Outcome(Runs!FactsOf(j))
        BY <2>1, <3>3 DEF RunsConstants
      <4>2. Runs!FactsOf(j).disturbed <=> a.disturbed = TRUE
        BY <3>1, <3>3 DEF Runs!FactsOf, RunTrue, Agents
      <4>3. Runs!FactsOf(j).timedOut <=> a.end = "killed"
        BY <3>1, <3>3 DEF Runs!FactsOf, RunTrue, Runs!Records
      <4>4. Runs!FactsOf(j).harnessError <=> Ungraded(a)
        BY <3>1, <3>3 DEF Runs!FactsOf, RunTrue, Runs!Records
      <4>5. Runs!FactsOf(j).passed <=> Runs!Passes(d.state)
        BY DEF Runs!FactsOf
      <4>6. Runs!Outcome(Runs!FactsOf(j)) = IF Spoilt(a) THEN "INCONCLUSIVE"
              ELSE IF Runs!Passes(d.state) THEN "PASS" ELSE "FAIL"
        BY <4>2, <4>3, <4>4, <4>5 DEF Runs!Outcome, Spoilt
      <4>7. ASSUME a.end = "clean", ~Between(a), ~Spoilt(a)
            PROVE  a.graded = d.state
        BY <3>1, <3>3, <4>7 DEF RunTrue, Spoilt, Ungraded, Between, Agents
      <4>8. v = IF Spoilt(a) THEN "INCONCLUSIVE"
                ELSE IF Runs!Passes(a.graded) THEN "PASS" ELSE "FAIL"
        BY <3>1, <3>3 DEF RunTrue
      <4>9. /\ runsRebuilt'[j] \in Runs!Outcomes
            /\ runsRebuilt'[j] = "INCONCLUSIVE" <=> Spoilt(a)
            /\ a.end = "clean" /\ ~Between(a) => runsRebuilt'[j] = v
        BY <4>1, <4>6, <4>7, <4>8 DEF Runs!Outcomes
      <4> QED
        BY <2>1, <3>1, <3>3, <4>9 DEF RunTrue
    <3> QED
      BY <3>1, <3>2, <3>3 DEF Disks
  <2>3. runsRebuilt' \in [RunsJobs -> Runs!Outcomes \cup {NoVerdict}]
    BY <2>1, <2>2
  <2> QED
    BY <2>1, <2>2, <2>3 DEF RunsInv, Runs!Counts
<1>5. ASSUME NEW j \in RunsJobs,
             Runs!Start(j) \/ Runs!ServerUp(j) \/ Runs!Call(j) \/ Runs!Executed(j)
                                \/ Runs!Disturb(j) \/ Runs!End(j)
             \/ Runs!ReadState(j) \/ Runs!Grade(j) \/ Runs!GradeFails(j)
      PROVE  RunsInv'
  <2> DEFINE a == runsAgent[j]
             s == runsServer[j]
             d == runsDisk[j]
             v == runsVerdict[j]
             b == runsRebuilt[j]
  <2>0. RunsInv
    OBVIOUS
  <2>1. /\ a \in Agents /\ s \in Servers /\ d \in Disks
        /\ v \in Runs!Outcomes \cup {NoVerdict}
        /\ RunTrue(runsHarness, a, s, d, v, b)
    BY DEF RunsInv
  <2>2. /\ runsAgent = [runsAgent EXCEPT ![j] = a] /\ runsServer = [runsServer EXCEPT ![j] = s]
        /\ runsDisk = [runsDisk EXCEPT ![j] = d] /\ runsVerdict = [runsVerdict EXCEPT ![j] = v]
    BY DEF RunsInv
  <2>3. ASSUME Runs!Start(j) PROVE RunsInv'
    <3>1. runsHarness = "runs" /\ a.pc = "waiting"
          /\ UNCHANGED <<runsHarness, runsServer, runsDisk, runsVerdict, runsReport,
               runsRebuilt>>
      BY <2>3 DEF Runs!Start
    <3>2. PICK e \in {[a EXCEPT !.pc = "running"],
                      [a EXCEPT !.pc = "ended", !.end = "unstarted"]} :
            runsAgent' = [runsAgent EXCEPT ![j] = e]
      BY <2>3 DEF Runs!Start, RunsInv
    <3>3. e \in Agents
      BY <2>1 DEF Agents, Runs!Ends
    <3>8. /\ e.pc \in {"running", "ended"} /\ e.graded = a.graded /\ e.disturbed = a.disturbed
          /\ e.end = IF e.pc = "running" THEN a.end ELSE "unstarted"
      BY <2>1 DEF Agents
    <3>9. /\ a.end = NoVerdict /\ a.graded = NoFile /\ v = NoVerdict /\ b = NoVerdict
          /\ d.record \notin Runs!Records /\ s.calling # TRUE
      BY <2>1, <3>1 DEF RunTrue, RunsConstants, Runs!Outcomes
    <3>4. RunTrue(runsHarness, e, s, d, v, b)
      <4> HIDE DEF v, b, d, s, a
      <4> QED
        BY <2>1, <3>1, <3>8, <3>9 DEF RunTrue, RunsConstants, Runs!Ends, Runs!Outcomes
    <3>5. runsServer' = [runsServer EXCEPT ![j] = s] /\ runsDisk' = [runsDisk EXCEPT ![j] = d]
          /\ runsVerdict' = [runsVerdict EXCEPT ![j] = v]
      BY <2>2, <3>1
    <3> HIDE DEF a, s, d, v
    <3>6. RunTrue(runsHarness, e, s, d, v, runsRebuilt[j])
      BY <3>4 DEF b
    <3>7. RunBecomes(j, e, s, d, v)
      BY <3>1, <3>2, <3>5 DEF RunBecomes
    <3> QED
      BY <2>0, <2>1, <3>3, <3>6, <3>7, RunChanged
  <2>4. ASSUME Runs!ServerUp(j) PROVE RunsInv'
    <3>1. a.pc # "waiting" /\ a.end # "unstarted" /\ s.doc = NoFile
          /\ UNCHANGED <<runsHarness, runsAgent, runsVerdict, runsReport, runsRebuilt>>
      BY <2>4 DEF Runs!ServerUp
    <3>2. PICK seed \in [good : BOOLEAN, broken : {FALSE}] :
            /\ runsServer' = [runsServer EXCEPT ![j] = [s EXCEPT !.doc = seed]]
            /\ runsDisk' = [runsDisk EXCEPT ![j] = [d EXCEPT !.state = seed]]
      BY <2>4 DEF Runs!ServerUp, RunsInv
    <3> DEFINE t == [s EXCEPT !.doc = seed]
               e == [d EXCEPT !.state = seed]
    <3>3. t \in Servers /\ e \in Disks
      BY <2>1 DEF Servers, Disks, Runs!Documents
    <3>4. RunTrue(runsHarness, a, t, e, v, b)
      BY <2>1, <3>1 DEF Servers, Disks, RunTrue, RunsConstants, Runs!Documents
    <3>5. runsAgent' = [runsAgent EXCEPT ![j] = a]
           /\ runsVerdict' = [runsVerdict EXCEPT ![j] = v]
      BY <2>2, <3>1
    <3>8. runsHarness = "reported" => a = runsAgent[j] /\ v = runsVerdict[j]
      OBVIOUS
    <3> HIDE DEF t, e
    <3> HIDE DEF a, s, d, v
    <3>6. RunTrue(runsHarness, a, t, e, v, runsRebuilt[j])
      BY <3>4 DEF b
    <3>7. RunBecomes(j, a, t, e, v)
      BY <3>1, <3>2, <3>5, <3>8 DEF RunBecomes, t, e
    <3> QED
      BY <2>0, <2>1, <3>3, <3>6, <3>7, RunChanged
  <2>5. ASSUME Runs!Call(j) PROVE RunsInv'
    <3>1. runsHarness = "runs" /\ a.pc = "running" /\ s.doc # NoFile /\ s.calls < RunsMaxCalls
          /\ UNCHANGED <<runsHarness, runsAgent, runsDisk, runsVerdict, runsReport,
               runsRebuilt>>
      BY <2>5 DEF Runs!Call
    <3> DEFINE t == [s EXCEPT !.calling = TRUE, !.calls = s.calls + 1]
    <3>2. runsServer' = [runsServer EXCEPT ![j] = t]
      BY <2>5 DEF Runs!Call, RunsInv
    <3>3. t \in Servers
      <4> DEFINE n == s.calls + 1
      <4>1. n \in 0..RunsMaxCalls
        BY <2>1, <3>1 DEF Servers, RunsConstants
      <4> HIDE DEF n
      <4>2. [s EXCEPT !.calling = TRUE, !.calls = n] \in Servers
        BY <2>1, <4>1 DEF Servers
      <4> QED
        BY <4>2 DEF n
    <3>4. RunTrue(runsHarness, a, t, d, v, b)
      BY <2>1, <3>1 DEF Servers, RunTrue, RunsConstants, Runs!Ends
    <3>5. runsAgent' = [runsAgent EXCEPT ![j] = a] /\ runsDisk' = [runsDisk EXCEPT ![j] = d]
          /\ runsVerdict' = [runsVerdict EXCEPT ![j] = v]
      BY <2>2, <3>1
    <3> HIDE DEF t
    <3> HIDE DEF a, s, d, v
    <3>6. RunTrue(runsHarness, a, t, d, v, runsRebuilt[j])
      BY <3>4 DEF b
    <3>7. RunBecomes(j, a, t, d, v)
      BY <3>1, <3>2, <3>5 DEF RunBecomes
    <3> QED
      BY <2>0, <2>1, <3>3, <3>6, <3>7, RunChanged
  <2>6. ASSUME Runs!Executed(j) PROVE RunsInv'
    <3>1. s.calling = TRUE /\ UNCHANGED <<runsHarness, runsAgent, runsVerdict, runsReport,
                                runsRebuilt>>
      BY <2>1, <2>6 DEF Runs!Executed, Servers
    <3>2. PICK doc \in Runs!Documents :
            /\ runsServer'
                 = [runsServer EXCEPT ![j] = [s EXCEPT !.doc = doc, !.calling = FALSE]]
            /\ runsDisk' = [runsDisk EXCEPT ![j] = [d EXCEPT !.state = doc]]
      BY <2>6 DEF Runs!Executed, RunsInv
    <3> DEFINE t == [s EXCEPT !.doc = doc, !.calling = FALSE]
               e == [d EXCEPT !.state = doc]
    <3>3. t \in Servers /\ e \in Disks
      BY <2>1 DEF Servers, Disks
    <3>4. RunTrue(runsHarness, a, t, e, v, b)
      BY <2>1, <3>1 DEF Servers, Disks, RunTrue, RunsConstants
    <3>5. runsAgent' = [runsAgent EXCEPT ![j] = a]
           /\ runsVerdict' = [runsVerdict EXCEPT ![j] = v]
      BY <2>2, <3>1
    <3>8. runsHarness = "reported" => a = runsAgent[j] /\ v = runsVerdict[j]
      OBVIOUS
    <3> HIDE DEF t, e
    <3> HIDE DEF a, s, d, v
    <3>6. RunTrue(runsHarness, a, t, e, v, runsRebuilt[j])
      BY <3>4 DEF b
    <3>7. RunBecomes(j, a, t, e, v)
      BY <3>1, <3>2, <3>5, <3>8 DEF RunBecomes, t, e
    <3> QED
      BY <2>0, <2>1, <3>3, <3>6, <3>7, RunChanged
  <2>7. ASSUME Runs!Disturb(j) PROVE RunsInv'
    <3>1. runsHarness = "runs" /\ a.pc = "running"
          /\ UNCHANGED <<runsHarness, runsServer, runsDisk, runsVerdict, runsReport,
               runsRebuilt>>
      BY <2>7 DEF Runs!Disturb
    <3> DEFINE e == [a EXCEPT !.disturbed = TRUE]
    <3>2. runsAgent' = [runsAgent EXCEPT ![j] = e]
      BY <2>7 DEF Runs!Disturb, RunsInv
    <3>3. e \in Agents
      BY <2>1 DEF Agents
    <3>4. RunTrue(runsHarness, e, s, d, v, b)
      BY <2>1, <3>1 DEF Agents, RunTrue, RunsConstants, Runs!Ends, Runs!Outcomes
    <3>5. runsServer' = [runsServer EXCEPT ![j] = s] /\ runsDisk' = [runsDisk EXCEPT ![j] = d]
          /\ runsVerdict' = [runsVerdict EXCEPT ![j] = v]
      BY <2>2, <3>1
    <3> HIDE DEF e
    <3> HIDE DEF a, s, d, v
    <3>6. RunTrue(runsHarness, e, s, d, v, runsRebuilt[j])
      BY <3>4 DEF b
    <3>7. RunBecomes(j, e, s, d, v)
      BY <3>1, <3>2, <3>5 DEF RunBecomes
    <3> QED
      BY <2>0, <2>1, <3>3, <3>6, <3>7, RunChanged
  <2>8. ASSUME Runs!End(j) PROVE RunsInv'
    <3>1. runsHarness = "runs" /\ a.pc = "running"
          /\ UNCHANGED <<runsHarness, runsServer, runsDisk, runsVerdict, runsReport,
               runsRebuilt>>
      BY <2>8 DEF Runs!End
    <3>2. PICK end \in Runs!Ends \ {"unstarted"} :
            /\ end = "clean" => ~s.calling
            /\ runsAgent' = [runsAgent EXCEPT ![j] = [a EXCEPT !.pc = "ended", !.end = end]]
      BY <2>8 DEF Runs!End, RunsInv
    <3> DEFINE e == [a EXCEPT !.pc = "ended", !.end = end]
    <3>3. e \in Agents
      BY <2>1 DEF Agents
    <3>4. RunTrue(runsHarness, e, s, d, v, b)
      BY <2>1, <3>1, <3>2 DEF Agents, Servers, RunTrue, RunsConstants, Runs!Ends, Runs!Outcomes
    <3>5. runsServer' = [runsServer EXCEPT ![j] = s] /\ runsDisk' = [runsDisk EXCEPT ![j] = d]
          /\ runsVerdict' = [runsVerdict EXCEPT ![j] = v]
      BY <2>2, <3>1
    <3> HIDE DEF e
    <3> HIDE DEF a, s, d, v
    <3>6. RunTrue(runsHarness, e, s, d, v, runsRebuilt[j])
      BY <3>4 DEF b
    <3>7. RunBecomes(j, e, s, d, v)
      BY <3>1, <3>2, <3>5 DEF RunBecomes, e
    <3> QED
      BY <2>0, <2>1, <3>3, <3>6, <3>7, RunChanged
  <2>9. ASSUME Runs!ReadState(j) PROVE RunsInv'
    <3>1. runsHarness = "runs" /\ a.pc = "ended"
          /\ UNCHANGED <<runsHarness, runsServer, runsVerdict, runsReport, runsRebuilt>>
      BY <2>9 DEF Runs!ReadState
    <3> DEFINE e == [a EXCEPT !.pc = "graded", !.graded = d.state]
               g == [d EXCEPT !.transcript = TRUE]
    <3>2. runsAgent' = [runsAgent EXCEPT ![j] = e] /\ runsDisk' = [runsDisk EXCEPT ![j] = g]
      BY <2>9 DEF Runs!ReadState, RunsInv
    <3>3. e \in Agents /\ g \in Disks
      BY <2>1 DEF Agents, Disks
    <3>4. /\ e.pc = "graded" /\ e.graded = d.state /\ e.end = a.end
          /\ g.state = d.state /\ g.record = d.record /\ g.transcript = TRUE
      BY <2>1 DEF Agents, Disks
    <3>5. runsServer' = [runsServer EXCEPT ![j] = s]
          /\ runsVerdict' = [runsVerdict EXCEPT ![j] = v]
      BY <2>2, <3>1
    <3> HIDE DEF e, g
    <3>6. RunTrue(runsHarness, e, s, g, v, b)
      BY <2>1, <3>1, <3>3, <3>4 DEF RunTrue, RunsConstants, Runs!Ends, Runs!Outcomes
    <3>8. runsHarness = "reported" => e = runsAgent[j] /\ v = runsVerdict[j]
      BY <3>1
    <3> HIDE DEF a, s, d, v
    <3>7. RunBecomes(j, e, s, g, v)
      BY <3>1, <3>2, <3>5, <3>8 DEF RunBecomes
    <3> QED
      BY <2>0, <2>1, <3>3, <3>6, <3>7, RunChanged DEF b
  <2>10. ASSUME Runs!GradeFails(j) PROVE RunsInv'
    <3>1. runsHarness = "runs" /\ a.pc = "ended"
          /\ UNCHANGED <<runsHarness, runsServer, runsDisk, runsReport, runsRebuilt>>
      BY <2>10 DEF Runs!GradeFails
    <3> DEFINE e == [a EXCEPT !.pc = "done"]
               w == "INCONCLUSIVE"
    <3>2. runsAgent' = [runsAgent EXCEPT ![j] = e] /\ runsVerdict' = [runsVerdict EXCEPT ![j] = w]
      BY <2>10 DEF Runs!GradeFails, RunsInv
    <3>3. e \in Agents /\ e.pc = "done" /\ e.end = a.end /\ e.graded = a.graded
      BY <2>1 DEF Agents
    <3>4. w \in Runs!Outcomes \cup {NoVerdict}
      BY DEF Runs!Outcomes
    <3>5. runsServer' = [runsServer EXCEPT ![j] = s] /\ runsDisk' = [runsDisk EXCEPT ![j] = d]
      BY <2>2, <3>1
    <3>9. a.end = "clean" => a.graded \in {NoFile, d.state}
      BY <2>1, <3>1 DEF RunTrue
    <3> HIDE DEF e
    <3>6. RunTrue(runsHarness, e, s, d, w, b)
      BY <2>1, <3>1, <3>3, <3>9 DEF RunTrue, RunsConstants, Runs!Ends, Runs!Outcomes
    <3> HIDE DEF a, s, d, v, w
    <3>7. RunBecomes(j, e, s, d, w)
      BY <3>1, <3>2, <3>5 DEF RunBecomes
    <3> QED
      BY <2>0, <2>1, <3>3, <3>4, <3>6, <3>7, RunChanged DEF b
  <2>11. ASSUME Runs!Grade(j) PROVE RunsInv'
    <3>1. runsHarness = "runs" /\ a.pc = "graded" /\ a.end \in Runs!Ends
          /\ UNCHANGED <<runsHarness, runsServer, runsReport, runsRebuilt>>
      BY <2>1, <2>11 DEF Runs!Grade, Agents, RunTrue
    <3> DEFINE found == d.state # NoFile
               e == [a EXCEPT !.pc = "done", !.found = found]
    <3>2. runsAgent' = [runsAgent EXCEPT ![j] = e]
      BY <2>11 DEF Runs!Grade, RunsInv
    <3>3. e \in Agents /\ e.pc = "done" /\ e.graded = a.graded /\ e.end = a.end
          /\ e.disturbed = a.disturbed /\ (e.found = TRUE <=> d.state # NoFile)
      BY <2>1 DEF Agents, Disks
    <3>4. runsServer' = [runsServer EXCEPT ![j] = s]
      BY <2>2, <3>1
    <3>5. ASSUME NEW w \in Runs!Outcomes, NEW g \in Disks, RunTrue(runsHarness, e, s, g, w, b),
                 runsVerdict' = [runsVerdict EXCEPT ![j] = w],
                 runsDisk' = [runsDisk EXCEPT ![j] = g]
          PROVE  RunsInv'
      <4> HIDE DEF a, s, d, v, e
      <4>1. RunTrue(runsHarness, e, s, g, w, runsRebuilt[j])
        BY <3>5 DEF b
      <4>2. RunBecomes(j, e, s, g, w)
        BY <3>1, <3>2, <3>4, <3>5 DEF RunBecomes
      <4> QED
        BY <2>0, <2>1, <3>3, <4>1, <4>2, RunChanged
    <3> DEFINE Facts(x) == [passed |-> Runs!Passes(a.graded),
                            harnessError |-> \/ a.end \in {"unstarted", "killed"}
                                             \/ a.graded = NoFile /\ ~found
                                             \/ a.graded # NoFile /\ a.graded.broken,
                            analysisError |-> x,
                            timedOut |-> a.end = "killed",
                            disturbed |-> a.disturbed]
    <3>6. CASE \E f \in {Facts(x) : x \in BOOLEAN} :
                 /\ runsVerdict' = [runsVerdict EXCEPT ![j] = Runs!Outcome(f)]
                 /\ runsDisk' = [runsDisk EXCEPT ![j].record = Runs!Recorded(f)]
      <4>1. PICK x \in BOOLEAN :
                 /\ runsVerdict' = [runsVerdict EXCEPT ![j] = Runs!Outcome(Facts(x))]
                 /\ runsDisk' = [runsDisk EXCEPT ![j].record = Runs!Recorded(Facts(x))]
        BY <3>6
      <4> DEFINE f == Facts(x)
                 w == Runs!Outcome(f)
                 g == [d EXCEPT !.record = Runs!Recorded(f)]
      <4>2. runsVerdict' = [runsVerdict EXCEPT ![j] = w]
             /\ runsDisk' = [runsDisk EXCEPT ![j] = g]
        BY <2>0, <4>1 DEF RunsInv
      <4>3. (f.harnessError <=> Ungraded(e)) /\ (f.timedOut <=> e.end = "killed")
            /\ (f.disturbed <=> e.disturbed = TRUE) /\ (f.passed <=> Runs!Passes(e.graded))
        BY <2>1, <3>3 DEF Ungraded, Agents, Runs!Documents
      <4>4. w = IF Spoilt(e) THEN "INCONCLUSIVE"
                ELSE IF Runs!Passes(e.graded) THEN "PASS" ELSE "FAIL"
        BY <4>3 DEF Runs!Outcome, Spoilt, Ungraded
      <4>5. Runs!Recorded(f) \in Runs!Records
             /\ (Runs!Recorded(f).harnessError = TRUE <=> Ungraded(e))
            /\ (Runs!Recorded(f).timedOut = TRUE <=> e.end = "killed")
        BY <4>3 DEF Runs!Recorded, Runs!Records
      <4> HIDE DEF f, Facts
      <4>6. g \in Disks /\ g.state = d.state /\ g.transcript = d.transcript
                        /\ g.record = Runs!Recorded(f)
        BY <2>1, <4>5 DEF Disks
      <4> HIDE DEF g, w, e
      <4>7. /\ w \in Runs!Outcomes /\ (w \in {"PASS", "FAIL"} => ~Spoilt(e))
            /\ w = "PASS" => Runs!Passes(e.graded)
        BY <4>4 DEF Runs!Outcomes
      <4>8. RunTrue(runsHarness, e, s, g, w, b)
        BY <2>1, <3>1, <3>3, <4>4, <4>5, <4>6, <4>7 DEF RunTrue, RunsConstants
      <4> QED
        BY <3>5, <4>2, <4>6, <4>7, <4>8
    <3>7. CASE /\ runsVerdict' = [runsVerdict EXCEPT ![j] = "INCONCLUSIVE"]
               /\ UNCHANGED runsDisk
      <4> HIDE DEF e
      <4>1. RunTrue(runsHarness, e, s, d, "INCONCLUSIVE", b)
        BY <2>1, <3>1, <3>3 DEF RunTrue, RunsConstants, Runs!Outcomes
      <4> QED
        BY <2>1, <2>2, <3>5, <3>7, <4>1 DEF Runs!Outcomes
    <3> QED
      BY <2>11, <3>6, <3>7 DEF Runs!Grade
  <2> QED
    BY <1>5, <2>3, <2>4, <2>5, <2>6, <2>7, <2>8, <2>9, <2>10, <2>11
<1> QED
  BY <1>2, <1>3, <1>4, <1>5 DEF Runs!Next

LEMMA RunsKept ==
  ASSUME RunsInv, UNCHANGED Runs!vars
  PROVE  RunsInv'
BY DEF RunsInv, Runs!vars, Runs!Counts

\* The runs count what everybody counts.
LEMMA SameCount == \A S : Runs!Cardinality(S) = Cardinality(S)
BY DEF Runs!Cardinality, Cardinality

\* The outcomes part the runs.
LEMMA RunsHold ==
  ASSUME RunsConstants, RunsInv
  PROVE  Runs!OnlyMeasurementsCount /\ Runs!ReportsAgree
<1>1. ASSUME NEW j \in RunsJobs
      PROVE  /\ runsAgent[j] \in Agents
             /\ RunTrue(runsHarness, runsAgent[j], runsServer[j], runsDisk[j], runsVerdict[j],
                  runsRebuilt[j])
             /\ runsVerdict[j] \in Runs!Outcomes \cup {NoVerdict}
             /\ runsRebuilt[j] \in Runs!Outcomes \cup {NoVerdict}
  BY DEF RunsInv
<1>2. ASSUME NEW j \in RunsJobs, runsAgent[j].pc = "done"
      PROVE  /\ Runs!Undisturbed(j) => ~Spoilt(runsAgent[j])
             /\ Runs!Overtaken(j) <=> Between(runsAgent[j])
             /\ ~Spoilt(runsAgent[j]) /\ ~Runs!Overtaken(j) => Runs!Undisturbed(j)
  <2> DEFINE a == runsAgent[j]
  <2>1. a.end \in Runs!Ends
    BY <1>1, <1>2 DEF RunTrue, Agents
  <2> QED
    BY <1>1, <2>1 DEF Runs!Undisturbed, Runs!Overtaken, Between, Spoilt, Ungraded, Runs!Ends,
       Agents
<1>3. Runs!OnlyMeasurementsCount
  <2> SUFFICES ASSUME NEW j \in RunsJobs
               PROVE  /\ ~Runs!Overtaken(j) =>
                           (runsVerdict[j] \in {"PASS", "FAIL"}
                             \/ runsRebuilt[j] \in {"PASS", "FAIL"} => Runs!Undisturbed(j))
                      /\ Runs!Overtaken(j) => runsVerdict[j] # "PASS"
                      /\ runsRebuilt[j] = "INCONCLUSIVE" => ~Runs!Undisturbed(j)
    BY DEF Runs!OnlyMeasurementsCount
  <2> DEFINE a == runsAgent[j]
             v == runsVerdict[j]
             b == runsRebuilt[j]
  <2>1. v \in {"PASS", "FAIL"} => a.pc = "done" /\ ~Spoilt(a)
    BY <1>1 DEF RunTrue, Runs!Outcomes
  <2>2. b # NoVerdict => a.pc = "done" /\ (b = "INCONCLUSIVE" <=> Spoilt(a))
    BY <1>1 DEF RunTrue
  <2>3. v = "PASS" => a.graded # NoFile
    BY <1>1 DEF RunTrue, Runs!Passes
  <2>4. Runs!Overtaken(j) => a.graded = NoFile
    BY DEF Runs!Overtaken
  <2> QED
    BY <1>2, <2>1, <2>2, <2>3, <2>4 DEF RunsConstants, Runs!Outcomes
<1>4. \A j \in RunsJobs : runsAgent[j].end # "died" /\ ~Runs!Overtaken(j)
       /\ NoVerdict \notin {runsVerdict[j], runsRebuilt[j]}
        => runsRebuilt[j] = runsVerdict[j]
  <2> SUFFICES ASSUME NEW j \in RunsJobs, runsAgent[j].end # "died", ~Runs!Overtaken(j),
                      runsVerdict[j] # NoVerdict, runsRebuilt[j] # NoVerdict
               PROVE  runsRebuilt[j] = runsVerdict[j]
    OBVIOUS
  <2> DEFINE a == runsAgent[j]
             v == runsVerdict[j]
             b == runsRebuilt[j]
  <2>1. /\ v \in Runs!Outcomes /\ b \in Runs!Outcomes /\ a.pc = "done" /\ a.end \in Runs!Ends
        /\ v \in {"PASS", "FAIL"} => ~Spoilt(a)
        /\ b = "INCONCLUSIVE" <=> Spoilt(a)
        /\ a.end = "clean" /\ ~Between(a) => b = v
    BY <1>1 DEF RunTrue, Agents
  <2>2. a.end # "clean" => Spoilt(a)
    BY <2>1 DEF Runs!Ends, Spoilt, Ungraded
  <2> QED
    BY <1>2, <2>1, <2>2 DEF Runs!Outcomes
<1>5. ASSUME runsHarness = "reported"
      PROVE  /\ runsReport.runs = Cardinality(RunsJobs)
             /\ runsReport.passes + runsReport.fails + runsReport.inconclusive = runsReport.runs
             /\ runsReport.passes <= Cardinality({j \in RunsJobs : Runs!Undisturbed(j)})
  <2> DEFINE Of(outcomes) == {j \in RunsJobs : runsVerdict[j] \in outcomes}
             P == Of({"PASS"})
             F == Of({"FAIL"})
             I == Of({"INCONCLUSIVE"})
             Fine == {j \in RunsJobs : Runs!Undisturbed(j)}
  <2>1. \A j \in RunsJobs : runsAgent[j].pc = "done" /\ runsVerdict[j] \in Runs!Outcomes
    BY <1>1, <1>5 DEF RunsInv, RunTrue
  <2>2. /\ runsReport.runs = Cardinality(Of(Runs!Outcomes))
        /\ runsReport.passes = Cardinality(P)
        /\ runsReport.fails = Cardinality(F) /\ runsReport.inconclusive = Cardinality(I)
    BY <1>5, SameCount DEF RunsInv, Runs!Counts
  <2>3. Of(Runs!Outcomes) = RunsJobs /\ (P \cup F) \cup I = RunsJobs /\ P \cap F = {}
        /\ (P \cup F) \cap I = {} /\ P \subseteq Fine
    BY <1>1, <1>3, <2>1 DEF Runs!Outcomes, Runs!OnlyMeasurementsCount, Runs!Overtaken
  <2>4. IsFiniteSet(RunsJobs)
    BY DEF RunsConstants
  <2>5. P \subseteq RunsJobs /\ F \subseteq RunsJobs /\ I \subseteq RunsJobs
                             /\ Fine \subseteq RunsJobs
    OBVIOUS
  <2> HIDE DEF P, F, I, Fine
  <2>6. IsFiniteSet(P) /\ IsFiniteSet(F) /\ IsFiniteSet(I) /\ IsFiniteSet(Fine)
    BY <2>4, <2>5, FS_Subset
  <2>7. Cardinality(P \cup F) = Cardinality(P) + Cardinality(F) - Cardinality(P \cap F)
        /\ IsFiniteSet(P \cup F)
    BY <2>6, FS_Union
  <2>8. Cardinality((P \cup F) \cup I)
          = Cardinality(P \cup F) + Cardinality(I) - Cardinality((P \cup F) \cap I)
    BY <2>6, <2>7, FS_Union
  <2>9. Cardinality({}) = 0
    BY FS_EmptySet
  <2>10. Cardinality(P) \in Nat /\ Cardinality(F) \in Nat /\ Cardinality(I) \in Nat
    BY <2>6, FS_CardinalityType
  <2>11. Cardinality(P) <= Cardinality(Fine)
    BY <2>3, <2>6, FS_Subset
  <2>12. Cardinality(P) + Cardinality(F) + Cardinality(I) = Cardinality(RunsJobs)
    <3>1. Cardinality(P \cup F) = Cardinality(P) + Cardinality(F) - 0
      BY <2>3, <2>7, <2>9
    <3>2. Cardinality(RunsJobs) = Cardinality(P \cup F) + Cardinality(I) - 0
      BY <2>3, <2>8, <2>9
    <3> QED
      BY <2>10, <3>1, <3>2
  <2>13. runsReport.runs = Cardinality(RunsJobs)
         /\ runsReport.passes + runsReport.fails + runsReport.inconclusive = runsReport.runs
    <3> HIDE DEF Of
    <3> QED
      BY <2>2, <2>3, <2>12
  <2>14. runsReport.passes <= Cardinality(Fine)
    BY <2>2, <2>11
  <2> QED
    BY <2>13, <2>14 DEF Fine
<1> QED
  BY <1>3, <1>4, <1>5, SameCount DEF Runs!ReportsAgree

-----------------------------------------------------------------------------
(* The server                                                              *)

LEMMA InFocus ==
    ASSUME [SystemNext]_everything
    PROVE  /\ UNCHANGED focus
           /\ focus = "calls" => Calling!Next \/ UNCHANGED Calling!vars
           /\ focus = "ports" => Ports!Next \/ UNCHANGED Ports!vars
           /\ focus = "files" => Files!Next \/ UNCHANGED Files!vars
           /\ focus = "selection" => Selection!Next \/ UNCHANGED Selection!vars
           /\ focus = "runs" => Runs!Next \/ UNCHANGED Runs!vars
<1>1. CASE SystemNext
  BY <1>1 DEF SystemNext, Others
<1>2. CASE UNCHANGED everything
  <2>1. UNCHANGED <<focus, callingVars, portsVars, filesVars, selectionVars, runsVars>>
    BY <1>2 DEF everything
  <2> QED
    BY <2>1 DEF callingVars, Calling!vars, portsVars, Ports!vars, filesVars, Files!vars,
       selectionVars, Selection!vars, runsVars, Runs!vars
<1> QED BY <1>1, <1>2

\* A call acts for whom it was made and for nobody else, and what may have written is not
\* sent again.
THEOREM CallsActForTheirCallers == System => []ActsForItsCaller
<1> DEFINE Inv == focus = "calls" => CallsInv
<1>1. SystemInit => Inv
  BY CallsBegin, CallingAssumption DEF SystemInit, CallsConstants
<1>2. Inv /\ [SystemNext]_everything => Inv'
  BY InFocus, CallsStep, CallsKept, CallingAssumption DEF CallsConstants
<1>3. Inv => ActsForItsCaller
  BY CallsHold, CallingAssumption DEF ActsForItsCaller, CallsConstants
<1> QED BY <1>1, <1>2, <1>3, PTL DEF System

\* A sign-in is told that a port answers only if a server of ours does.
THEOREM PortsAreOurs == System => AvailableIsOurs
<1> DEFINE Inv == focus = "ports" => PortsInv
<1>1. SystemInit => Inv
  BY PortsBegin, PortsAssumption DEF SystemInit
<1>2. Inv /\ [SystemNext]_everything => Inv' /\ (focus = "ports" => Ports!OursAnswers)
  BY InFocus, PortsStep, PortsKept, PortsAssumption
<1> QED BY <1>1, <1>2, PTL DEF System, AvailableIsOurs

\* What the command line restricts the server to is all it does, and under permission
\* levels a sign-in is asked for only when it helps.
THEOREM TheModeIsKept == System => []ActsWithinTheMode
<1> DEFINE Inv == focus = "selection" => SelectionInv
<1>1. SystemInit => Inv
  BY SelectionBegin, SelectionAssumption DEF SystemInit
<1>2. Inv /\ [SystemNext]_everything => Inv'
  BY InFocus, SelectionStep, SelectionKept, SelectionAssumption
<1>3. Inv => ActsWithinTheMode
  BY SelectionHolds, SelectionAssumption DEF ActsWithinTheMode
<1> QED BY <1>1, <1>2, <1>3, PTL DEF System

\* A file is there in full as long as its link says; reports count every run, and as
\* measurements those only that nothing disturbed.
THEOREM WhatIsSaidHolds == System => []LinksAndReportsHold
<1> DEFINE Inv == /\ focus = "files" => FilesInv
                  /\ focus = "runs" => RunsInv
<1>1. SystemInit => Inv
  BY FilesBegin, FilesAssumption, RunsBegin, RunsAssumption DEF SystemInit
<1>2. Inv /\ [SystemNext]_everything => Inv'
  BY InFocus, FilesStep, FilesKept, FilesAssumption, RunsStep, RunsKept, RunsAssumption
<1>3. Inv => LinksAndReportsHold
  BY FilesHold, FilesAssumption, RunsHold, RunsAssumption DEF LinksAndReportsHold
<1> QED BY <1>1, <1>2, <1>3, PTL DEF System
=============================================================================
