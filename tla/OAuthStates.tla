---------------------------- MODULE OAuthStates -----------------------------
(***************************************************************************)
(* auth/oauth21_session_store.py: the OAuth states of the sign-ins under   *)
(* way.  Each server process keeps them in memory and in one JSON file     *)
(* that all processes share, because the browser may come back to another  *)
(* process than the one that sent it out.                                  *)
(*                                                                         *)
(* A call holds the process's RLock throughout, so a process has one call  *)
(* at a time.  It opens the file, takes an exclusive flock, reads, changes *)
(* its copy, truncates the file, dumps the copy into it, unlocks and       *)
(* returns.  Other processes run, and any of them may crash, between two   *)
(* of these steps.  When the dump raises, the file is unlocked first and   *)
(* closed afterwards, and closing tries again to write what flush could    *)
(* not: that write is not covered by the lock.                             *)
(***************************************************************************)
EXTENDS Naturals, TLC

CONSTANTS
    Procs,          \* the server processes that share the file
    States,         \* values of os.urandom(16).hex()
    Sessions,       \* MCP sessions
    NoSession,      \* the flow was started, or is answered, outside a session
    NoState, NoProc,
    Lifetime,       \* expires_in_seconds
    MaxNow,         \* bound on the clock
    MaxCallbacks    \* bound on the callbacks that reach the server

ASSUME StatesAssumption ==
    /\ NoState \notin States /\ NoProc \notin Procs /\ NoSession \notin Sessions
    /\ Lifetime \in Nat /\ MaxNow \in Nat /\ MaxCallbacks \in Nat

VARIABLES
    now,        \* the clock
    file,       \* the entries the shared file holds
    torn,       \* the file is not JSON: a dump was cut short
    holder,     \* the process that holds the flock, or NoProc
    step,       \* where the call of each process is
    request,    \* what it was called with
    copy,       \* the entries it is going to write
    answer,     \* the entry it popped, as a set of at most one
    memory,     \* _oauth_states of each process
    issued,     \* history: states generated
    stored,     \* history: states that reached the file
    redeemed,   \* history: states popped from the file
    resets,     \* history: how often the contents of the file were lost or replaced
    disturbed,  \* history: processes that rely on a file since written without the lock
    told,       \* history: number of calls that returned the entry of a state
    callbacks   \* how many callbacks there have been

call == <<step, request, copy, answer>>
history == <<stored, redeemed, resets, disturbed>>
vars == <<now, file, torn, holder, call, memory, issued, history, told, callbacks>>

SomeSession == Sessions \cup {NoSession}
Entries == [state : States, session : SomeSession, created : Nat, expires : Nat]
Critical == {"locked", "loaded", "truncated", "done", "failed", "cut"}
Steps == {"idle", "open", "closing"} \cup Critical
Requests == [op : {"none", "store", "validate", "latest"}, any : BOOLEAN,
             state : States \cup {NoState}, session : SomeSession]
NoRequest == [op |-> "none", any |-> FALSE, state |-> NoState, session |-> NoSession]

Init ==
    /\ now = 0 /\ file = {} /\ torn = FALSE /\ holder = NoProc
    /\ step = [p \in Procs |-> "idle"]
    /\ request = [p \in Procs |-> NoRequest]
    /\ copy = [p \in Procs |-> {}]
    /\ answer = [p \in Procs |-> {}]
    /\ memory = [p \in Procs |-> {}]
    /\ issued = {} /\ stored = {} /\ redeemed = {} /\ resets = 0 /\ disturbed = {}
    /\ told = [s \in States |-> 0]
    /\ callbacks = 0

-----------------------------------------------------------------------------
(* A call begins: it takes _lock and forgets what has expired in memory.   *)

Alive(entries) == {e \in entries : e.expires > now}

Called(p, r) ==
    /\ step[p] = "idle"
    /\ step' = [step EXCEPT ![p] = "open"]
    /\ request' = [request EXCEPT ![p] = r]
    /\ UNCHANGED <<now, file, torn, holder, copy, answer, history, told>>

\* store_oauth_state, of a state nobody generated before.
Store(p, s, session) ==
    /\ s \in States \ issued
    /\ issued' = issued \cup {s}
    /\ memory' = [memory EXCEPT ![p] = Alive(@) \cup
          {[state |-> s, session |-> session, created |-> now,
            expires |-> now + Lifetime]}]
    /\ Called(p, [op |-> "store", any |-> FALSE, state |-> s, session |-> session])
    /\ UNCHANGED callbacks

\* validate_and_consume_oauth_state, of any value a callback may carry.  The
\* browser is sent out before the state is stored, so it may come back early.
Validate(p, s, session) ==
    /\ callbacks < MaxCallbacks /\ callbacks' = callbacks + 1
    /\ memory' = [memory EXCEPT ![p] = Alive(@)]
    /\ Called(p, [op |-> "validate", any |-> FALSE, state |-> s, session |-> session])
    /\ UNCHANGED issued

\* consume_latest_oauth_state, for a callback without a state: of one session, of
\* flows started outside a session, or (allow_any_session) of any flow.
ConsumeLatest(p, session, any) ==
    /\ callbacks < MaxCallbacks /\ callbacks' = callbacks + 1
    /\ memory' = [memory EXCEPT ![p] = Alive(@)]
    /\ Called(p, [op |-> "latest", any |-> any, state |-> NoState, session |-> session])
    /\ UNCHANGED issued

-----------------------------------------------------------------------------
(* _update_shared_oauth_states.                                            *)

\* Mutant: the platform has no flock, and nothing takes its place.
Acquire_Unlocked(p) ==
    /\ step[p] = "open" /\ holder' = p
    /\ step' = [step EXCEPT ![p] = "locked"]
    /\ UNCHANGED <<now, file, torn, request, copy, answer, memory, issued, history,
                   told, callbacks>>

Acquire(p) ==
    /\ step[p] = "open" /\ holder = NoProc
    /\ holder' = p
    /\ step' = [step EXCEPT ![p] = "locked"]
    /\ UNCHANGED <<now, file, torn, request, copy, answer, memory, issued, history,
                   told, callbacks>>

\* Mutant: a state the file lacks is looked up in memory.
Loaded_WithMemory(p) == Alive(IF torn THEN memory[p] ELSE file \cup memory[p])

\* What the file holds for the reader: nothing when it is not JSON.
Loaded(p) == IF torn THEN {} ELSE Alive(file)

\* The entry store_oauth_state built, which it keeps in memory too.
Added(p) ==
    IF request[p].op = "store"
    THEN {e \in memory[p] : e.state = request[p].state} ELSE {}

Matching(r, entries) ==
    {e \in entries : (r.any /\ r.session = NoSession) \/ e.session = r.session}

\* The entries the mutator may pop: the state's own, or the newest that match.
Candidates(r, entries) ==
    {e \in entries :
        \/ r.op = "validate" /\ e.state = r.state
        \/ /\ r.op = "latest" /\ e \in Matching(r, entries)
           /\ \A f \in Matching(r, entries) : f.created <= e.created}

Popped(r, entries) ==
    IF Candidates(r, entries) = {} THEN {{}}
    ELSE {{e} : e \in Candidates(r, entries)}

\* Mutant: the file is rewritten only when something expired.
Dirty_CleanedOnly(p, popped) == torn \/ Loaded(p) # file

\* cleaned_expired or mutated.
Dirty(p, popped) ==
    torn \/ Loaded(p) # file \/ popped # {} \/ request[p].op = "store"

Load(p) ==
    /\ step[p] = "locked"
    /\ \E popped \in Popped(request[p], Loaded(p)) :
          /\ answer' = [answer EXCEPT ![p] = popped]
          /\ copy' = [copy EXCEPT ![p] = (Loaded(p) \ popped) \cup Added(p)]
          /\ step' = [step EXCEPT ![p] = IF Dirty(p, popped) THEN "loaded" ELSE "done"]
    /\ UNCHANGED <<now, file, torn, holder, request, memory, issued, history, told,
                   callbacks>>

\* What was written without the lock since p read the file is lost now.
Displaced(p) ==
    /\ resets' = IF p \in disturbed THEN resets + 1 ELSE resets
    /\ UNCHANGED <<stored, redeemed, disturbed>>

Truncate(p) ==
    /\ step[p] = "loaded"
    /\ file' = {} /\ torn' = FALSE
    /\ step' = [step EXCEPT ![p] = "truncated"]
    /\ Displaced(p)
    /\ UNCHANGED <<now, holder, request, copy, answer, memory, issued, told, callbacks>>

StatesOf(entries) == {e.state : e \in entries}

\* Mutant: the copy goes to the end of what is there.
Rewritten_Appends(p) ==
    /\ file' = copy[p] /\ UNCHANGED torn
    /\ stored' = stored \cup StatesOf(Added(p))
    /\ redeemed' = redeemed \cup StatesOf(answer[p])

\* The copy of p is the file.
Rewritten(p) ==
    /\ file' = copy[p] /\ torn' = FALSE
    /\ stored' = stored \cup StatesOf(Added(p))
    /\ redeemed' = redeemed \cup StatesOf(answer[p])

\* All of the dump reaches the file ...
Written(p) == Rewritten(p) /\ UNCHANGED <<resets, disturbed>>

\* ... or it does, but leaves the end of a longer text that came there since ...
Mixed(p) ==
    /\ file # {} \/ torn
    /\ file' = {} /\ torn' = TRUE
    /\ redeemed' = redeemed \cup StatesOf(answer[p])
    /\ resets' = resets + 1
    /\ UNCHANGED <<stored, disturbed>>

\* ... or only a beginning of it, or nothing.
Lost ==
    /\ \/ file' = {} /\ torn' = TRUE
       \/ UNCHANGED <<file, torn>>
    /\ resets' = resets + 1
    /\ UNCHANGED <<stored, redeemed>>

\* json.dump, flush and fsync return.
Dump(p) ==
    /\ step[p] = "truncated"
    /\ Written(p) \/ Mixed(p)
    /\ step' = [step EXCEPT ![p] = "done"]
    /\ UNCHANGED <<now, holder, request, copy, answer, memory, issued, told, callbacks>>

\* fsync raises: the data is there all the same.
FailSync(p) ==
    /\ step[p] = "truncated"
    /\ Written(p) \/ Mixed(p)
    /\ step' = [step EXCEPT ![p] = "failed"]
    /\ UNCHANGED <<now, holder, request, copy, answer, memory, issued, told, callbacks>>

\* json.dump or flush raises: what did not reach the file stays in the buffer.
FailDump(p) ==
    /\ step[p] = "truncated"
    /\ Lost /\ UNCHANGED disturbed
    /\ step' = [step EXCEPT ![p] = "cut"]
    /\ UNCHANGED <<now, holder, request, copy, answer, memory, issued, told, callbacks>>

-----------------------------------------------------------------------------
(* A call ends.                                                            *)

\* The process has no call any more.
Ended(p) ==
    /\ step' = [step EXCEPT ![p] = "idle"]
    /\ request' = [request EXCEPT ![p] = NoRequest]
    /\ copy' = [copy EXCEPT ![p] = {}]
    /\ answer' = [answer EXCEPT ![p] = {}]

\* Nothing but that changes in the history.
Forgotten(p) ==
    /\ disturbed' = disturbed \ {p}
    /\ UNCHANGED <<stored, redeemed, resets>>

\* What stays in memory when the update of the file returned.
Remembered(p) ==
    CASE request[p].op = "validate" -> {e \in memory[p] : e.state # request[p].state}
      [] request[p].op = "latest" /\ answer[p] = {} -> {}
      [] OTHER -> {e \in memory[p] : e.state \notin StatesOf(answer[p])}

\* A callback of another session than the one that began the flow gets an error
\* instead of the entry, which is consumed all the same.
Mismatch(r, e) ==
    /\ r.op = "validate"
    /\ e.session # NoSession /\ r.session # NoSession /\ e.session # r.session

Finish(p) ==
    /\ step[p] = "done"
    /\ holder' = NoProc
    /\ memory' = [memory EXCEPT ![p] = Remembered(p)]
    /\ told' = [s \in States |->
          IF \E e \in answer[p] : e.state = s /\ ~Mismatch(request[p], e)
          THEN told[s] + 1 ELSE told[s]]
    /\ Ended(p) /\ Forgotten(p)
    /\ UNCHANGED <<now, file, torn, issued, callbacks>>

\* Mutant: the file is unlocked after a dump that returned only.
Raise_KeepsLock(p) ==
    /\ step[p] = "failed"
    /\ Ended(p) /\ Forgotten(p)
    /\ UNCHANGED <<now, file, torn, holder, memory, issued, told, callbacks>>

\* The exception of a failed fsync leaves through the finally that unlocks.
Raise(p) ==
    /\ step[p] = "failed"
    /\ holder' = NoProc
    /\ Ended(p) /\ Forgotten(p)
    /\ UNCHANGED <<now, file, torn, memory, issued, told, callbacks>>

\* So does that of a dump cut short, and the rest is still in the buffer ...
Unlock(p) ==
    /\ step[p] = "cut"
    /\ holder' = NoProc
    /\ step' = [step EXCEPT ![p] = "closing"]
    /\ UNCHANGED <<now, file, torn, request, copy, answer, memory, issued, history,
                   told, callbacks>>

\* Processes that hold the lock and have read the file.
Relying == {q \in Procs : step[q] \in {"loaded", "truncated", "done"}}

WrittenLate(p) ==
    /\ \/ Rewritten(p)
       \/ file' = {} /\ torn' = TRUE /\ UNCHANGED <<stored, redeemed>>
    /\ resets' = resets + 1
    /\ disturbed' = (disturbed \cup Relying) \ {p}

\* ... which the with statement writes when it closes the file: all of it, or so
\* that no JSON results, or nothing because the disk is still full.
Close(p) ==
    /\ step[p] = "closing"
    /\ WrittenLate(p) \/ (Forgotten(p) /\ UNCHANGED <<file, torn>>)
    /\ Ended(p)
    /\ UNCHANGED <<now, holder, memory, issued, told, callbacks>>

\* The file cannot be opened.
FailOpen(p) ==
    /\ step[p] = "open"
    /\ Ended(p) /\ Forgotten(p)
    /\ UNCHANGED <<now, file, torn, holder, memory, issued, told, callbacks>>

\* The process dies and is restarted: the system drops its flock.
Crash(p) ==
    /\ IF step[p] = "truncated" THEN Lost
       ELSE UNCHANGED <<file, torn, stored, redeemed, resets>>
    /\ disturbed' = disturbed \ {p}
    /\ holder' = IF holder = p THEN NoProc ELSE holder
    /\ memory' = [memory EXCEPT ![p] = {}]
    /\ Ended(p)
    /\ UNCHANGED <<now, issued, told, callbacks>>

Tick ==
    /\ now < MaxNow /\ now' = now + 1
    /\ UNCHANGED <<file, torn, holder, call, memory, issued, history, told, callbacks>>

Advance(p) ==
    \/ Acquire(p) \/ Load(p) \/ Truncate(p) \/ Dump(p)
    \/ Finish(p) \/ Raise(p) \/ Unlock(p) \/ Close(p)

Begin(p) ==
    \/ \E session \in SomeSession :
        \/ \E s \in States : Store(p, s, session) \/ Validate(p, s, session)
        \/ ConsumeLatest(p, session, FALSE)
    \/ ConsumeLatest(p, NoSession, TRUE)

Next ==
    \/ Tick
    \/ \E p \in Procs :
          \/ Begin(p) \/ Advance(p)
          \/ FailSync(p) \/ FailDump(p) \/ FailOpen(p) \/ Crash(p)

\* A call that was begun runs on: nothing in it waits for a caller.  The flock is
\* the only wait, and with finitely many calls it is not taken for ever.
Fairness == \A p \in Procs : WF_vars(Advance(p))

Spec == Init /\ [][Next]_vars /\ Fairness

-----------------------------------------------------------------------------
(* Properties.                                                             *)

TypeOK ==
    /\ now \in Nat /\ resets \in Nat /\ callbacks \in Nat
    /\ file \in SUBSET Entries
    /\ torn \in BOOLEAN /\ (torn => file = {})
    /\ holder \in Procs \cup {NoProc}
    /\ step \in [Procs -> Steps]
    /\ request \in [Procs -> Requests]
    /\ copy \in [Procs -> SUBSET Entries]
    /\ answer \in [Procs -> SUBSET Entries]
    /\ memory \in [Procs -> SUBSET Entries]
    /\ issued \in SUBSET States /\ stored \in SUBSET States
    /\ redeemed \in SUBSET States /\ disturbed \in SUBSET Procs
    /\ told \in [States -> Nat]

\* A state completes at most one sign-in: whatever processes, callbacks, fallbacks,
\* failed writes and crashes there are, one call returns its entry at most once.
AnsweredOnce == \A s \in States : told[s] <= 1

\* What a call is about to tell its caller is so: a state it stored is in the
\* file, one it popped is not, when it found none there is none to be found, and
\* the newest it took is the newest there is.  A process that read the file while
\* another rewrites it would break this; so does one that writes without the lock,
\* which is left to StoredIsPersistent.
OutcomeIsTrue ==
    \A p \in Procs \ disturbed : step[p] = "done" =>
        /\ Added(p) \subseteq file
        /\ answer[p] \cap file = {}
        /\ request[p].op = "validate" /\ answer[p] = {} =>
              request[p].state \notin StatesOf(Alive(file))
        /\ request[p].op = "latest" /\ answer[p] = {} =>
              Matching(request[p], Alive(file)) = {}
        /\ request[p].op = "latest" =>
              \A e \in answer[p], f \in Matching(request[p], Alive(file)) :
                 f.created <= e.created

\* What the docstring of store_oauth_state says: a state it stored is persisted.
StoredIsPersistent == \A p \in Procs : step[p] = "done" => Added(p) \subseteq file

\* The entries that can still be redeemed: those of the file or, while it is
\* being rewritten, those the writer read.
Pending ==
    IF \E p \in Procs : step[p] = "truncated"
    THEN LET p == CHOOSE q \in Procs : step[q] = "truncated"
         IN (copy[p] \ Added(p)) \cup answer[p]
    ELSE file

\* The file, its lock and its rewriting amount to an atomic registry: no update
\* of one process is lost to another, no state comes back once it was redeemed,
\* and none disappears except by expiry or with the whole file.
Registry == INSTANCE OAuthStateRegistry WITH pending <- Pending, entered <- stored
RegistrySpec == Registry!Spec

\* Every call ends, whoever else crashed or failed while holding the lock.
CallsEnd == \A p \in Procs : step[p] # "idle" ~> step[p] = "idle"

-----------------------------------------------------------------------------
(* What the runs reduce the states by.                                     *)

\* What the future of a state depends on: of what a process remembers, only the
\* entry its call is storing is ever read; that there was an accident is a matter of
\* the step, not of how many there were.
ReadAgain ==
    <<now, file, torn, holder, call, [p \in Procs |-> Added(p)], issued, stored,
      redeemed, disturbed, told, callbacks>>

\* No formula names a process or a state.
Alike == Permutations(Procs) \cup Permutations(States)
=============================================================================
