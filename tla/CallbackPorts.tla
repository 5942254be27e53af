--------------------------- MODULE CallbackPorts ----------------------------
(***************************************************************************)
(* Where the callbacks of a sign-in arrive in stdio mode: every server     *)
(* process picks a port at boot without holding it (auth/port_resolver.py) *)
(* and binds it when a sign-in needs it, or makes do with the listener of  *)
(* another server process (auth/oauth_callback_server.py).                 *)
(***************************************************************************)
EXTENDS Naturals, FiniteSets

CONSTANTS
    Processes, \* server processes of one machine
    Foreign,   \* somebody else's process
    Nobody,    \* the port is free
    MaxPort,   \* ports 0..MaxPort: the preferred one and the fallbacks
    MaxTurns   \* bound on how often the others come and go

Ports == 0..MaxPort
NoPort == MaxPort + 1

VARIABLES
    owner,   \* who listens at a port
    process, \* a server process, and its MinimalOAuthServer
    turns,   \* how often a port changed hands behind the processes' back
    intruded \* processes whose port a foreign process took since they probed it

vars == <<owner, process, turns, intruded>>

\* port: the resolved port; running: is_running; reusing: _reusing_external_listener;
\* thread: server_thread, and what has become of it; pc: where a sign-in that needs the
\* endpoint has got to.
Off == [up |-> FALSE, port |-> NoPort, running |-> FALSE, reusing |-> FALSE,
        thread |-> "none", pc |-> "idle"]

Process == [up : BOOLEAN, port : Ports \cup {NoPort}, running : BOOLEAN, reusing : BOOLEAN,
            thread : {"none", "started", "serving", "dead"},
            pc : {"idle", "probe", "wait", "available", "failed"}]

TypeOK ==
    /\ owner \in [Ports -> Processes \cup {Foreign, Nobody}]
    /\ process \in [Processes -> Process]
    /\ turns \in 0..MaxTurns /\ intruded \subseteq Processes

Init ==
    /\ owner = [n \in Ports |-> Nobody]
    /\ process = [p \in Processes |-> Off]
    /\ turns = 0 /\ intruded = {}

Update(p, rec) == process' = [process EXCEPT ![p] = rec]
Owner(p) == owner[process[p].port]

-----------------------------------------------------------------------------
(* main: resolve_port *)

\* _is_port_free: nobody answers, and it can be bound for a moment.
Free(n) == owner[n] = Nobody

\* The first of the ports nobody listens at.  With none free the process exits.
Boot(p) ==
    /\ ~process[p].up
    /\ \E n \in Ports :
         /\ Free(n) /\ \A m \in 0..(n - 1) : ~Free(m)
         /\ Update(p, [Off EXCEPT !.up = TRUE, !.port = n])
    /\ UNCHANGED <<owner, turns, intruded>>

-----------------------------------------------------------------------------
(* ensure_oauth_callback_available: one sign-in at a time holds the lock *)

\* is_actually_running: not before the first start, not after the thread has ended, and
\* then whether anybody answers at the port.
ActuallyRunning(p) ==
    /\ process[p].running \/ process[p].thread # "none"
    /\ process[p].thread # "dead"
    /\ Owner(p) # Nobody

\* A bug of the kind _callback_endpoint_looks_like_workspace guards against: whoever
\* listens is taken for a server of ours.
LooksLikeAnything(p) == Owner(p) # Nobody

\* The endpoint's answer to a callback without a code is known.
LooksLikeWorkspace(p) == Owner(p) \in Processes

\* Still running is success, without another look at who answers.  A server that was
\* running and is not any more is stopped first: that is what stop leaves of it.
Ensure(p) ==
    /\ process[p].up /\ process[p].pc \in {"idle", "available", "failed"}
    /\ IF ActuallyRunning(p)
       THEN Update(p, [process[p] EXCEPT !.pc = "available"]) /\ UNCHANGED intruded
       ELSE /\ Update(p, [process[p] EXCEPT !.pc = "probe", !.running = FALSE, !.reusing = FALSE,
                                           !.thread = IF process[p].running THEN "none" ELSE @])
            /\ intruded' = intruded \ {p}
    /\ UNCHANGED <<owner, turns>>

\* start: the port is bound and released again; an occupied one is reused when it looks
\* like a server of ours, else a thread is started that is to bind it.
Probe(p) ==
    /\ process[p].pc = "probe"
    /\ Update(p, IF Owner(p) = Nobody
                 THEN [process[p] EXCEPT !.reusing = FALSE, !.thread = "started", !.pc = "wait"]
                 ELSE IF LooksLikeWorkspace(p)
                 THEN [process[p] EXCEPT !.running = TRUE, !.reusing = TRUE, !.pc = "available"]
                 ELSE [process[p] EXCEPT !.pc = "failed"])
    /\ UNCHANGED <<owner, turns, intruded>>

\* uvicorn binds the port, or finds it taken and exits: the thread ends, and is_running
\* is left as it is.
Bind(p) ==
    /\ process[p].up /\ process[p].thread = "started"
    /\ IF Owner(p) = Nobody
       THEN /\ owner' = [owner EXCEPT ![process[p].port] = p]
            /\ Update(p, [process[p] EXCEPT !.thread = "serving"])
       ELSE /\ UNCHANGED owner
            /\ Update(p, [process[p] EXCEPT !.thread = "dead"])
    /\ UNCHANGED <<turns, intruded>>

\* The wait for somebody to answer at the port, whoever it is, or for three seconds.
Connect(p) ==
    /\ process[p].pc = "wait"
    /\ \/ /\ Owner(p) # Nobody
          /\ Update(p, [process[p] EXCEPT !.running = TRUE, !.pc = "available"])
       \/ Update(p, [process[p] EXCEPT !.pc = "failed"])
    /\ UNCHANGED <<owner, turns, intruded>>

\* cleanup_oauth_callback_server at exit, or a crash: the process's own listener goes.
Exit(p) ==
    /\ process[p].up
    /\ turns < MaxTurns /\ turns' = turns + 1
    /\ owner' = [n \in Ports |-> IF owner[n] = p THEN Nobody ELSE owner[n]]
    /\ Update(p, Off)
    /\ intruded' = intruded \ {p}

-----------------------------------------------------------------------------
(* Everybody else *)

Takes(n) ==
    /\ turns < MaxTurns /\ turns' = turns + 1
    /\ owner[n] = Nobody
    /\ owner' = [owner EXCEPT ![n] = Foreign]
    /\ intruded' = intruded \cup {p \in Processes : process[p].port = n}
    /\ UNCHANGED process

Leaves(n) ==
    /\ owner[n] = Foreign
    /\ owner' = [owner EXCEPT ![n] = Nobody]
    /\ UNCHANGED <<process, turns, intruded>>

Next ==
    \/ \E p \in Processes :
         Boot(p) \/ Ensure(p) \/ Probe(p) \/ Bind(p) \/ Connect(p) \/ Exit(p)
    \/ \E n \in Ports : Takes(n) \/ Leaves(n)

Spec == Init /\ [][Next]_vars

-----------------------------------------------------------------------------
(* Properties *)

\* "must not be mistaken for our OAuth server": when a sign-in is told that the endpoint
\* is available, whoever answers there is a server of ours, its own or another's, unless
\* a foreign process has taken the port since this process probed it.
OursAnswers ==
    \A p \in Processes :
        /\ process[p].pc # "available" /\ process'[p].pc = "available"
        /\ p \notin intruded
        => owner'[process'[p].port] \in Processes

AvailableIsOurs == [][OursAnswers]_vars

\* "a foreign process listening on the same port must not be mistaken for our OAuth
\* server", as is_actually_running says: without an exception.
NeverMistaken ==
    [][\A p \in Processes :
         process[p].pc # "available" /\ process'[p].pc = "available"
         => owner'[process'[p].port] \in Processes]_vars
=============================================================================
