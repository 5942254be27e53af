----------------------------- MODULE WriteQuota -----------------------------
(***************************************************************************)
(* The pacing of writes in the end-to-end suite (e2e/quota.py): the        *)
(* processes that drive one account share a log of what they have spent in *)
(* the last minute, take their share of the budget under a lock of the     *)
(* file before each write, and try again when the service says 429.        *)
(***************************************************************************)
EXTENDS Naturals, SequencesExt

CONSTANTS
    Processes, \* the processes that share the account
    Costs,     \* what calls cost
    Budget,    \* the budget of a window
    MinBudget, \* what it is never shrunk below
    Window,    \* the length of the window, in ticks
    Patience,  \* passes of acquire before it spends anyway
    Attempts,  \* attempts of a call
    MaxSpent,  \* bound on what is spent in a window
    Nobody     \* the lock is free

VARIABLES
    log,    \* the shared file: what was spent, oldest first, with its age
    lock,   \* who holds the file
    usable, \* whether a process still uses the file
    local,  \* the window a process remembers
    limit,  \* the budget a process goes by
    call,   \* the call a process is making
    spent,  \* what was spent really, and by whom
    waived  \* why the budget need not have been kept

\* Bound: one kind of trouble at a time.
Waive(reasons) == waived \subseteq reasons /\ waived' = waived \cup reasons

vars == <<log, lock, usable, local, limit, call, spent, waived>>

\* tries: passes of acquire; attempt: of the call; wait: ticks left to sleep; kept: the log
\* as it was read under the lock.
Idle == [pc |-> "idle", cost |-> 0, tries |-> 0, attempt |-> 0, wait |-> 0, kept |-> <<>>]
Stages == {"idle", "acquire", "truncate", "write", "invoke", "limited"}

Sum(s) == FoldLeft(LAMBDA n, e : n + e.cost, 0, s)
Own(p) == SelectSeq(spent, LAMBDA e : e.by = p)

TypeOK ==
    /\ lock \in Processes \cup {Nobody}
    /\ usable \in [Processes -> BOOLEAN]
    /\ \A p \in Processes : /\ limit[p] \in MinBudget..Budget
                            /\ call[p].pc \in Stages /\ call[p].wait \in 0..Window
                            /\ call[p].tries \in 0..Patience /\ call[p].attempt \in 0..Attempts
    /\ \A i \in DOMAIN log : log[i].age < Window /\ log[i].cost \in Costs
    /\ waived \subseteq {"patience", "crash", "store"}

Init ==
    /\ log = <<>> /\ lock = Nobody
    /\ usable = [p \in Processes |-> TRUE]
    /\ local = [p \in Processes |-> <<>>]
    /\ limit = [p \in Processes |-> Budget]
    /\ call = [p \in Processes |-> Idle]
    /\ spent = <<>> /\ waived = {}

-----------------------------------------------------------------------------
(* WriteWindow *)

Spend(cost) == [age |-> 0, cost |-> cost]

\* delay_until_capacity: how long until cost fits; a cost of the whole budget waits for
\* the oldest entry to go.
Delay(entries, cost, most) ==
    CASE entries = <<>> -> 0
      [] entries # <<>> /\ cost >= most -> Window - entries[1].age
      [] entries # <<>> /\ cost < most /\ Sum(entries) + cost <= most -> 0
      [] OTHER ->
           LET enough == {n \in DOMAIN entries :
                            Sum(SubSeq(entries, n + 1, Len(entries))) + cost <= most}
           IN Window - entries[CHOOSE n \in enough : \A m \in enough : n <= m].age

\* What happens to entries and sleepers when time passes.
Aged(s) ==
    SelectSeq([i \in DOMAIN s |-> [s[i] EXCEPT !.age = @ + 1]], LAMBDA e : e.age < Window)
Tick ==
    /\ lock = Nobody
    /\ \E p \in Processes : call[p].wait > 0 \/ local[p] # <<>>
    /\ log' = Aged(log) /\ spent' = Aged(spent)
    /\ local' = [p \in Processes |-> Aged(local[p])]
    /\ call' = [p \in Processes |-> [call[p] EXCEPT !.wait = IF @ > 0 THEN @ - 1 ELSE 0]]
    /\ UNCHANGED <<lock, usable, limit, waived>>

-----------------------------------------------------------------------------
(* WritePacer.acquire and WindowStore.reserve *)

Start(p) ==
    /\ call[p].pc = "idle"
    /\ \E cost \in Costs :
         call' = [call EXCEPT ![p] = [Idle EXCEPT !.pc = "acquire", !.cost = cost, !.attempt = 1]]
    /\ UNCHANGED <<log, lock, usable, local, limit, spent, waived>>

Ready(p) == call[p].pc = "acquire" /\ call[p].wait = 0
Forced(p) == call[p].tries = Patience

\* A bug of the kind the check guards against: the capacity is read under a shared lock.
LockAsReader(p) ==
    /\ Ready(p) /\ usable[p]
    /\ LET delay == IF Forced(p) THEN 0 ELSE Delay(log, call[p].cost, limit[p])
       IN call' = [call EXCEPT ![p] =
                     IF delay = 0 THEN [@ EXCEPT !.pc = "truncate", !.kept = log]
                     ELSE [@ EXCEPT !.wait = delay, !.tries = @ + 1]]
    /\ lock' = IF call'[p].pc = "truncate" THEN p ELSE lock
    /\ IF Forced(p) THEN Waive({"patience"}) ELSE waived' = waived
    /\ UNCHANGED <<log, usable, local, limit, spent>>

\* The capacity is read under the exclusive lock: there is none, and the process sleeps, or
\* it goes on to take it.
Lock(p) ==
    /\ Ready(p) /\ usable[p] /\ lock = Nobody
    /\ LET delay == IF Forced(p) THEN 0 ELSE Delay(log, call[p].cost, limit[p])
       IN /\ call' = [call EXCEPT ![p] =
                        IF delay = 0 THEN [@ EXCEPT !.pc = "truncate", !.kept = log]
                        ELSE [@ EXCEPT !.wait = delay, !.tries = @ + 1]]
          /\ lock' = IF delay = 0 THEN p ELSE lock
          /\ local' = IF delay > 0 /\ log # <<>> THEN [local EXCEPT ![p] = log] ELSE local
    /\ IF Forced(p) THEN Waive({"patience"}) ELSE waived' = waived
    /\ UNCHANGED <<log, usable, limit, spent>>

\* The file is emptied, then written.
Truncate(p) ==
    /\ call[p].pc = "truncate"
    /\ log' = <<>>
    /\ call' = [call EXCEPT ![p].pc = "write"]
    /\ UNCHANGED <<lock, usable, local, limit, spent, waived>>
Paid(p) ==
    /\ Sum(spent) + call[p].cost <= MaxSpent
    /\ spent' = Append(spent, [age |-> 0, cost |-> call[p].cost, by |-> p])
Goes(p) == call' = [call EXCEPT ![p] = [@ EXCEPT !.pc = "invoke", !.tries = 0, !.kept = <<>>]]
Write(p) ==
    /\ call[p].pc = "write"
    /\ log' = Append(call[p].kept, Spend(call[p].cost))
    /\ local' = [local EXCEPT ![p] = Append(call[p].kept, Spend(call[p].cost))]
    /\ lock' = Nobody
    /\ Paid(p) /\ Goes(p)
    /\ UNCHANGED <<usable, limit, waived>>

\* A file that cannot be read or written is given up; the write is admitted, and so is
\* every later one.
StoreFails(p) ==
    /\ Ready(p)
    /\ usable[p] => lock = Nobody
    /\ usable' = [usable EXCEPT ![p] = FALSE]
    /\ local' = [local EXCEPT ![p] = Append(@, Spend(call[p].cost))]
    /\ Waive({"store"})
    /\ Paid(p) /\ Goes(p)
    /\ UNCHANGED <<log, lock, limit>>

\* A process is killed; the lock of its file goes with it.
Killed(p) ==
    /\ call[p].pc \in {"truncate", "write"}
    /\ call' = [call EXCEPT ![p] = Idle] /\ lock' = Nobody
    /\ local' = [local EXCEPT ![p] = <<>>]
    /\ limit' = [limit EXCEPT ![p] = Budget]
    /\ Waive({"crash"})
    /\ UNCHANGED <<log, usable, spent>>

-----------------------------------------------------------------------------
(* QuotaGuard.call *)

\* An answer that is no 429 ends the call.
Answered(p) ==
    /\ call[p].pc = "invoke"
    /\ call' = [call EXCEPT ![p] = Idle]
    /\ UNCHANGED <<log, lock, usable, local, limit, spent, waived>>

\* note_rate_limit shrinks the budget; after the last attempt the call is given up.
Shrunk(n) == IF (n * 8) \div 10 > MinBudget THEN (n * 8) \div 10 ELSE MinBudget
RateLimited(p) ==
    /\ call[p].pc = "invoke"
    /\ limit' = [limit EXCEPT ![p] = IF Shrunk(@) < @ THEN Shrunk(@) ELSE @]
    /\ call' = [call EXCEPT ![p] = IF @.attempt = Attempts THEN Idle ELSE [@ EXCEPT !.pc = "limited"]]
    /\ UNCHANGED <<log, lock, usable, local, spent, waived>>

\* backoff_delay: at least what the window asks for; the curve and the service may make it
\* longer.
Backoffs(least) == {n \in 0..Window : n >= least}

\* _wait: the file is read under a shared lock.
BackOff(p) ==
    /\ call[p].pc = "limited"
    /\ usable[p] => lock = Nobody
    /\ LET seen == IF usable[p] /\ log # <<>> THEN log ELSE local[p]
       IN /\ local' = [local EXCEPT ![p] = seen]
          /\ \E wait \in Backoffs(Delay(seen, call[p].cost, limit[p])) :
               call' = [call EXCEPT ![p] = [@ EXCEPT !.pc = "acquire", !.attempt = @ + 1, !.wait = wait]]
    /\ UNCHANGED <<log, lock, usable, limit, spent, waived>>

Next ==
    \/ Tick
    \/ \E p \in Processes :
         \/ Start(p) \/ Lock(p) \/ Truncate(p) \/ Write(p) \/ StoreFails(p) \/ Killed(p)
         \/ Answered(p) \/ RateLimited(p) \/ BackOff(p)

Spec == Init /\ [][Next]_vars

-----------------------------------------------------------------------------
(* Properties *)

\* The processes together never spend more than the budget in a window, unless one has
\* lost its patience or the file, or was killed while it wrote it.
BudgetIsShared == waived = {} => Sum(spent) <= Budget

\* "a corrupt or unwritable state file degrades to in-memory-only pacing": without the file
\* each process still keeps to the budget by itself.
PacedWithoutTheFile == waived \subseteq {"store"} => \A p \in Processes : Sum(Own(p)) <= Budget
=============================================================================
