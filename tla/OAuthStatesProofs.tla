------------------------- MODULE OAuthStatesProofs --------------------------
(* Theorems about OAuthStates for every value of its constants. *)
EXTENDS OAuthStates, WellFoundedInduction, TLAPS

-----------------------------------------------------------------------------
(* The newest entry. *)

\* Among entries none of which is from the future, some are newest: max() over a
\* list that is not empty has a value.
LEMMA NewestExists ==
  ASSUME NEW S \in SUBSET Entries, S # {}, NEW m \in Nat,
         \A e \in S : e.created <= m
  PROVE  \E e \in S : \A f \in S : f.created <= e.created
<1> DEFINE R == OpToRel(<, Nat)
           ages == {m - e.created : e \in S}
<1>1. ages \subseteq Nat /\ ages # {}
  BY DEF Entries
<1>2. IsWellFoundedOn(R, Nat)
  BY NatLessThanWellFounded
<1>3. \A x, y \in Nat : x < y => <<x, y>> \in R
  BY DEF OpToRel
<1> HIDE DEF R, ages
<1>4. \E x \in ages : \A y \in ages : ~ (<<y, x>> \in R)
  BY <1>1, <1>2, WFMin
<1>5. PICK x \in ages : \A y \in ages : ~ (y < x)
  BY <1>1, <1>3, <1>4
<1>6. PICK e \in S : x = m - e.created
  BY DEF ages
<1>7. \A f \in S : ~ (m - f.created < m - e.created)
  BY <1>5, <1>6 DEF ages
<1> QED
  BY <1>6, <1>7 DEF Entries

-----------------------------------------------------------------------------
(* The type invariant. *)

\* What the mutator pops was there.
LEMMA PoppedType ==
  ASSUME NEW r, NEW entries, NEW popped \in Popped(r, entries)
  PROVE  popped \subseteq entries
  BY DEF Popped, Candidates

\* Steps of a call keep the types.
LEMMA BeginType ==
  ASSUME TypeOK, NEW p \in Procs, Begin(p)
  PROVE  TypeOK'
<1>1. ASSUME NEW r \in Requests, Called(p, r) PROVE
        /\ step' \in [Procs -> Steps] /\ request' \in [Procs -> Requests]
        /\ UNCHANGED <<now, file, torn, holder, copy, answer, history, told>>
  BY <1>1 DEF Called, TypeOK, Steps
<1>2. \A entries \in SUBSET Entries : Alive(entries) \in SUBSET Entries
  BY DEF Alive
<1>3. ASSUME NEW session \in SomeSession, NEW s \in States, Store(p, s, session)
      PROVE  TypeOK'
  <2> DEFINE e == [state |-> s, session |-> session, created |-> now,
                   expires |-> now + Lifetime]
  <2>1. e \in Entries
    BY StatesAssumption DEF Entries, TypeOK
  <2>2. memory' = [memory EXCEPT ![p] = Alive(@) \cup {e}]
    BY <1>3 DEF Store
  <2> HIDE DEF e
  <2>3. memory' \in [Procs -> SUBSET Entries]
    BY <1>2, <2>1, <2>2 DEF TypeOK
  <2>4. [op |-> "store", any |-> FALSE, state |-> s, session |-> session] \in Requests
    BY DEF Requests
  <2> QED
    BY <1>1, <1>3, <2>3, <2>4 DEF Store, TypeOK, history
<1>4. ASSUME NEW session \in SomeSession, NEW s \in States, Validate(p, s, session)
      PROVE  TypeOK'
  <2>1. memory' \in [Procs -> SUBSET Entries]
    BY <1>2, <1>4 DEF Validate, TypeOK
  <2>2. [op |-> "validate", any |-> FALSE, state |-> s, session |-> session] \in Requests
    BY DEF Requests
  <2> QED
    BY <1>1, <1>4, <2>1, <2>2 DEF Validate, TypeOK, history
<1>5. ASSUME NEW session \in SomeSession, NEW any \in BOOLEAN,
             ConsumeLatest(p, session, any)
      PROVE  TypeOK'
  <2>1. memory' \in [Procs -> SUBSET Entries]
    BY <1>2, <1>5 DEF ConsumeLatest, TypeOK
  <2>2. [op |-> "latest", any |-> any, state |-> NoState, session |-> session] \in Requests
    BY DEF Requests
  <2> QED
    BY <1>1, <1>5, <2>1, <2>2 DEF ConsumeLatest, TypeOK, history
<1> QED
  BY <1>3, <1>4, <1>5 DEF Begin, SomeSession

\* The states of well-typed entries are states.
LEMMA StatesOfType ==
  ASSUME NEW entries \in SUBSET Entries
  PROVE  StatesOf(entries) \in SUBSET States
  BY DEF StatesOf, Entries

\* What a call adds to the file is an entry of its memory.
LEMMA AddedType ==
  ASSUME TypeOK, NEW p \in Procs
  PROVE  Added(p) \in SUBSET memory[p] /\ Added(p) \in SUBSET Entries
  BY DEF Added, TypeOK

\* A process is between acquiring and releasing the flock exactly when it holds
\* it, and the file of a writer that truncated it is empty unless it was disturbed,
\* which it can only be after reading the file.
LockOK ==
    /\ \A p \in Procs : step[p] \in Critical <=> holder = p
    /\ \A p \in Procs \ disturbed : step[p] = "truncated" => file = {} /\ ~torn
    /\ \A p \in disturbed : step[p] \notin {"idle", "open", "locked"}

\* A copy that is written has the types of a file.
LEMMA RewrittenType ==
  ASSUME TypeOK, NEW p \in Procs, Rewritten(p)
  PROVE  /\ file' \in SUBSET Entries /\ torn' = FALSE
         /\ stored' \in SUBSET States /\ redeemed' \in SUBSET States
<1>1. StatesOf(Added(p)) \in SUBSET States /\ StatesOf(answer[p]) \in SUBSET States
  BY AddedType, StatesOfType DEF TypeOK
<1> QED
  BY <1>1 DEF Rewritten, TypeOK

\* So has the file when a dump was cut short.
LEMMA LostType ==
  ASSUME TypeOK, Lost
  PROVE  /\ file' \in SUBSET Entries /\ torn' \in BOOLEAN /\ (torn' => file' = {})
         /\ resets' \in Nat /\ UNCHANGED <<stored, redeemed>>
<1>1. resets' \in Nat /\ UNCHANGED <<stored, redeemed>>
  BY DEF Lost, TypeOK
<1>2. CASE file' = {} /\ torn' = TRUE
  BY <1>1, <1>2
<1>3. CASE UNCHANGED <<file, torn>>
  BY <1>1, <1>3 DEF TypeOK
<1> QED
  BY <1>2, <1>3 DEF Lost

\* Steps on the shared file keep the types.
LEMMA FileType ==
  ASSUME TypeOK, NEW p \in Procs,
         \/ Acquire(p) \/ Load(p) \/ Truncate(p)
         \/ Dump(p) \/ FailSync(p) \/ FailDump(p) \/ Unlock(p)
  PROVE  TypeOK'
<1>1. CASE Acquire(p) \/ Unlock(p)
  BY <1>1 DEF Acquire, Unlock, TypeOK, Steps, Critical, history
<1>2. CASE Load(p)
  <2>1. PICK popped \in Popped(request[p], Loaded(p)) :
          /\ answer' = [answer EXCEPT ![p] = popped]
          /\ copy' = [copy EXCEPT ![p] = (Loaded(p) \ popped) \cup Added(p)]
          /\ step' = [step EXCEPT ![p] = IF Dirty(p, popped) THEN "loaded" ELSE "done"]
    BY <1>2 DEF Load
  <2>2. Loaded(p) \in SUBSET Entries
    BY DEF Loaded, Alive, TypeOK
  <2>3. popped \in SUBSET Entries
    BY <2>2, PoppedType
  <2>4. (Loaded(p) \ popped) \cup Added(p) \in SUBSET Entries
    BY <2>2, AddedType
  <2>5. step' \in [Procs -> Steps]
    BY <2>1 DEF TypeOK, Steps, Critical
  <2> QED
    BY <1>2, <2>1, <2>3, <2>4, <2>5 DEF Load, TypeOK, history
<1>3. CASE Truncate(p)
  <2>1. resets' \in Nat /\ step' \in [Procs -> Steps]
    BY <1>3 DEF Truncate, Displaced, TypeOK, Steps, Critical
  <2>2. torn' = FALSE /\ file' = {}
    BY <1>3 DEF Truncate
  <2> QED
    BY <1>3, <2>1, <2>2 DEF Truncate, Displaced, TypeOK
<1>4. CASE Dump(p) \/ FailSync(p) \/ FailDump(p)
  <2>1. StatesOf(answer[p]) \in SUBSET States
    BY StatesOfType DEF TypeOK
  <2>2. step' \in [Procs -> Steps]
    BY <1>4 DEF Dump, FailSync, FailDump, TypeOK, Steps, Critical
  <2>3. CASE Written(p)
    BY <1>4, <2>2, <2>3, RewrittenType DEF Written, Dump, FailSync, FailDump, TypeOK
  <2>4. CASE Mixed(p)
    BY <1>4, <2>1, <2>2, <2>4 DEF Mixed, Dump, FailSync, FailDump, TypeOK
  <2>5. CASE Lost /\ UNCHANGED disturbed
    BY <1>4, <2>2, <2>5, LostType DEF Lost, Dump, FailSync, FailDump, TypeOK
  <2> QED
    BY <1>4, <2>3, <2>4, <2>5 DEF Dump, FailSync, FailDump
<1> QED
  BY <1>1, <1>2, <1>3, <1>4

\* A call that ends leaves a process without one.
LEMMA EndedType ==
  ASSUME TypeOK, NEW p \in Procs, Ended(p)
  PROVE  /\ step' \in [Procs -> Steps] /\ request' \in [Procs -> Requests]
         /\ copy' \in [Procs -> SUBSET Entries]
         /\ answer' \in [Procs -> SUBSET Entries]
<1>1. NoRequest \in Requests
  BY DEF NoRequest, Requests, SomeSession
<1> QED
  BY <1>1 DEF Ended, TypeOK, Steps

\* Steps that end a call keep the types, and so does a crash.
LEMMA EndType ==
  ASSUME TypeOK, NEW p \in Procs,
         Finish(p) \/ Raise(p) \/ FailOpen(p) \/ Close(p) \/ Crash(p)
  PROVE  TypeOK'
<1>1. CASE Finish(p)
  <2>1. Remembered(p) \in SUBSET Entries
    BY DEF Remembered, TypeOK
  <2>2. memory' \in [Procs -> SUBSET Entries]
    BY <1>1, <2>1 DEF Finish, TypeOK
  <2>3. told' \in [States -> Nat]
    BY <1>1 DEF Finish, TypeOK
  <2> QED
    BY <1>1, <2>2, <2>3, EndedType DEF Finish, Forgotten, TypeOK
<1>2. CASE Raise(p) \/ FailOpen(p)
  BY <1>2, EndedType DEF Raise, FailOpen, Forgotten, TypeOK
<1>3. CASE Crash(p)
  <2>1. memory' \in [Procs -> SUBSET Entries]
    BY <1>3 DEF Crash, TypeOK
  <2>2. file' \in SUBSET Entries /\ torn' \in BOOLEAN /\ (torn' => file' = {})
        /\ resets' \in Nat /\ UNCHANGED <<stored, redeemed>>
    BY <1>3, LostType DEF Crash, TypeOK
  <2> QED
    BY <1>3, <2>1, <2>2, EndedType DEF Crash, TypeOK
<1>4. CASE Close(p)
  <2>1. CASE WrittenLate(p)
    <3>1. /\ file' \in SUBSET Entries /\ torn' \in BOOLEAN /\ (torn' => file' = {})
          /\ stored' \in SUBSET States /\ redeemed' \in SUBSET States
      BY <2>1, RewrittenType DEF WrittenLate, TypeOK
    <3>2. resets' \in Nat /\ disturbed' \in SUBSET Procs
      BY <2>1 DEF WrittenLate, Relying, TypeOK
    <3> QED
      BY <1>4, <3>1, <3>2, EndedType DEF Close, TypeOK
  <2>2. CASE Forgotten(p) /\ UNCHANGED <<file, torn>>
    BY <1>4, <2>2, EndedType DEF Close, Forgotten, TypeOK
  <2> QED
    BY <1>4, <2>1, <2>2 DEF Close
<1> QED
  BY <1>1, <1>2, <1>3, <1>4

\* A step of one process.
ProcStep(p) ==
    Begin(p) \/ Advance(p) \/ FailSync(p) \/ FailDump(p) \/ FailOpen(p) \/ Crash(p)

\* The kinds of step, by what they do to a call and to the file.
LEMMA StepKinds ==
  ASSUME NEW p \in Procs, ProcStep(p)
  PROVE  \/ Begin(p)
         \/ Acquire(p) \/ Load(p) \/ Truncate(p)
         \/ Dump(p) \/ FailSync(p) \/ FailDump(p) \/ Unlock(p)
         \/ Finish(p) \/ Raise(p) \/ FailOpen(p) \/ Close(p) \/ Crash(p)
  BY DEF ProcStep, Advance

\* It touches no call and no memory but its own.
LEMMA OthersUntouched ==
  ASSUME TypeOK, NEW p \in Procs, ProcStep(p), NEW q \in Procs, q # p
  PROVE  /\ step'[q] = step[q] /\ request'[q] = request[q] /\ copy'[q] = copy[q]
         /\ answer'[q] = answer[q] /\ memory'[q] = memory[q]
         /\ Added(q)' = Added(q)
<1> USE DEF TypeOK
<1>1. step'[q] = step[q] /\ request'[q] = request[q] /\ copy'[q] = copy[q]
      /\ answer'[q] = answer[q] /\ memory'[q] = memory[q]
  <2>1. CASE Begin(p)
    BY <2>1 DEF Begin, Store, Validate, ConsumeLatest, Called
  <2>2. CASE \/ Acquire(p) \/ Truncate(p) \/ Unlock(p)
             \/ Dump(p) \/ FailSync(p) \/ FailDump(p)
    BY <2>2 DEF Acquire, Truncate, Unlock, Dump, FailSync, FailDump
  <2>3. CASE Load(p)
    BY <2>3 DEF Load
  <2>4. CASE Finish(p) \/ Raise(p) \/ FailOpen(p) \/ Close(p) \/ Crash(p)
    BY <2>4 DEF Finish, Raise, FailOpen, Close, Crash, Ended
  <2> QED
    BY <2>1, <2>2, <2>3, <2>4, StepKinds
<1> QED
  BY <1>1 DEF Added

\* Whoever relies on the file finds it as it was, or is disturbed: what others write
\* meanwhile they write without the lock.
LEMMA QuietStep ==
  ASSUME TypeOK, LockOK, NEW p \in Procs, ProcStep(p), NEW q \in Procs, q # p,
         q \in Relying, q \notin disturbed'
  PROVE  q \notin disturbed /\ UNCHANGED <<file, torn>>
<1>1. step[p] \notin Critical
  BY DEF LockOK, Relying, Critical
<1>2. CASE Close(p)
  BY <1>2 DEF Close, WrittenLate, Forgotten
<1>3. CASE Begin(p)
  BY <1>3 DEF Begin, Store, Validate, ConsumeLatest, Called, history
<1>4. CASE Acquire(p) \/ FailOpen(p)
  BY <1>4 DEF Acquire, FailOpen, Forgotten, history
<1>5. CASE Crash(p)
  BY <1>1, <1>5 DEF Crash, Critical
<1>6. CASE \/ Load(p) \/ Truncate(p) \/ Dump(p) \/ FailSync(p) \/ FailDump(p)
           \/ Unlock(p) \/ Finish(p) \/ Raise(p)
  BY <1>1, <1>6 DEF Load, Truncate, Dump, FailSync, FailDump, Unlock, Finish, Raise,
     Critical
<1> QED
  BY <1>2, <1>3, <1>4, <1>5, <1>6, StepKinds

\* The flock excludes: every step of a process keeps LockOK.
LEMMA LockStep ==
  ASSUME TypeOK, LockOK, NEW p \in Procs, ProcStep(p)
  PROVE  LockOK'
<1> DEFINE Lock(q) == /\ step[q] \in Critical <=> holder = q
                      /\ q \notin disturbed /\ step[q] = "truncated" => file = {} /\ ~torn
                      /\ q \in disturbed => step[q] \notin {"idle", "open", "locked"}
<1>1. \A q \in Procs : Lock(q)
  BY DEF LockOK
<1>2. disturbed' \subseteq (disturbed \cup Relying)
  BY StepKinds DEF Begin, Store, Validate, ConsumeLatest, Called, Acquire, Load, Truncate,
     Displaced, Dump, FailSync, FailDump, Written, Mixed, Unlock, Finish, Raise, FailOpen,
     Forgotten, Close, WrittenLate, Crash, history
<1>3. ASSUME NEW q \in Procs, q # p, holder' = q <=> holder = q PROVE Lock(q)'
  <2>1. step[q] = "truncated" => q \in Relying
    BY DEF Relying
  <2>2. q \in disturbed' => step[q] \notin {"idle", "open", "locked"}
    BY <1>1, <1>2 DEF Relying
  <2> QED
    BY <1>1, <1>3, <2>1, <2>2, OthersUntouched, QuietStep
<1>4. ASSUME Lock(p)', \A q \in Procs \ {p} : holder' = q <=> holder = q
      PROVE  LockOK'
  <2>1. \A q \in Procs : Lock(q)'
    BY <1>3, <1>4
  <2>2. disturbed' \subseteq Procs
    BY <1>2 DEF TypeOK, Relying
  <2> QED
    BY <2>1, <2>2 DEF LockOK
<1>5. CASE Begin(p)
  <2>1. /\ step[p] = "idle" /\ step'[p] = "open"
        /\ UNCHANGED <<holder, file, torn, disturbed>>
    BY <1>5 DEF Begin, Store, Validate, ConsumeLatest, Called, TypeOK, history
  <2> QED
    BY <1>1, <1>4, <2>1 DEF Critical
<1>6. CASE Acquire(p)
  <2>1. /\ step[p] = "open" /\ step'[p] = "locked"
        /\ holder = NoProc /\ holder' = p /\ UNCHANGED disturbed
    BY <1>6 DEF Acquire, TypeOK, history
  <2> QED
    BY <1>1, <1>4, <2>1, StatesAssumption DEF Critical
<1>7. CASE Load(p)
  <2>1. /\ step[p] = "locked" /\ step'[p] \in {"loaded", "done"}
        /\ UNCHANGED <<holder, disturbed>>
    BY <1>7 DEF Load, TypeOK, history
  <2> QED
    BY <1>1, <1>4, <2>1 DEF Critical
<1>8. CASE Truncate(p)
  <2>1. /\ step[p] = "loaded" /\ step'[p] = "truncated"
        /\ file' = {} /\ torn' = FALSE /\ UNCHANGED <<holder, disturbed>>
    BY <1>8 DEF Truncate, Displaced, TypeOK
  <2> QED
    BY <1>1, <1>4, <2>1 DEF Critical
<1>9. CASE Dump(p) \/ FailSync(p) \/ FailDump(p)
  <2>1. /\ step[p] = "truncated" /\ step'[p] \in {"done", "failed", "cut"}
        /\ UNCHANGED holder
    BY <1>9 DEF Dump, FailSync, FailDump, TypeOK
  <2> QED
    BY <1>1, <1>4, <2>1 DEF Critical
<1>10. CASE Unlock(p)
  <2>1. /\ step[p] = "cut" /\ step'[p] = "closing" /\ holder' = NoProc
    BY <1>10 DEF Unlock, TypeOK
  <2> QED
    BY <1>1, <1>4, <2>1, StatesAssumption DEF Critical
<1>11. CASE Finish(p) \/ Raise(p)
  <2>1. /\ step[p] \in Critical /\ step'[p] = "idle" /\ holder' = NoProc
        /\ p \notin disturbed'
    BY <1>11 DEF Finish, Raise, Ended, Forgotten, Critical, TypeOK
  <2> QED
    BY <1>1, <1>4, <2>1, StatesAssumption DEF Critical
<1>12. CASE FailOpen(p) \/ Close(p)
  <2>1. /\ step[p] \in {"open", "closing"} /\ step'[p] = "idle" /\ UNCHANGED holder
        /\ p \notin disturbed'
    BY <1>12 DEF FailOpen, Close, WrittenLate, Ended, Forgotten, TypeOK
  <2> QED
    BY <1>1, <1>4, <2>1 DEF Critical
<1>13. CASE Crash(p)
  <2>1. /\ step'[p] = "idle" /\ p \notin disturbed'
        /\ holder' = IF holder = p THEN NoProc ELSE holder
    BY <1>13 DEF Crash, Ended, TypeOK
  <2> QED
    BY <1>1, <1>4, <2>1, StatesAssumption DEF Critical
<1> QED
  BY <1>5, <1>6, <1>7, <1>8, <1>9, <1>10, <1>11, <1>12, <1>13, StepKinds

\* Every step keeps types and lock.
LEMMA TypeStep ==
  ASSUME TypeOK, LockOK, [Next]_vars
  PROVE  TypeOK' /\ LockOK'
<1>1. CASE Tick
  BY <1>1 DEF Tick, TypeOK, LockOK, call, history
<1>2. ASSUME NEW p \in Procs, ProcStep(p)
      PROVE  TypeOK' /\ LockOK'
  <2>1. LockOK'
    BY <1>2, LockStep
  <2>2. TypeOK'
    BY <1>2, BeginType, FileType, EndType, StepKinds
  <2> QED
    BY <2>1, <2>2
<1>3. CASE UNCHANGED vars
  BY <1>3 DEF vars, call, history, TypeOK, LockOK
<1> QED
  BY <1>1, <1>2, <1>3 DEF Next, ProcStep

\* Initially nobody calls and nobody holds the lock.
LEMMA TypeInit == Init => TypeOK /\ LockOK
<1> SUFFICES ASSUME Init PROVE TypeOK /\ LockOK
  OBVIOUS
<1>1. NoRequest \in Requests
  BY DEF NoRequest, Requests, SomeSession
<1>2. TypeOK
  BY <1>1 DEF Init, TypeOK, Steps
<1>3. LockOK
  BY StatesAssumption DEF Init, LockOK, Critical
<1> QED
  BY <1>2, <1>3

\* The variables keep their types, and a file that is not JSON holds no entry.
THEOREM TypeCorrect == Spec => []TypeOK
<1>1. TypeOK /\ LockOK /\ [Next]_vars => TypeOK' /\ LockOK'
  BY TypeStep
<1> QED
  BY <1>1, TypeInit, PTL DEF Spec

-----------------------------------------------------------------------------
(* The invariant behind the safety properties.                             *)

\* Steps of a call that has read the file and may still write its copy, and those
\* of a store whose entry is not in the file.
Holding(p) == step[p] \in {"loaded", "truncated", "cut", "closing"}
Storing(p) ==
    request[p].op = "store" /\ (step[p] \in {"open", "locked"} \/ Holding(p))

\* What a call read from the file, less what had expired.
Read(p) == (copy[p] \ Added(p)) \cup answer[p]

\* Entries of states that can be redeemed, one each.
Registered(entries) ==
    /\ \A e \in entries : e.state \in stored \ redeemed
    /\ \A e, f \in entries : e.state = f.state => e = f

\* Entries of different states.
Apart(entries, others) == \A e \in entries, f \in others : e.state # f.state

\* A state that is being stored is in no file and in no other call.
FreshOK ==
    /\ stored \subseteq issued /\ redeemed \subseteq stored
    /\ \A p \in Procs : \A e \in memory[p] : e.state \in issued
    /\ \A p \in Procs : Storing(p) =>
          /\ request[p].state \in issued \ stored
          /\ \E e \in Added(p) : Added(p) = {e}
    /\ \A p, q \in Procs : Storing(p) /\ Storing(q) /\ p # q =>
          request[p].state # request[q].state

\* No entry is from the future.
AgeOK ==
    /\ \A e \in file : e.created <= now
    /\ \A p \in Procs : \A e \in memory[p] \cup copy[p] : e.created <= now

\* What a call found, and is about to write, is what its request asks for.
OutcomeOK ==
    \A p \in Procs :
      /\ Holding(p) \/ step[p] = "done" =>
           /\ Added(p) \subseteq copy[p]
           /\ answer[p] \cap copy[p] = {}
           /\ request[p].op = "validate" /\ answer[p] = {} =>
                 request[p].state \notin StatesOf(copy[p])
           /\ request[p].op = "latest" /\ answer[p] = {} =>
                 Matching(request[p], copy[p]) = {}
           /\ request[p].op = "latest" =>
                 \A e \in answer[p], f \in Matching(request[p], copy[p]) :
                    f.created <= e.created
      /\ step[p] = "done" /\ p \notin disturbed => file = copy[p]

\* The file, and what a call read from it and may write, can be redeemed.
FileOK ==
    /\ Registered(file)
    /\ \A p \in Procs : Holding(p) =>
          /\ Registered(Read(p))
          /\ request[p].op = "store" => answer[p] = {}
          /\ answer[p] = {} \/ \E e \in answer[p] : answer[p] = {e}
    /\ \A p \in Procs \ disturbed : step[p] = "loaded" =>
          /\ Read(p) \subseteq file
          /\ \A e \in file \ Read(p) : e.expires <= now

\* A state is in one place: what a call took from the file and may still write is
\* in no other such copy and, once it is not in the file it read, in no file.
Replaced(p) == Holding(p) /\ (step[p] # "loaded" \/ p \in disturbed)
ApartOK ==
    /\ \A p \in Procs : Replaced(p) => Apart(Read(p), file)
    /\ \A p, q \in Procs : Holding(p) /\ Holding(q) /\ p # q => Apart(Read(p), Read(q))

\* Whoever was told of a state, it is no longer on file; whoever is about to be
\* told is the first.
ToldOK ==
    /\ \A s \in States : told[s] <= 1 /\ (told[s] > 0 => s \in redeemed)
    /\ \A p \in Procs : step[p] = "done" =>
          \A e \in answer[p] : e.state \in redeemed /\ told[e.state] = 0

IInv ==
    /\ TypeOK /\ LockOK /\ FreshOK /\ AgeOK /\ OutcomeOK /\ FileOK /\ ApartOK
    /\ ToldOK

\* What a call read and may write is its own affair.
LEMMA ReadUntouched ==
  ASSUME TypeOK, NEW p \in Procs, ProcStep(p), NEW q \in Procs, q # p
  PROVE  /\ Read(q)' = Read(q) /\ Holding(q)' = Holding(q) /\ Storing(q)' = Storing(q)
  BY OthersUntouched DEF Read, Holding, Storing

\* What a step of p does to the file and the states in it: it writes the copy of p,
\* or leaves the file without entries, or leaves it alone.
LEMMA Effects ==
  ASSUME TypeOK, NEW p \in Procs, ProcStep(p)
  PROVE  \/ /\ Holding(p) /\ ~Holding(p)' /\ file' = copy[p]
            /\ stored' = stored \cup StatesOf(Added(p))
            /\ redeemed' = redeemed \cup StatesOf(answer[p])
         \/ /\ Holding(p) /\ file' = {} /\ stored' = stored
            /\ \/ redeemed' = redeemed
               \/ ~Holding(p)' /\ redeemed' = redeemed \cup StatesOf(answer[p])
         \/ /\ UNCHANGED <<file, stored, redeemed>>
            /\ disturbed' \subseteq disturbed
<1> USE DEF Holding
<1>1. CASE Begin(p) \/ Acquire(p) \/ Load(p) \/ Unlock(p) \/ Finish(p) \/ Raise(p)
           \/ FailOpen(p)
  BY <1>1 DEF Begin, Store, Validate, ConsumeLatest, Called, Acquire, Load, Unlock,
     Finish, Raise, FailOpen, Forgotten, history
<1>2. CASE Truncate(p)
  BY <1>2 DEF Truncate, Displaced
<1>3. CASE Dump(p) \/ FailSync(p)
  <2>1. step[p] = "truncated" /\ step'[p] \in {"done", "failed"}
        /\ (Written(p) \/ Mixed(p))
    BY <1>3 DEF Dump, FailSync, TypeOK
  <2> QED
    BY <2>1 DEF Written, Rewritten, Mixed
<1>4. CASE FailDump(p)
  BY <1>4 DEF FailDump, Lost
<1>5. CASE Close(p)
  <2>1. step[p] = "closing" /\ step'[p] = "idle"
    BY <1>5 DEF Close, Ended, TypeOK
  <2> QED
    BY <1>5, <2>1 DEF Close, WrittenLate, Rewritten, Forgotten
<1>6. CASE Crash(p)
  BY <1>6 DEF Crash, Lost
<1> QED
  BY <1>1, <1>2, <1>3, <1>4, <1>5, <1>6, StepKinds

\* Steps that move a call forward and leave everything else it has alone.
LEMMA MoveKinds ==
  ASSUME TypeOK, NEW p \in Procs,
         \/ Acquire(p) \/ Truncate(p) \/ Unlock(p)
         \/ Dump(p) \/ FailSync(p) \/ FailDump(p)
  PROVE  /\ UNCHANGED <<now, request, copy, answer, memory, issued, told>>
         /\ Acquire(p) => step[p] = "open" /\ step'[p] = "locked"
         /\ \/ step[p] = "open" /\ step'[p] = "locked"
            \/ Holding(p) /\ step'[p] \in {"truncated", "done", "failed", "cut", "closing"}
         /\ Truncate(p) \/ Unlock(p) \/ Dump(p) \/ FailSync(p) \/ FailDump(p) => Holding(p)
         /\ \A q \in Procs : Added(q)' = Added(q) /\ Read(q)' = Read(q)
<1>1. UNCHANGED <<now, request, copy, answer, memory, issued, told>>
  BY DEF Acquire, Truncate, Unlock, Dump, FailSync, FailDump
<1>2. Acquire(p) => step[p] = "open" /\ step'[p] = "locked"
  BY DEF Acquire, TypeOK
<1>3. Truncate(p) \/ Unlock(p) \/ Dump(p) \/ FailSync(p) \/ FailDump(p) =>
         Holding(p) /\ step'[p] \in {"truncated", "done", "failed", "cut", "closing"}
  BY DEF Truncate, Unlock, Dump, FailSync, FailDump, TypeOK, Holding
<1> QED
  BY <1>1, <1>2, <1>3 DEF Added, Read

\* A call that ends leaves nothing but what it remembered.
LEMMA EndKinds ==
  ASSUME TypeOK, NEW p \in Procs,
         Finish(p) \/ Raise(p) \/ FailOpen(p) \/ Close(p) \/ Crash(p)
  PROVE  /\ step'[p] = "idle" /\ request'[p].op = "none"
         /\ copy'[p] = {} /\ answer'[p] = {} /\ Added(p)' = {}
         /\ memory'[p] \subseteq memory[p]
         /\ UNCHANGED <<now, issued>>
<1> USE DEF TypeOK
<1>1. Ended(p) /\ UNCHANGED <<now, issued>>
  BY DEF Finish, Raise, FailOpen, Close, Crash
<1>2. step'[p] = "idle" /\ request'[p].op = "none" /\ copy'[p] = {} /\ answer'[p] = {}
  BY <1>1 DEF Ended, NoRequest
<1>3. memory'[p] \subseteq memory[p]
  BY DEF Finish, Raise, FailOpen, Close, Crash, Remembered
<1> QED
  BY <1>1, <1>2, <1>3 DEF Added

\* What begins remembers only what was remembered, but for a state nobody had.
LEMMA BeginKinds ==
  ASSUME TypeOK, NEW p \in Procs, Begin(p)
  PROVE  /\ step[p] = "idle" /\ step'[p] = "open"
         /\ UNCHANGED <<now, file, torn, holder, copy, answer, history, told>>
         /\ \/ /\ request'[p].op # "store" /\ issued' = issued
               /\ memory'[p] \subseteq memory[p]
            \/ \E e \in Entries :
                 /\ e.state \notin issued /\ issued' = issued \cup {e.state}
                 /\ e.created = now
                 /\ request'[p].op = "store" /\ request'[p].state = e.state
                 /\ e \in memory'[p] /\ memory'[p] \subseteq memory[p] \cup {e}
<1> USE DEF TypeOK
<1>1. ASSUME NEW session \in SomeSession, NEW s \in States, Store(p, s, session)
      PROVE  \E e \in Entries :
                 /\ e.state \notin issued /\ issued' = issued \cup {e.state}
                 /\ e.created = now
                 /\ request'[p].op = "store" /\ request'[p].state = e.state
                 /\ e \in memory'[p] /\ memory'[p] \subseteq memory[p] \cup {e}
  <2> DEFINE e == [state |-> s, session |-> session, created |-> now,
                   expires |-> now + Lifetime]
  <2>1. e \in Entries /\ e.state = s /\ e.created = now
    BY StatesAssumption DEF Entries
  <2>2. memory' = [memory EXCEPT ![p] = Alive(@) \cup {e}]
    BY <1>1 DEF Store
  <2>3. request'[p].op = "store" /\ request'[p].state = s
    BY <1>1 DEF Store, Called
  <2>4. s \notin issued /\ issued' = issued \cup {s}
    BY <1>1 DEF Store
  <2> HIDE DEF e
  <2>5. e \in memory'[p] /\ memory'[p] \subseteq memory[p] \cup {e}
    BY <2>2 DEF Alive
  <2> QED
    BY <2>1, <2>3, <2>4, <2>5
<1>2. ASSUME NEW session \in SomeSession, NEW s \in States, NEW any \in BOOLEAN,
             Validate(p, s, session) \/ ConsumeLatest(p, session, any)
      PROVE  /\ request'[p].op # "store" /\ issued' = issued
             /\ memory'[p] \subseteq memory[p]
  BY <1>2 DEF Validate, ConsumeLatest, Called, Alive
<1>3. \A session, any : ConsumeLatest(p, session, any) =>
             /\ request'[p].op # "store" /\ issued' = issued
             /\ memory'[p] \subseteq memory[p]
  BY DEF ConsumeLatest, Called, Alive
<1>4. /\ step[p] = "idle" /\ step'[p] = "open"
      /\ UNCHANGED <<now, file, torn, holder, copy, answer, history, told>>
  BY DEF Begin, Store, Validate, ConsumeLatest, Called
<1> HIDE DEF TypeOK
<1> QED
  BY <1>1, <1>2, <1>3, <1>4 DEF Begin

-----------------------------------------------------------------------------
(* Each part of the invariant is kept by every step of a process.          *)

\* A state that is generated is new to the file, the history and every memory.
LEMMA FreshStep ==
  ASSUME TypeOK, FreshOK, FileOK, NEW p \in Procs, ProcStep(p)
  PROVE  FreshOK'
<1>1. CASE Begin(p)
  <2> USE DEF FreshOK
  <2>1. CASE request'[p].op # "store" /\ issued' = issued /\ memory'[p] \subseteq memory[p]
    BY <1>1, <2>1, BeginKinds, OthersUntouched, ReadUntouched DEF history, Storing
  <2>2. ASSUME NEW e \in Entries,
                 /\ e.state \notin issued /\ issued' = issued \cup {e.state}
                 /\ e.created = now
                 /\ request'[p].op = "store" /\ request'[p].state = e.state
                 /\ e \in memory'[p] /\ memory'[p] \subseteq memory[p] \cup {e}
        PROVE  FreshOK'
    <3>1. UNCHANGED <<stored, redeemed>>
      BY <1>1, BeginKinds DEF history
    <3>2. Added(p)' = {e}
      BY <2>2 DEF Added
    <3>3. \A q \in Procs : \A f \in memory'[q] : f.state \in issued'
      BY <2>2, OthersUntouched
    <3>4. \A q \in Procs \ {p} : Storing(q)' = Storing(q) /\ request'[q] = request[q]
                                 /\ Added(q)' = Added(q)
      BY OthersUntouched, ReadUntouched
    <3> QED
      BY <2>2, <3>1, <3>2, <3>3, <3>4
  <2> QED
    BY <1>1, <2>1, <2>2, BeginKinds
<1>2. ASSUME ~Begin(p) PROVE FreshOK'
  <2>1. /\ issued' = issued
        /\ Storing(p)' => Storing(p) /\ request'[p] = request[p] /\ Added(p)' = Added(p)
        /\ memory'[p] \subseteq memory[p]
    <3>1. CASE \/ Acquire(p) \/ Truncate(p) \/ Unlock(p)
               \/ Dump(p) \/ FailSync(p) \/ FailDump(p)
      BY <3>1, MoveKinds DEF Storing, Holding
    <3>2. CASE Load(p)
      BY <3>2 DEF Load, Storing, Added
    <3>3. CASE Finish(p) \/ Raise(p) \/ FailOpen(p) \/ Close(p) \/ Crash(p)
      BY <3>3, EndKinds DEF Storing
    <3> QED
      BY <1>2, <3>1, <3>2, <3>3, StepKinds
  <2>2. \A q \in Procs :
          /\ Storing(q)' => Storing(q) /\ request'[q] = request[q] /\ Added(q)' = Added(q)
          /\ memory'[q] \subseteq memory[q]
    BY <2>1, OthersUntouched, ReadUntouched
  <2>3. CASE stored' = stored
    <3>1. redeemed \subseteq stored
      BY DEF FreshOK
    <3>2. redeemed' \subseteq stored'
      BY <2>3, <3>1, Effects DEF FileOK, Registered, Read, StatesOf, FreshOK
    <3> QED
      BY <2>1, <2>2, <2>3, <3>2 DEF FreshOK
  <2>4. CASE /\ Holding(p) /\ ~Holding(p)'
             /\ stored' = stored \cup StatesOf(Added(p))
             /\ redeemed' = redeemed \cup StatesOf(answer[p])
    <3>1. \/ StatesOf(Added(p)) = {}
          \/ Storing(p) /\ StatesOf(Added(p)) = {request[p].state}
      BY <2>4 DEF Added, StatesOf, Storing, FreshOK
    <3>2. ~Storing(p)'
      <4>1. CASE Finish(p) \/ Raise(p) \/ FailOpen(p) \/ Close(p) \/ Crash(p)
        BY <4>1, EndKinds DEF Storing
      <4>2. CASE \/ Acquire(p) \/ Truncate(p) \/ Unlock(p)
                 \/ Dump(p) \/ FailSync(p) \/ FailDump(p)
        BY <2>4, <4>2, MoveKinds DEF Storing, Holding
      <4>3. CASE Load(p)
        BY <2>4, <4>3 DEF Load, Holding
      <4> QED
        BY <1>2, <4>1, <4>2, <4>3, StepKinds
    <3>3. \A q \in Procs : Storing(q)' => q # p /\ request'[q].state \notin stored'
      BY <2>2, <2>4, <3>1, <3>2 DEF FreshOK
    <3>4. stored' \subseteq issued
      BY <2>4, <3>1 DEF FreshOK
    <3>5. redeemed' \subseteq stored'
      BY <2>4 DEF FreshOK, FileOK, Registered, Read, StatesOf
    <3> QED
      BY <2>1, <2>2, <3>3, <3>4, <3>5 DEF FreshOK
  <2> QED
    BY <2>3, <2>4, Effects
<1> QED
  BY <1>1, <1>2

\* What Load hands on.
LEMMA LoadKinds ==
  ASSUME TypeOK, NEW p \in Procs, Load(p)
  PROVE  \E popped \in Popped(request[p], Loaded(p)) :
           /\ popped \subseteq Loaded(p) /\ Loaded(p) \subseteq file
           /\ answer'[p] = popped
           /\ copy'[p] = (Loaded(p) \ popped) \cup Added(p)
           /\ Added(p)' = Added(p) /\ request'[p] = request[p]
           /\ step[p] = "locked" /\ step'[p] \in {"loaded", "done"}
           /\ UNCHANGED <<now, file, stored, redeemed, disturbed, memory, told>>
           /\ step'[p] = "done" =>
                 popped = {} /\ Added(p) = {} /\ Loaded(p) = file
<1>1. PICK popped \in Popped(request[p], Loaded(p)) :
           /\ answer' = [answer EXCEPT ![p] = popped]
           /\ copy' = [copy EXCEPT ![p] = (Loaded(p) \ popped) \cup Added(p)]
           /\ step' = [step EXCEPT ![p] = IF Dirty(p, popped) THEN "loaded" ELSE "done"]
  BY DEF Load
<1>2. popped \subseteq Loaded(p)
  BY PoppedType
<1>3. Loaded(p) \subseteq file
  BY DEF Loaded, Alive
<1>4. Added(p)' = Added(p) /\ request'[p] = request[p] /\ step[p] = "locked"
  BY DEF Load, Added
<1>5. step'[p] \in {"loaded", "done"} /\ answer'[p] = popped
      /\ copy'[p] = (Loaded(p) \ popped) \cup Added(p)
  BY <1>1 DEF TypeOK
<1>6. step'[p] = "done" => popped = {} /\ Added(p) = {} /\ Loaded(p) = file
  BY <1>1 DEF TypeOK, Dirty, Added
<1>7. UNCHANGED <<now, file, stored, redeemed, disturbed, memory, told>>
  BY DEF Load, history
<1> QED
  BY <1>2, <1>3, <1>4, <1>5, <1>6, <1>7

\* No entry is from the future, so that some entry is always the newest.
LEMMA AgeStep ==
  ASSUME TypeOK, AgeOK, NEW p \in Procs, ProcStep(p)
  PROVE  AgeOK'
<1> USE DEF AgeOK
<1>1. CASE Begin(p)
  <2>1. UNCHANGED <<now, file, copy>> /\ \A q \in Procs \ {p} : memory'[q] = memory[q]
    BY <1>1, BeginKinds, OthersUntouched
  <2>2. \A e \in memory'[p] : e.created <= now
    BY <1>1, BeginKinds DEF TypeOK
  <2> QED
    BY <2>1, <2>2
<1>2. CASE Load(p)
  <2>1. copy'[p] \subseteq file \cup memory[p]
    BY <1>2, LoadKinds, AddedType
  <2> QED
    BY <1>2, <2>1, LoadKinds, OthersUntouched
<1>3. ASSUME UNCHANGED now, copy'[p] \subseteq copy[p], memory'[p] \subseteq memory[p]
      PROVE  AgeOK'
  <2>1. file' \subseteq file \cup copy[p]
    BY Effects
  <2> QED
    BY <1>3, <2>1, OthersUntouched
<1>4. CASE \/ Acquire(p) \/ Truncate(p) \/ Unlock(p)
           \/ Dump(p) \/ FailSync(p) \/ FailDump(p)
  BY <1>3, <1>4, MoveKinds
<1>5. CASE Finish(p) \/ Raise(p) \/ FailOpen(p) \/ Close(p) \/ Crash(p)
  BY <1>3, <1>5, EndKinds
<1> QED
  BY <1>1, <1>2, <1>4, <1>5, StepKinds

\* What the mutator pops is what its request asks for.
LEMMA PoppedFacts ==
  ASSUME NEW r, NEW entries \in SUBSET Entries, NEW popped \in Popped(r, entries),
         NEW m \in Nat, \A e \in entries : e.created <= m
  PROVE  /\ popped = {} \/ \E e \in popped : popped = {e}
         /\ r.op = "store" => popped = {}
         /\ r.op = "validate" /\ popped = {} => r.state \notin StatesOf(entries)
         /\ r.op = "latest" /\ popped = {} => Matching(r, entries) = {}
         /\ r.op = "latest" =>
               \A e \in popped, f \in Matching(r, entries) : f.created <= e.created
<1>1. popped = {} \/ \E e \in Candidates(r, entries) : popped = {e}
  BY DEF Popped
<1>2. popped = {} => Candidates(r, entries) = {}
  BY DEF Popped
<1>3. r.op = "latest" /\ popped = {} => Matching(r, entries) = {}
  <2> SUFFICES ASSUME r.op = "latest", popped = {}, Matching(r, entries) # {}
               PROVE  FALSE
    OBVIOUS
  <2>1. Matching(r, entries) \in SUBSET Entries
        /\ \A e \in Matching(r, entries) : e \in entries
    BY DEF Matching
  <2>2. \E e \in Matching(r, entries) :
          \A f \in Matching(r, entries) : f.created <= e.created
    BY <2>1, NewestExists
  <2> QED
    BY <1>2, <2>1, <2>2 DEF Candidates
<1> QED
  BY <1>1, <1>2, <1>3 DEF Candidates, StatesOf

\* What a call is going to tell stays true from Load to Finish: only its own process
\* writes the file meanwhile, or the call is disturbed.
LEMMA OutcomeStep ==
  ASSUME TypeOK, LockOK, FreshOK, AgeOK, FileOK, OutcomeOK, NEW p \in Procs, ProcStep(p)
  PROVE  OutcomeOK'
<1> DEFINE Outcome(q) ==
      /\ Holding(q) \/ step[q] = "done" =>
           /\ Added(q) \subseteq copy[q]
           /\ answer[q] \cap copy[q] = {}
           /\ request[q].op = "validate" /\ answer[q] = {} =>
                 request[q].state \notin StatesOf(copy[q])
           /\ request[q].op = "latest" /\ answer[q] = {} =>
                 Matching(request[q], copy[q]) = {}
           /\ request[q].op = "latest" =>
                 \A e \in answer[q], f \in Matching(request[q], copy[q]) :
                    f.created <= e.created
      /\ step[q] = "done" /\ q \notin disturbed => file = copy[q]
<1>1. \A q \in Procs : Outcome(q)
  BY DEF OutcomeOK
<1>2. ASSUME NEW q \in Procs, q # p PROVE Outcome(q)'
  <2>1. step[q] = "done" /\ q \notin disturbed' => q \notin disturbed /\ file' = file
    BY <1>2, QuietStep DEF Relying
  <2> QED
    BY <1>1, <1>2, <2>1, OthersUntouched, ReadUntouched DEF Matching, StatesOf
<1>3. Outcome(p)'
  <2>1. CASE Begin(p)
    BY <2>1, BeginKinds DEF Holding
  <2>2. CASE Acquire(p)
    BY <2>2, MoveKinds DEF Holding
  <2>3. CASE Load(p)
    <3> DEFINE r == request[p]
               loaded == Loaded(p)
    <3>1. PICK popped \in Popped(r, loaded) :
           /\ popped \subseteq loaded /\ loaded \subseteq file
           /\ answer'[p] = popped
           /\ copy'[p] = (loaded \ popped) \cup Added(p)
           /\ Added(p)' = Added(p) /\ request'[p] = r
           /\ step'[p] = "done" => popped = {} /\ Added(p) = {} /\ loaded = file
      BY <2>3, LoadKinds
    <3>2. loaded \in SUBSET Entries /\ now \in Nat /\ \A e \in loaded : e.created <= now
      BY <3>1 DEF AgeOK, TypeOK
    <3> HIDE DEF loaded
    <3>3. /\ r.op = "store" => popped = {}
          /\ r.op = "validate" /\ popped = {} => r.state \notin StatesOf(loaded)
          /\ r.op = "latest" /\ popped = {} => Matching(r, loaded) = {}
          /\ r.op = "latest" =>
               \A e \in popped, f \in Matching(r, loaded) : f.created <= e.created
      BY <3>1, <3>2, PoppedFacts
    <3>4. r.op # "store" => Added(p) = {} /\ copy'[p] = loaded \ popped
      BY <3>1 DEF Added
    <3>5. Matching(r, loaded \ popped) \subseteq Matching(r, loaded)
          /\ (popped = {} => loaded \ popped = loaded)
      BY DEF Matching
    <3>6. answer'[p] \cap copy'[p] = {} /\ Added(p)' \subseteq copy'[p]
      BY <3>1, <3>3, <3>4
    <3>7. file' = file
      BY <2>3, LoadKinds
    <3>8. r.op = "validate" /\ popped = {} => r.state \notin StatesOf(copy'[p])
      BY <3>3, <3>4, <3>5
    <3>9. r.op = "latest" /\ popped = {} => Matching(r, copy'[p]) = {}
      BY <3>3, <3>4, <3>5
    <3>10. r.op = "latest" =>
              \A e \in popped, f \in Matching(r, copy'[p]) : f.created <= e.created
      BY <3>3, <3>4, <3>5
    <3>11. step'[p] = "done" => file' = copy'[p]
      BY <3>1, <3>7
    <3>12. Matching(request[p], copy[p])' = Matching(r, copy'[p])
           /\ StatesOf(copy[p])' = StatesOf(copy'[p])
      BY <3>1 DEF Matching, StatesOf
    <3> QED
      BY <3>1, <3>6, <3>8, <3>9, <3>10, <3>11, <3>12
  <2>4. CASE Truncate(p) \/ Unlock(p) \/ Dump(p) \/ FailSync(p) \/ FailDump(p)
    <3>1. UNCHANGED <<copy, answer, request, memory>> /\ Holding(p) /\ Added(p)' = Added(p)
      BY <2>4, MoveKinds DEF Holding
    <3>2. step'[p] = "done" /\ p \notin disturbed' => file' = copy[p]
      <4>1. CASE Dump(p)
        <5>1. step[p] = "truncated" /\ (Written(p) \/ Mixed(p))
          BY <4>1 DEF Dump
        <5> QED
          BY <5>1 DEF Written, Rewritten, Mixed, LockOK
      <4>2. CASE Truncate(p) \/ Unlock(p) \/ FailSync(p) \/ FailDump(p)
        BY <4>2 DEF Truncate, Unlock, FailSync, FailDump, TypeOK
      <4> QED
        BY <2>4, <4>1, <4>2
    <3> QED
      BY <1>1, <3>1, <3>2 DEF Matching, StatesOf
  <2>5. CASE Finish(p) \/ Raise(p) \/ FailOpen(p) \/ Close(p) \/ Crash(p)
    BY <2>5, EndKinds DEF Holding
  <2> QED
    BY <2>1, <2>2, <2>3, <2>4, <2>5, StepKinds
<1> QED
  BY <1>2, <1>3 DEF OutcomeOK

\* Whatever a step of p does to the file, what is in it can be redeemed, and what the
\* others hold stays apart from what p wrote.
LEMMA RegisteredStep ==
  ASSUME TypeOK, FreshOK, OutcomeOK, FileOK, ApartOK, NEW p \in Procs, ProcStep(p)
  PROVE  /\ Registered(file)'
         /\ \A q \in Procs \ {p} : Holding(q) =>
               Registered(Read(q))' /\ (file' = file \/ Apart(Read(q), file'))
<1>1. \A q \in Procs \ {p} : Read(q)' = Read(q)
  BY ReadUntouched
<1>2. CASE /\ Holding(p) /\ ~Holding(p)' /\ file' = copy[p]
           /\ stored' = stored \cup StatesOf(Added(p))
           /\ redeemed' = redeemed \cup StatesOf(answer[p])
  <2>1. Registered(Read(p)) /\ (request[p].op = "store" => answer[p] = {})
        /\ Added(p) \subseteq copy[p] /\ answer[p] \cap copy[p] = {}
    BY <1>2 DEF FileOK, OutcomeOK
  <2>2. \A e \in Added(p) : e.state \notin stored /\ e.state \notin redeemed
    BY <1>2 DEF FreshOK, Storing, Added
  <2>3. \A e, f \in Added(p) : e = f
    BY <1>2 DEF FreshOK, Storing, Added
  <2>4. \A e \in copy[p] \ Added(p) : /\ e \in Read(p) /\ e.state \in stored'
                                     /\ e.state \notin redeemed'
    BY <1>2, <2>1 DEF Registered, Read, StatesOf
  <2>5. \A e \in Added(p) : e.state \in stored' /\ e.state \notin redeemed'
    BY <1>2, <2>1, <2>2 DEF StatesOf, Added
  <2>6. \A e, f \in copy[p] : e.state = f.state => e = f
    BY <2>1, <2>2, <2>3, <2>4 DEF Registered
  <2>7. Registered(file)'
    BY <1>2, <2>4, <2>5, <2>6 DEF Registered
  <2>8. ASSUME NEW q \in Procs \ {p}, Holding(q)
        PROVE  Registered(Read(q))' /\ Apart(Read(q), file')
    <3>1. Registered(Read(q)) /\ Apart(Read(q), Read(p))
      BY <1>2, <2>8 DEF FileOK, ApartOK
    <3>2. \A e \in Read(q) : e.state \in stored' /\ e.state \notin redeemed'
      BY <1>2, <3>1 DEF Registered, Apart, Read, StatesOf
    <3>3. \A e \in Read(q), f \in copy[p] : e.state # f.state
      BY <2>2, <2>4, <3>1 DEF Registered, Apart
    <3> QED
      BY <1>1, <1>2, <2>8, <3>1, <3>2, <3>3 DEF Registered, Apart
  <2> QED
    BY <2>7, <2>8
<1>3. CASE /\ Holding(p) /\ file' = {} /\ stored' = stored
           /\ redeemed' \in {redeemed, redeemed \cup StatesOf(answer[p])}
  <2>1. Registered(file)'
    BY <1>3 DEF Registered
  <2>2. ASSUME NEW q \in Procs \ {p}, Holding(q)
        PROVE  Registered(Read(q))' /\ Apart(Read(q), file')
    <3>1. Registered(Read(q)) /\ Apart(Read(q), Read(p))
      BY <1>3, <2>2 DEF FileOK, ApartOK
    <3>2. \A e \in Read(q) : e.state \in stored' /\ e.state \notin redeemed'
      BY <1>3, <3>1 DEF Registered, Apart, Read, StatesOf
    <3> QED
      BY <1>1, <1>3, <2>2, <3>1, <3>2 DEF Registered, Apart
  <2> QED
    BY <2>1, <2>2
<1>4. CASE UNCHANGED <<file, stored, redeemed>>
  BY <1>1, <1>4 DEF FileOK, Registered
<1> QED
  BY <1>2, <1>3, <1>4, Effects

\* What Load reads becomes what its call holds; it takes nothing from anybody else.
LEMMA LoadHolds ==
  ASSUME TypeOK, LockOK, FreshOK, FileOK, ApartOK, NEW p \in Procs, Load(p)
  PROVE  /\ Registered(Read(p))'
         /\ request'[p].op = "store" => answer'[p] = {}
         /\ answer'[p] = {} \/ \E e \in answer'[p] : answer'[p] = {e}
         /\ Read(p)' \subseteq file
         /\ \A e \in file \ Read(p)' : e.expires <= now
         /\ p \notin disturbed'
         /\ \A q \in Procs \ {p} : Holding(q) => Apart(Read(q), Read(p)')
<1>1. PICK popped \in Popped(request[p], Loaded(p)) :
         /\ popped \subseteq Loaded(p) /\ Loaded(p) \subseteq file
         /\ answer'[p] = popped
         /\ copy'[p] = (Loaded(p) \ popped) \cup Added(p)
         /\ Added(p)' = Added(p) /\ request'[p] = request[p] /\ step[p] = "locked"
         /\ UNCHANGED <<now, file, stored, redeemed, disturbed, memory, told>>
  BY LoadKinds
<1>2. Added(p) \cap file = {}
  BY <1>1 DEF FreshOK, FileOK, Registered, Storing, Added
<1>3. Read(p)' = Loaded(p)
  BY <1>1, <1>2 DEF Read
<1>4. \A e \in file \ Loaded(p) : e.expires <= now
  BY DEF Loaded, Alive, TypeOK, Entries
<1>5. (request[p].op = "store" => popped = {})
      /\ (popped = {} \/ \E e \in popped : popped = {e})
  BY DEF Popped, Candidates
<1>6. Registered(Loaded(p))
  BY <1>1 DEF FileOK, Registered
<1>7. p \notin disturbed
  BY <1>1 DEF LockOK
<1>8. ASSUME NEW q \in Procs \ {p}, Holding(q) PROVE Apart(Read(q), file)
  BY <1>1, <1>8 DEF LockOK, Critical, Holding, Replaced, ApartOK
<1>9. Registered(Read(p))'
  BY <1>1, <1>3, <1>6 DEF Registered
<1>10. \A q \in Procs \ {p} : Holding(q) => Apart(Read(q), Read(p)')
  BY <1>1, <1>3, <1>8 DEF Apart
<1> QED
  BY <1>1, <1>3, <1>4, <1>5, <1>7, <1>9, <1>10

\* How a call that may write its copy after the step came to do so.
LEMMA HoldingKinds ==
  ASSUME TypeOK, NEW p \in Procs, ProcStep(p), Holding(p)'
  PROVE  \/ Load(p)
         \/ /\ Holding(p) /\ step'[p] # "loaded"
            /\ UNCHANGED <<request, copy, answer, stored, redeemed>> /\ Read(p)' = Read(p)
            /\ file' = {} \/ (file' = file /\ step[p] # "loaded")
<1>1. CASE Begin(p) \/ Acquire(p)
  BY <1>1, BeginKinds, MoveKinds DEF Holding
<1>2. CASE Finish(p) \/ Raise(p) \/ FailOpen(p) \/ Close(p) \/ Crash(p)
  BY <1>2, EndKinds DEF Holding
<1>3. CASE Dump(p) \/ FailSync(p)
  BY <1>3 DEF Dump, FailSync, Holding, TypeOK
<1>4. CASE Truncate(p) \/ FailDump(p) \/ Unlock(p)
  <2>1. /\ Holding(p) /\ UNCHANGED <<request, copy, answer>> /\ Read(p)' = Read(p)
    BY <1>4, MoveKinds
  <2>2. /\ step'[p] # "loaded" /\ UNCHANGED <<stored, redeemed>>
        /\ file' = {} \/ (file' = file /\ step[p] # "loaded")
    BY <1>4 DEF Truncate, Displaced, FailDump, Lost, Unlock, TypeOK, history
  <2> QED
    BY <2>1, <2>2
<1> QED
  BY <1>1, <1>2, <1>3, <1>4, StepKinds

\* What is in the file and what is read from it can be redeemed, by one entry each.
LEMMA FileStep ==
  ASSUME TypeOK, LockOK, FreshOK, OutcomeOK, FileOK, ApartOK, NEW p \in Procs, ProcStep(p)
  PROVE  FileOK'
<1> DEFINE Holder(q) ==
      /\ Holding(q) => /\ Registered(Read(q))
                       /\ request[q].op = "store" => answer[q] = {}
                       /\ answer[q] = {} \/ \E e \in answer[q] : answer[q] = {e}
      /\ step[q] = "loaded" /\ q \notin disturbed =>
            /\ Read(q) \subseteq file
            /\ \A e \in file \ Read(q) : e.expires <= now
<1>1. \A q \in Procs : Holder(q)
  BY DEF FileOK
<1>2. Registered(file)'
  BY RegisteredStep
<1>3. ASSUME NEW q \in Procs, q # p PROVE Holder(q)'
  <2>1. Holding(q)' => Registered(Read(q))'
    BY <1>3, RegisteredStep, ReadUntouched
  <2>2. step[q] = "loaded" /\ q \notin disturbed' => q \notin disturbed /\ file' = file
    BY <1>3, QuietStep DEF Relying
  <2>3. now' = now
    BY StepKinds, BeginKinds, MoveKinds, LoadKinds, EndKinds
  <2> QED
    BY <1>1, <1>3, <2>1, <2>2, <2>3, OthersUntouched, ReadUntouched
<1>4. Holder(p)'
  <2>1. CASE Load(p)
    <3>1. UNCHANGED <<now, file>>
      BY <2>1 DEF Load
    <3>2. /\ Registered(Read(p))' /\ (request'[p].op = "store" => answer'[p] = {})
          /\ (answer'[p] = {} \/ \E e \in answer'[p] : answer'[p] = {e})
          /\ Read(p)' \subseteq file /\ \A e \in file \ Read(p)' : e.expires <= now
      BY <2>1, LoadHolds
    <3> QED
      BY <3>1, <3>2
  <2>2. CASE ~Load(p) /\ Holding(p)'
    <3>1. /\ Holding(p) /\ step'[p] # "loaded"
          /\ UNCHANGED <<request, copy, answer, stored, redeemed>> /\ Read(p)' = Read(p)
      BY <2>2, HoldingKinds
    <3> QED
      BY <1>1, <3>1 DEF Registered
  <2>3. CASE ~Holding(p)'
    BY <2>3 DEF Holding
  <2> QED
    BY <2>1, <2>2, <2>3
<1>5. \A q \in Procs : Holder(q)'
  BY <1>3, <1>4
<1> QED
  BY <1>2, <1>5 DEF FileOK

\* A state stays in one place.
LEMMA ApartStep ==
  ASSUME TypeOK, LockOK, FreshOK, OutcomeOK, FileOK, ApartOK, NEW p \in Procs, ProcStep(p)
  PROVE  ApartOK'
<1>1. ASSUME NEW q \in Procs, q # p, Replaced(q)' PROVE Apart(Read(q), file)'
  <2>1. Holding(q) /\ Read(q)' = Read(q) /\ step'[q] = step[q]
    BY <1>1, ReadUntouched, OthersUntouched DEF Replaced
  <2>2. CASE file' # file
    BY <1>1, <2>1, <2>2, RegisteredStep DEF Apart
  <2>3. CASE file' = file
    <3>1. CASE Replaced(q)
      BY <2>1, <2>3, <3>1 DEF ApartOK, Apart
    <3>2. CASE ~Replaced(q)
      <4>1. step[q] = "loaded" /\ q \notin disturbed /\ q \in disturbed'
        BY <1>1, <2>1, <3>2 DEF Replaced
      <4>2. \/ Holding(p) /\ file' = copy[p]
            \/ file' = {}
        BY <4>1, Effects
      <4>3. CASE file' = {}
        BY <4>3 DEF Apart
      <4>4. CASE Holding(p) /\ file' = copy[p] /\ file' # {}
        <5>1. Apart(Read(q), Read(p)) /\ Registered(Read(q))
          BY <1>1, <2>1, <4>4 DEF ApartOK, FileOK
        <5>2. \A f \in Added(p) : f.state \notin stored
          BY <4>4 DEF FreshOK, Storing, Added
        <5>3. \A e \in Read(q), f \in copy[p] : e.state # f.state
          BY <5>1, <5>2 DEF Apart, Read, Registered
        <5> QED
          BY <2>1, <4>4, <5>3 DEF Apart
      <4> QED
        BY <4>2, <4>3, <4>4
    <3> QED
      BY <3>1, <3>2
  <2> QED
    BY <2>2, <2>3
<1>2. Replaced(p)' => Apart(Read(p), file)'
  <2>1. CASE Load(p)
    BY <2>1, LoadHolds, LoadKinds DEF Replaced, Holding
  <2>2. CASE ~Load(p) /\ Holding(p)'
    <3>1. /\ Holding(p) /\ Read(p)' = Read(p)
          /\ file' = {} \/ (file' = file /\ step[p] # "loaded")
      BY <2>2, HoldingKinds
    <3>2. file' # {} => Apart(Read(p), file)
      BY <3>1 DEF ApartOK, Replaced
    <3> QED
      BY <3>1, <3>2 DEF Apart
  <2> QED
    BY <2>1, <2>2 DEF Replaced
<1>3. ASSUME NEW q \in Procs, q # p, Holding(p)', Holding(q)'
      PROVE  Apart(Read(q), Read(p))' /\ Apart(Read(p), Read(q))'
  <2>1. Holding(q) /\ Read(q)' = Read(q)
    BY <1>3, ReadUntouched
  <2>2. Apart(Read(q), Read(p)')
    <3>1. CASE Load(p)
      BY <1>3, <2>1, <3>1, LoadHolds
    <3>2. CASE ~Load(p)
      BY <1>3, <2>1, <3>2, HoldingKinds DEF ApartOK
    <3> QED
      BY <3>1, <3>2
  <2> QED
    BY <2>1, <2>2 DEF Apart
<1>4. ASSUME NEW q \in Procs \ {p}, NEW r \in Procs \ {p}, q # r, Holding(q)', Holding(r)'
      PROVE  Apart(Read(q), Read(r))'
  BY <1>4, ReadUntouched DEF ApartOK
<1>5. \A q \in Procs : Replaced(q)' => Apart(Read(q), file)'
  BY <1>1, <1>2
<1>6. \A q, r \in Procs : Holding(q)' /\ Holding(r)' /\ q # r => Apart(Read(q), Read(r))'
  BY <1>3, <1>4
<1> QED
  BY <1>5, <1>6 DEF ApartOK

\* An entry is returned by the call that popped it, and that call ends with it.
LEMMA ToldStep ==
  ASSUME TypeOK, LockOK, OutcomeOK, FileOK, ToldOK, NEW p \in Procs, ProcStep(p)
  PROVE  ToldOK'
<1> DEFINE Tell(q) == step[q] = "done" =>
                        \A e \in answer[q] : e.state \in redeemed /\ told[e.state] = 0
           Counted == \A s \in States : told[s] <= 1 /\ (told[s] > 0 => s \in redeemed)
<1>1. Counted /\ \A q \in Procs : Tell(q)
  BY DEF ToldOK
<1>2. ASSUME UNCHANGED <<told, redeemed>>, Tell(p)' PROVE ToldOK'
  BY <1>1, <1>2, OthersUntouched DEF ToldOK
<1>3. CASE Begin(p)
  BY <1>2, <1>3, BeginKinds DEF history
<1>4. CASE Load(p)
  BY <1>2, <1>4, LoadKinds
<1>5. ASSUME UNCHANGED told, step'[p] # "done" PROVE ToldOK'
  <2>1. redeemed \subseteq redeemed'
    BY Effects
  <2>2. \A q \in Procs \ {p} : step'[q] = step[q] /\ answer'[q] = answer[q]
    BY OthersUntouched
  <2> QED
    BY <1>1, <1>5, <2>1, <2>2 DEF ToldOK
<1>6. CASE Acquire(p) \/ Truncate(p) \/ Unlock(p) \/ FailSync(p) \/ FailDump(p)
  <2>1. UNCHANGED told
    BY <1>6, MoveKinds
  <2>2. step'[p] # "done"
    BY <1>6 DEF Acquire, Truncate, Unlock, FailSync, FailDump, TypeOK
  <2> QED
    BY <1>5, <2>1, <2>2
<1>7. CASE Dump(p)
  <2>1. UNCHANGED <<answer, told>> /\ step[p] = "truncated"
        /\ redeemed' = redeemed \cup StatesOf(answer[p])
    BY <1>7 DEF Dump, Written, Rewritten, Mixed
  <2>2. \A q \in Procs \ {p} : step'[q] # "done"
    BY <2>1, OthersUntouched DEF LockOK, Critical
  <2>3. \A e \in answer[p] : e.state \notin redeemed /\ e.state \in States
    BY <2>1 DEF FileOK, Holding, Registered, Read, TypeOK, Entries
  <2>4. Tell(p)'
    BY <1>1, <2>1, <2>3 DEF StatesOf, TypeOK
  <2>5. Counted'
    BY <1>1, <2>1
  <2> QED
    BY <2>2, <2>4, <2>5 DEF ToldOK
<1>8. CASE Finish(p)
  <2>1. step[p] = "done" /\ UNCHANGED redeemed /\ step'[p] = "idle"
    BY <1>8, EndKinds DEF Finish, Forgotten
  <2>2. \A q \in Procs : step'[q] # "done"
    BY <2>1, OthersUntouched DEF LockOK, Critical
  <2>3. \A s \in States : \/ told'[s] = told[s]
                           \/ /\ told'[s] = told[s] + 1
                              /\ \E e \in answer[p] : e.state = s
    <3>1. \A s \in States : told'[s] =
             IF \E e \in answer[p] : e.state = s /\ ~Mismatch(request[p], e)
             THEN told[s] + 1 ELSE told[s]
      BY <1>8, Zenon DEF Finish
    <3> QED
      BY <3>1
  <2>4. Counted'
    BY <1>1, <2>1, <2>3 DEF TypeOK
  <2> QED
    BY <2>2, <2>4 DEF ToldOK
<1>9. CASE Raise(p) \/ FailOpen(p) \/ Close(p) \/ Crash(p)
  <2>1. step'[p] = "idle"
    BY <1>9, EndKinds
  <2>2. UNCHANGED told
    BY <1>9 DEF Raise, FailOpen, Close, Crash
  <2> QED
    BY <1>5, <2>1, <2>2
<1> QED
  BY <1>3, <1>4, <1>6, <1>7, <1>8, <1>9, StepKinds

-----------------------------------------------------------------------------
(* The theorems. *)

\* The inductive invariant holds initially ...
LEMMA InvInit == Init => IInv
<1> SUFFICES ASSUME Init PROVE IInv
  OBVIOUS
<1>1. TypeOK /\ LockOK
  BY TypeInit
<1>2. \A p \in Procs : step[p] = "idle" /\ memory[p] = {} /\ copy[p] = {}
  BY DEF Init
<1>3. FreshOK /\ AgeOK /\ OutcomeOK
  BY <1>2 DEF Init, FreshOK, AgeOK, OutcomeOK, Storing, Holding, NoRequest
<1>4. FileOK /\ ApartOK /\ ToldOK
  BY <1>2 DEF Init, FileOK, ApartOK, ToldOK, Holding, Replaced, Registered
<1> QED
  BY <1>1, <1>3, <1>4 DEF IInv

\* ... and every step keeps it.
LEMMA InvStep == IInv /\ [Next]_vars => IInv'
<1> SUFFICES ASSUME IInv, [Next]_vars PROVE IInv'
  OBVIOUS
<1> USE DEF IInv
<1>1. TypeOK' /\ LockOK'
  BY TypeStep
<1>2. ASSUME NEW p \in Procs, ProcStep(p)
      PROVE  FreshOK' /\ AgeOK' /\ OutcomeOK' /\ FileOK' /\ ApartOK' /\ ToldOK'
  BY <1>2, FreshStep, AgeStep, OutcomeStep, FileStep, ApartStep, ToldStep
<1>3. ASSUME now' >= now, now' \in Nat,
             UNCHANGED <<file, torn, holder, call, memory, issued, history, told>>
      PROVE  FreshOK' /\ AgeOK' /\ OutcomeOK' /\ FileOK' /\ ApartOK' /\ ToldOK'
  <2> USE <1>3 DEF call, history
  <2>1. \A p \in Procs : /\ Added(p)' = Added(p) /\ Read(p)' = Read(p)
                         /\ Matching(request[p], copy[p])' = Matching(request[p], copy[p])
                         /\ StatesOf(copy[p])' = StatesOf(copy[p])
    BY DEF Added, Read, Matching, StatesOf
  <2>2. FreshOK' /\ OutcomeOK' /\ ToldOK'
    BY <2>1 DEF FreshOK, OutcomeOK, ToldOK, Storing, Holding
  <2>3. AgeOK'
    BY DEF AgeOK, TypeOK, Entries
  <2>4. FileOK'
    BY <2>1 DEF FileOK, Registered, Holding, TypeOK, Entries
  <2>5. ApartOK'
    BY <2>1 DEF ApartOK, Apart, Holding, Replaced
  <2> QED
    BY <2>2, <2>3, <2>4, <2>5
<1>4. CASE Tick
  <2>1. now' >= now /\ now' \in Nat
    BY <1>4 DEF Tick, TypeOK
  <2>2. UNCHANGED <<file, torn, holder, call, memory, issued, history, told>>
    BY <1>4 DEF Tick
  <2> QED
    BY <1>1, <1>3, <2>1, <2>2
<1>5. CASE UNCHANGED vars
  <2>1. now' >= now /\ now' \in Nat
    BY <1>5 DEF vars, TypeOK
  <2>2. UNCHANGED <<file, torn, holder, call, memory, issued, history, told>>
    BY <1>5 DEF vars
  <2> QED
    BY <1>1, <1>3, <2>1, <2>2
<1> QED
  BY <1>1, <1>2, <1>4, <1>5 DEF Next, ProcStep

\* A state completes at most one sign-in, for any number of processes, states and
\* callbacks, whatever fails or crashes.
THEOREM OnceOnly == Spec => []AnsweredOnce
<1>1. IInv => AnsweredOnce
  BY DEF IInv, ToldOK, AnsweredOnce
<1> QED
  BY <1>1, InvInit, InvStep, PTL DEF Spec

\* What a call tells its caller is so at the moment it is told.
THEOREM OutcomesAreTrue == Spec => []OutcomeIsTrue
<1>1. IInv => OutcomeIsTrue
  <2> SUFFICES ASSUME IInv, NEW p \in Procs \ disturbed, step[p] = "done"
               PROVE  /\ Added(p) \subseteq file
                      /\ answer[p] \cap file = {}
                      /\ request[p].op = "validate" /\ answer[p] = {} =>
                            request[p].state \notin StatesOf(Alive(file))
                      /\ request[p].op = "latest" /\ answer[p] = {} =>
                            Matching(request[p], Alive(file)) = {}
                      /\ request[p].op = "latest" =>
                            \A e \in answer[p], f \in Matching(request[p], Alive(file)) :
                               f.created <= e.created
    BY DEF OutcomeIsTrue
  <2>1. file = copy[p]
    BY DEF IInv, OutcomeOK
  <2>2. StatesOf(Alive(file)) \subseteq StatesOf(file)
        /\ Matching(request[p], Alive(file)) \subseteq Matching(request[p], file)
    BY DEF StatesOf, Alive, Matching
  <2> QED
    BY <2>1, <2>2 DEF IInv, OutcomeOK
<1> QED
  BY <1>1, InvInit, InvStep, PTL DEF Spec

-----------------------------------------------------------------------------
(* Refinement: the file under its lock is an atomic registry. *)

\* While the file is being rewritten, what can be redeemed is what the writer read ...
LEMMA PendingIsRead ==
  ASSUME LockOK, NEW p \in Procs, step[p] = "truncated"
  PROVE  Pending = Read(p)
<1>1. \A q \in Procs : step[q] = "truncated" => q = p
  BY DEF LockOK, Critical
<1>2. (CHOOSE q \in Procs : step[q] = "truncated") = p
  BY <1>1
<1> QED
  BY <1>2 DEF Pending, Read

\* ... after a step as before it ...
LEMMA PendingIsReadNext ==
  ASSUME LockOK', NEW p \in Procs, step'[p] = "truncated"
  PROVE  Pending' = Read(p)'
<1>1. \A q \in Procs : step'[q] = "truncated" => q = p
  BY DEF LockOK, Critical
<1>2. (CHOOSE q \in Procs : step'[q] = "truncated") = p
  BY <1>1
<1> QED
  BY <1>2 DEF Pending, Read

\* ... and otherwise what the file holds.
LEMMA PendingIsFile ==
  ASSUME \A q \in Procs : step[q] # "truncated"
  PROVE  Pending = file
  BY DEF Pending

\* A step that is not part of a rewriting is invisible.
LEMMA InvisibleStep ==
  ASSUME IInv, IInv', NEW p \in Procs, ProcStep(p),
         step[p] # "truncated", step'[p] # "truncated",
         UNCHANGED <<now, file, stored, redeemed, resets>>
  PROVE  UNCHANGED Registry!vars
<1>1. CASE \E q \in Procs : step[q] = "truncated"
  <2>1. PICK q \in Procs : step[q] = "truncated"
    BY <1>1
  <2>2. q # p /\ step'[q] = "truncated" /\ Read(q)' = Read(q)
    BY <2>1, OthersUntouched, ReadUntouched DEF IInv
  <2>3. Pending = Read(q)
    BY <2>1, PendingIsRead DEF IInv
  <2>4. Pending' = Read(q)'
    BY <2>2, PendingIsReadNext DEF IInv
  <2> QED
    BY <2>2, <2>3, <2>4 DEF Registry!vars
<1>2. CASE \A q \in Procs : step[q] # "truncated"
  <2>1. \A q \in Procs : step'[q] # "truncated"
    BY <1>2, OthersUntouched DEF IInv
  <2>2. Pending' = file'
    BY <2>1 DEF Pending
  <2> QED
    BY <1>2, <2>2, PendingIsFile DEF Registry!vars
<1> QED
  BY <1>1, <1>2

\* After the dump, or when it was cut short, what counts is the file again.
LEMMA PendingAfterDump ==
  ASSUME IInv, NEW p \in Procs, ProcStep(p), step[p] = "truncated",
         step'[p] # "truncated"
  PROVE  Pending' = file'
<1>1. \A q \in Procs : step'[q] # "truncated"
  BY OthersUntouched DEF IInv, LockOK, Critical
<1> QED
  BY <1>1 DEF Pending

\* A dump that reaches the file issues a state, redeems one, or changes nothing.
LEMMA WrittenStep ==
  ASSUME IInv, NEW p \in Procs, ProcStep(p), step[p] = "truncated",
         step'[p] # "truncated", Written(p), UNCHANGED now
  PROVE  [Registry!Next]_Registry!vars
<1>1. Pending = Read(p) /\ Pending' = copy[p]
  BY PendingIsRead, PendingAfterDump DEF IInv, Written, Rewritten
<1>2. /\ stored' = stored \cup StatesOf(Added(p))
      /\ redeemed' = redeemed \cup StatesOf(answer[p]) /\ UNCHANGED resets
  BY DEF Written, Rewritten
<1>3. Added(p) \subseteq copy[p] /\ answer[p] \cap copy[p] = {}
  BY DEF IInv, OutcomeOK, Holding
<1>4. /\ Registered(Read(p)) /\ (request[p].op = "store" => answer[p] = {})
      /\ answer[p] = {} \/ \E e \in answer[p] : answer[p] = {e}
  BY DEF IInv, FileOK, Holding
<1>5. CASE request[p].op = "store"
  <2>1. PICK e \in Added(p) : Added(p) = {e}
    BY <1>5 DEF IInv, FreshOK, Storing, Holding
  <2>2. e.state = request[p].state /\ request[p].state \notin stored
    BY <1>5, <2>1 DEF IInv, FreshOK, Storing, Holding, Added
  <2>3. Pending' = Pending \cup {e} /\ e \in Pending'
    BY <1>1, <1>3, <1>4, <1>5, <2>1 DEF Read
  <2>4. stored' = stored \cup {e.state} /\ redeemed' = redeemed
    BY <1>2, <1>4, <1>5, <2>1 DEF StatesOf
  <2>5. Registry!Issue
    BY <1>2, <2>2, <2>3, <2>4 DEF Registry!Issue
  <2> QED
    BY <2>5 DEF Registry!Next
<1>6. CASE request[p].op # "store"
  <2>1. Added(p) = {} /\ stored' = stored
    BY <1>2, <1>6 DEF Added, StatesOf
  <2>2. CASE answer[p] = {}
    <3>1. Pending' = Pending /\ redeemed' = redeemed
      BY <1>1, <1>2, <2>1, <2>2 DEF Read, StatesOf
    <3> QED
      BY <1>2, <2>1, <3>1 DEF Registry!vars
  <2>3. ASSUME NEW e \in answer[p], answer[p] = {e} PROVE [Registry!Next]_Registry!vars
    <3>1. e \in Pending /\ e.state \notin redeemed
      BY <1>1, <1>4 DEF Read, Registered
    <3>2. Pending' = Pending \ {e}
      BY <1>1, <1>3, <2>1, <2>3 DEF Read
    <3>3. redeemed' = redeemed \cup {e.state}
      BY <1>2, <2>3 DEF StatesOf
    <3>4. Registry!Redeem
      BY <1>2, <2>1, <3>1, <3>2, <3>3 DEF Registry!Redeem
    <3> QED
      BY <3>4 DEF Registry!Next
  <2> QED
    BY <1>4, <2>2, <2>3
<1> QED
  BY <1>5, <1>6

\* Accidents: whatever is pending afterwards was stored and not redeemed.
LEMMA AccidentStep ==
  ASSUME IInv, IInv', NEW p \in Procs, ProcStep(p), resets' = resets + 1, UNCHANGED now
  PROVE  [Registry!Next]_Registry!vars
<1>1. \A e \in Pending' : e.state \in stored' \ redeemed'
  <2>1. CASE \A q \in Procs : step'[q] # "truncated"
    <3>1. Pending' = file'
      BY <2>1 DEF Pending
    <3> QED
      BY <3>1 DEF IInv, FileOK, Registered
  <2>2. ASSUME NEW q \in Procs, step'[q] = "truncated"
        PROVE  \A e \in Pending' : e.state \in stored' \ redeemed'
    <3>1. Pending' = Read(q)'
      BY <2>2, PendingIsReadNext DEF IInv
    <3>2. Registered(Read(q))'
      BY <2>2 DEF IInv, FileOK, Holding
    <3> QED
      BY <3>1, <3>2 DEF Registered
  <2> QED
    BY <2>1, <2>2
<1>2. stored \subseteq stored' /\ redeemed \subseteq redeemed'
  BY Effects DEF IInv
<1> QED
  BY <1>1, <1>2 DEF Registry!Next, Registry!Reset

\* Truncating forgets what had expired, and nothing else.
LEMMA TruncateStep ==
  ASSUME IInv, IInv', NEW p \in Procs, Truncate(p), p \notin disturbed
  PROVE  [Registry!Next]_Registry!vars
<1>1. /\ step[p] = "loaded" /\ step'[p] = "truncated"
      /\ UNCHANGED <<now, copy, answer, request, memory, stored, redeemed, resets>>
  BY DEF Truncate, Displaced, IInv, TypeOK
<1>2. Pending = file
  BY <1>1, PendingIsFile DEF IInv, LockOK, Critical
<1>3. Pending' = Read(p)
  <2>1. Pending' = Read(p)'
    BY <1>1, PendingIsReadNext DEF IInv
  <2>2. Read(p)' = Read(p)
    BY <1>1 DEF Read, Added
  <2> QED
    BY <2>1, <2>2
<1>4. Read(p) \subseteq file /\ \A e \in file \ Read(p) : e.expires <= now
  BY <1>1 DEF IInv, FileOK
<1> QED
  BY <1>1, <1>2, <1>3, <1>4 DEF Registry!Next, Registry!Purge

\* Every step is a step of the registry, or invisible to it.
LEMMA RegistryStep ==
  ASSUME IInv, IInv', [Next]_vars
  PROVE  [Registry!Next]_Registry!vars
<1>1. CASE Tick
  <2>1. UNCHANGED <<file, call, memory, stored, redeemed, resets>> /\ now' = now + 1
    BY <1>1 DEF Tick, history
  <2>2. Pending' = Pending
    BY <2>1 DEF Pending, Added, call
  <2> QED
    BY <2>1, <2>2 DEF Registry!Next, Registry!Tick
<1>2. CASE UNCHANGED vars
  <2>1. Pending' = Pending
    BY <1>2 DEF Pending, Added, vars, call
  <2> QED
    BY <1>2, <2>1 DEF Registry!vars, vars, history
<1>3. ASSUME NEW p \in Procs, ProcStep(p) PROVE [Registry!Next]_Registry!vars
  <2>1. CASE Begin(p)
    BY <1>3, <2>1, BeginKinds, InvisibleStep DEF IInv, history
  <2>2. CASE Acquire(p) \/ Unlock(p)
    <3>1. step[p] # "truncated" /\ step'[p] # "truncated"
          /\ UNCHANGED <<now, file, stored, redeemed, resets>>
      BY <2>2 DEF Acquire, Unlock, IInv, TypeOK, history
    <3> QED
      BY <1>3, <3>1, InvisibleStep
  <2>3. CASE Load(p)
    <3>1. step[p] # "truncated" /\ step'[p] # "truncated"
      BY <2>3, LoadKinds DEF IInv
    <3>2. UNCHANGED <<now, file, stored, redeemed, resets>>
      BY <2>3 DEF Load, history
    <3> QED
      BY <1>3, <3>1, <3>2, InvisibleStep
  <2>4. CASE Truncate(p)
    <3>1. UNCHANGED now /\ (p \in disturbed => resets' = resets + 1)
      BY <2>4 DEF Truncate, Displaced
    <3> QED
      BY <1>3, <2>4, <3>1, TruncateStep, AccidentStep
  <2>5. CASE Dump(p) \/ FailSync(p)
    <3>1. step[p] = "truncated" /\ step'[p] # "truncated" /\ UNCHANGED now
          /\ (Written(p) \/ Mixed(p))
      BY <2>5 DEF Dump, FailSync, IInv, TypeOK
    <3> QED
      BY <1>3, <3>1, WrittenStep, AccidentStep DEF Mixed
  <2>6. CASE FailDump(p)
    BY <1>3, <2>6, AccidentStep DEF FailDump, Lost
  <2>7. CASE Finish(p) \/ Raise(p) \/ FailOpen(p)
    <3>1. step[p] # "truncated" /\ step'[p] # "truncated"
      BY <2>7, EndKinds DEF IInv, Finish, Raise, FailOpen
    <3>2. UNCHANGED <<now, file, stored, redeemed, resets>>
      BY <2>7 DEF Finish, Raise, FailOpen, Forgotten
    <3> QED
      BY <1>3, <3>1, <3>2, InvisibleStep
  <2>8. CASE Close(p)
    <3>1. step[p] # "truncated" /\ step'[p] # "truncated" /\ UNCHANGED now
      BY <2>8, EndKinds DEF IInv, Close
    <3>2. CASE WrittenLate(p)
      BY <1>3, <3>1, <3>2, AccidentStep DEF WrittenLate
    <3>3. CASE Forgotten(p) /\ UNCHANGED <<file, torn>>
      BY <1>3, <3>1, <3>3, InvisibleStep DEF Forgotten
    <3> QED
      BY <2>8, <3>2, <3>3 DEF Close
  <2>9. CASE Crash(p)
    <3>1. step'[p] # "truncated" /\ UNCHANGED now
      BY <2>9, EndKinds DEF IInv
    <3>2. CASE step[p] = "truncated"
      BY <1>3, <2>9, <3>1, <3>2, AccidentStep DEF Crash, Lost
    <3>3. CASE step[p] # "truncated"
      BY <1>3, <2>9, <3>1, <3>3, InvisibleStep DEF Crash
    <3> QED
      BY <3>2, <3>3
  <2> QED
    BY <1>3, <2>1, <2>2, <2>3, <2>4, <2>5, <2>6, <2>7, <2>8, <2>9, StepKinds
<1> QED
  BY <1>1, <1>2, <1>3 DEF Next, ProcStep

\* The shared file implements the registry of states: no lost update, no loss but by
\* expiry or in an accident with the whole file, and no accident brings back a state
\* that was redeemed.
THEOREM ImplementsRegistry == Spec => RegistrySpec
<1>1. Init => Registry!Init
  BY DEF Init, Registry!Init, Pending
<1> QED
  BY <1>1, InvInit, InvStep, RegistryStep, PTL DEF Spec, RegistrySpec, Registry!Spec
=============================================================================
