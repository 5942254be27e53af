------------------------- MODULE InterferenceEngine -------------------------
(***************************************************************************)
(* mockdocs/concurrency.py: a scripted second editor that works in the     *)
(* document of SuggestionDoc while the tools are called.                   *)
(*                                                                         *)
(* An interference fires before or after the n-th call that matches its    *)
(* trigger, so the calls are the only clock; a middleware holds one lock   *)
(* for the whole of a call, which makes of parallel calls one sequence.    *)
(* What was called, what fired and where is recorded, and written with the *)
(* state to a file, for a grader that replays it on a fresh backend.       *)
(*                                                                         *)
(* A call may be cancelled by its client.  The lock is then released at    *)
(* once, but a request already handed to a thread is still carried out.    *)
(* A segment is searched for characters and not for text.                  *)
(***************************************************************************)
EXTENDS SuggestionDoc

CONSTANTS
    Me,             \* the account the tools act for
    Seed,           \* the operations the backend is seeded with
    Scripts,        \* the scripts: sequences of interferences
    CallMenu,       \* the calls a client may make: a tool and what it writes
    MaxCalls        \* bound: calls of one run

\* An operation, of either editor, is a record with the field `kind' and what that
\* kind needs; an interference has a name, a trigger and an operation.
NoOp == [kind |-> "none"]
OpKinds ==
    {"none", "comment", "resolve_under_agent", "shift_insert", "shift_delete",
     "resolve_thread", "overlapping_suggestion", "merge_absorb", "reply_thread"}

\* An operation that edits text names its author, a segment and a place.
EditKinds == {"shift_insert", "shift_delete", "overlapping_suggestion"}
WellFormed(op) ==
    /\ op.kind \in OpKinds
    /\ op.kind \in EditKinds =>
         /\ {"kind", "by", "seg", "at"} \subseteq DOMAIN op
         /\ op.by \in Authors /\ op.seg \in Segments
         /\ op.at.how \in {"at", "end", "before", "after"}
    /\ op.kind = "overlapping_suggestion" =>
         "mode" \in DOMAIN op /\ op.mode \in {"insertion", "replacement", "deletion"}

\* parse_script: a trigger has a phase and an ordinal, and names are unique.
Parsed(s) ==
    /\ \A i \in DOMAIN s :
         /\ s[i].trigger.when \in {"before", "after"}
         /\ s[i].trigger.nth \in Nat \ {0}
         /\ WellFormed(s[i].op)
    /\ \A i, j \in DOMAIN s : s[i].name = s[j].name => i = j

\* Bound: the ids an operation may take.
PerOp == 2

ASSUME EngineAssumption ==
    /\ Me \in Authors /\ MaxCalls \in Nat
    /\ Seed \in Seq(ToSet(Seed)) /\ \A i \in DOMAIN Seed : WellFormed(Seed[i])
    /\ PerOp * Len(Seed) <= MaxSuggestions
    /\ \A s \in Scripts : s \in Seq(ToSet(s)) /\ Parsed(s)
    /\ \A c \in CallMenu : WellFormed(c.op)

VARIABLES
    script, threads, record, matches, firedNames, inside, late, disk

engineVars ==
    <<doc, script, threads, record, matches, firedNames, inside, late, disk>>

-----------------------------------------------------------------------------
(* Where an operation applies: a set with the place, or empty if there is none. *)

\* _anchor_index: an index, the end, or next to the first occurrence of a
\* character.
Anchors(chars, at) ==
    LET hits == {i \in DOMAIN chars : chars[i].cp = at.cp}
    IN CASE at.how = "at"     -> {at.n} \cap 0..Len(chars)
         [] at.how = "end"    -> {Len(chars)}
         [] at.how = "before" -> {Min(hits) - 1 : i \in hits}
         [] at.how = "after"  -> {Min(hits) : i \in hits}

\* _span: from the anchor on, one character.
Spans(chars, at) == {i \in Anchors(chars, at) : i < Len(chars)}

\* `$latest' is what its author touched last.
Latest(d, a) ==
    LET own == {s \in Open(d) : AuthorOf(s) = a}
    IN {s \in own : \A t \in own : d.registry[t].touched <= d.registry[s].touched}
HomeOf(d, s) == CHOOSE seg \in Segments : s \in MarkedIn(d.segments[seg])

-----------------------------------------------------------------------------
(* The catalogue.  A world is the document and the comment threads; a handler *)
(* yields the world it leaves behind and the extremes it must not have moved. *)

Refused(w) == [world |-> w, ok |-> FALSE, keeps |-> {}]
Done(w, d, keeps) == [world |-> [w EXCEPT !.doc = d], ok |-> TRUE, keeps |-> keeps]

\* Mutant: a decision is thought to leave the text as it was read.
DecisionKeeps_Swapped(action) ==
    IF action = "accept" THEN {"original"} ELSE {"final"}
DecisionKeeps(action) == IF action = "accept" THEN {"final"} ELSE {"original"}

ResolveUnderAgent(w, op) ==
    Done(w, IF op.sid \notin Open(w.doc) THEN w.doc
            ELSE IF op.action = "accept" THEN Accept(w.doc, op.sid)
            ELSE Reject(w.doc, op.sid),
         DecisionKeeps(op.action))

ShiftInsert(w, op) ==
    LET places == Anchors(w.doc.segments[op.seg], op.at)
    IN IF places = {} THEN Refused(w)
       ELSE LET i == Min(places)
            IN IF op.suggest
               THEN Done(w, Insert(w.doc, op.seg, i, 1, op.by).doc, {"original"})
               ELSE Done(w, EditInsert(w.doc, op.seg, i, 1), {})

ShiftDelete(w, op) ==
    LET places == Spans(w.doc.segments[op.seg], op.at)
    IN IF places = {} THEN Refused(w)
       ELSE LET i == Min(places)
            IN IF op.suggest
               THEN Done(w, Delete(w.doc, op.seg, i, i + 1, op.by).doc, {"original"})
               ELSE Done(w, EditDelete(w.doc, op.seg, i, i + 1), {})

ResolveThread(w, op) ==
    LET existed == op.comment \in DOMAIN w.threads
        both == {"original", "final"}
    IN [world |-> IF ~existed THEN w
                  ELSE IF op.action = "delete"
                  THEN [w EXCEPT !.threads =
                          [c \in DOMAIN w.threads \ {op.comment} |-> w.threads[c]]]
                  ELSE [w EXCEPT !.threads[op.comment] =
                          [status |-> IF op.action = "resolve" THEN "RESOLVED"
                                      ELSE "OPEN",
                           posts |-> Append(@.posts, op.by)]],
        ok |-> TRUE, keeps |-> both]

OverlappingSuggestion(w, op) ==
    LET chars == w.doc.segments[op.seg]
        places == IF op.mode = "insertion" THEN Anchors(chars, op.at)
                  ELSE Spans(chars, op.at)
    IN IF places = {} THEN Refused(w)
       ELSE LET i == Min(places)
            IN Done(w, CASE op.mode = "insertion" ->
                              Insert(w.doc, op.seg, i, 1, op.by).doc
                         [] op.mode = "replacement" ->
                              Replace(w.doc, op.seg, i, i + 1, 1, op.by).doc
                         [] op.mode = "deletion" ->
                              Delete(w.doc, op.seg, i, i + 1, op.by).doc,
                    {"original"})

\* Where the latest suggestion of the account itself ends, in its own segment.
MergeAbsorb(w, op) ==
    LET latest == Latest(w.doc, Me)
    IN IF latest = {} THEN Refused(w)
       ELSE LET s == CHOOSE s \in latest : TRUE
                seg == HomeOf(w.doc, s)
                end == Span(w.doc.segments[seg], s).hi
            IN Done(w, Insert(w.doc, seg, end, 1, Me).doc, {"original"})

ReplyThread(w, op) ==
    LET both == {"original", "final"}
    IN IF op.on = "suggestion"
       THEN IF op.sid \in Open(w.doc) THEN Done(w, Reply(w.doc, op.sid), both)
            ELSE Refused(w)
       ELSE IF op.comment \in DOMAIN w.threads
       THEN [world |-> [w EXCEPT !.threads[op.comment].posts = Append(@, op.by)],
             ok |-> TRUE, keeps |-> both]
       ELSE Refused(w)

\* create_comment_thread: the other operations need one.
CommentThread(w, op) ==
    [world |-> [w EXCEPT !.threads =
        [c \in DOMAIN w.threads \cup {Cardinality(DOMAIN w.threads) + 1} |->
            IF c \in DOMAIN w.threads THEN w.threads[c]
            ELSE [status |-> "OPEN", posts |-> <<op.by>>]]],
     ok |-> TRUE, keeps |-> {"original", "final"}]

Handled(w, op) ==
    CASE op.kind = "resolve_under_agent"    -> ResolveUnderAgent(w, op)
      [] op.kind = "shift_insert"           -> ShiftInsert(w, op)
      [] op.kind = "shift_delete"           -> ShiftDelete(w, op)
      [] op.kind = "resolve_thread"         -> ResolveThread(w, op)
      [] op.kind = "overlapping_suggestion" -> OverlappingSuggestion(w, op)
      [] op.kind = "merge_absorb"           -> MergeAbsorb(w, op)
      [] op.kind = "reply_thread"           -> ReplyThread(w, op)
      [] op.kind = "comment"                -> CommentThread(w, op)
      [] op.kind = "none"                   -> Done(w, w.doc, {})

-----------------------------------------------------------------------------
(* check_model: what an operation must leave true. *)

DecideAll(d, accepted) ==
    LET ids == SetToSeq(Open(d))
        decided[k \in 0..Len(ids)] ==
          IF k = 0 THEN d
          ELSE IF ids[k] \in accepted THEN Accept(decided[k - 1], ids[k])
          ELSE Reject(decided[k - 1], ids[k])
    IN decided[Len(ids)]
Shown(d) == [seg \in Segments |->
    [i \in DOMAIN d.segments[seg] |-> d.segments[seg][i].cp]]
Final(d) == Outcome(d, Open(d))
Original(d) == Outcome(d, {})

\* The split of L5 takes every other id.
EveryOther(d) ==
    LET ids == SetToSeq(Open(d)) IN {ids[i] : i \in {j \in DOMAIN ids : j % 2 = 1}}

Broken(rule, before, after) ==
    LET Wrong(accepted) == LET decided == DecideAll(after, accepted)
                           IN Shown(decided) # Outcome(after, accepted) \/ Open(decided) # {}
    IN CASE rule = "I1 I2"       -> Marked(after) # Open(after)
         [] rule = "L1 accepted" -> Wrong(Open(after))
         [] rule = "L1 rejected" -> Wrong({})
         [] rule = "L5"          -> Wrong(EveryOther(after))
         [] rule = "original"    -> Original(after) # Original(before)
         [] rule = "final"       -> Final(after) # Final(before)

CheckModel(before, after, keeps) ==
    {rule \in {"I1 I2", "L1 accepted", "L1 rejected", "L5"} \cup keeps :
        \E d \in {after} : Broken(rule, before, d)}

-----------------------------------------------------------------------------
(* The engine. *)

World == [doc |-> doc, threads |-> threads]

Becomes(w) == doc' = w.doc /\ threads' = w.threads

Matches(trigger, tool) == trigger.tools = {} \/ tool \in trigger.tools

Snapshot(w, rec) == [world |-> w, record |-> rec]

\* Mutant: any call advances the counter, not only one that matches.
Due_AnyCall(e, x, phase, call) == x.trigger.when = phase /\ x.name \notin e.names
\* The interferences a call concerns in this phase.
Due(e, x, phase, call) ==
    /\ x.trigger.when = phase
    /\ x.name \notin e.names
    /\ Matches(x.trigger, e.rec.calls[call].tool)

\* _apply: marked as fired first; one that fails is recorded and fires no more.
Recorded(e, x, phase, call, r) ==
    [e EXCEPT !.world = r.world, !.names = @ \cup {x.name},
              !.rec = [calls |-> @.calls, fired |-> Append(@.fired,
                 [name |-> x.name, when |-> phase, at |-> call, ok |-> r.ok,
                  violations |-> IF r.ok
                                 THEN CheckModel(e.world.doc, r.world.doc, r.keeps)
                                 ELSE {"failed to apply"}])]]
Apply(e, x, phase, call) == Recorded(e, x, phase, call, Handled(e.world, x.op))

Counted(e, x, phase, call) ==
    IF ~Due(e, x, phase, call) THEN e
    ELSE LET n == e.counts[x.name] + 1
             counted == [e EXCEPT !.counts[x.name] = n]
         IN IF n = x.trigger.nth THEN Apply(counted, x, phase, call) ELSE counted

\* fire: the interferences in the order of the script.
Fire(e, phase, call) ==
    LET fired[k \in 0..Len(script)] ==
          IF k = 0 THEN e ELSE Counted(fired[k - 1], script[k], phase, call)
    IN fired[Len(script)]

Engine(rec) == [world |-> World, rec |-> rec, names |-> firedNames, counts |-> matches]

\* The engine's part of the next state.
Goes(e) ==
    /\ Becomes(e.world)
    /\ record' = e.rec /\ firedNames' = e.names /\ matches' = e.counts
    /\ UNCHANGED script

\* What comes of operations one after the other.
Played(w, ops) ==
    LET played[k \in 0..Len(ops)] ==
          IF k = 0 THEN w ELSE Handled(played[k - 1], ops[k]).world
    IN played[Len(ops)]
Seeded == Played([doc |-> InitialDoc, threads |-> <<>>], Seed)

EngineInit ==
    LET seeded == Seeded
    IN /\ doc = seeded.doc /\ threads = seeded.threads
       /\ script \in Scripts
       /\ record = [calls |-> <<>>, fired |-> <<>>]
       /\ matches = [name \in {script[i].name : i \in DOMAIN script} |-> 0]
       /\ firedNames = {}
       /\ inside = {} /\ late = {}
       /\ disk = Snapshot(seeded, [calls |-> <<>>, fired |-> <<>>])

-----------------------------------------------------------------------------
(* The calls. *)

\* Mutant: a call does not wait for the one before it.
LockIsFree_Always == Cardinality(inside) < 2
LockIsFree == inside = {}

\* begin_call, then what fires before the call.
Enter ==
    /\ LockIsFree /\ Len(record.calls) < MaxCalls /\ RoomFor(PerOp * Len(script))
    /\ \E c \in CallMenu :
         LET n == Len(record.calls) + 1
             rec == [record EXCEPT !.calls =
                       Append(@, [tool |-> c.tool, op |-> c.op, answer |-> "none"])]
         IN \E e \in {Fire(Engine(rec), "before", n)} :
            /\ Goes(e)
            /\ inside' = inside \cup {[n |-> n, step |-> "read", op |-> c.op]}
            /\ disk' = IF Len(e.rec.fired) = Len(record.fired) THEN disk
                       ELSE Snapshot(e.world, e.rec)
    /\ UNCHANGED late

\* What a tool found it goes by: the index of the text, the id of the card.
AsRead(op) ==
    IF op.kind # "overlapping_suggestion" THEN {op}
    ELSE {[op EXCEPT !.at = [how |-> "at", n |-> i, cp |-> <<>>]] :
            i \in IF op.mode = "insertion"
                  THEN Anchors(doc.segments[op.seg], op.at)
                  ELSE Spans(doc.segments[op.seg], op.at)}

\* The tool reads the document, and refuses if there is nothing to write at.
Read(c) ==
    /\ c.step = "read"
    /\ disk' = Snapshot(World, record)
    /\ \/ /\ AsRead(c.op) = {} \/ c.op.kind = "none"
          /\ inside' = (inside \ {c}) \cup
               {[c EXCEPT !.step = IF c.op.kind = "none" THEN "ok" ELSE "error"]}
       \/ \E op \in AsRead(c.op) :
            /\ op.kind # "none"
            /\ inside' = (inside \ {c}) \cup {[c EXCEPT !.step = "write", !.op = op]}
    /\ UNCHANGED <<doc, script, threads, record, matches, firedNames, late>>

\* The API refuses a decision about a card that is gone, where the other editor's
\* is without effect.
Accepted(r, op) ==
    /\ r.ok
    /\ op.kind = "resolve_under_agent" => op.sid \in Open(doc)
    /\ op.kind = "resolve_thread" => op.comment \in DOMAIN threads

\* _Call.execute, with the snapshot written behind it.
Write(c) ==
    /\ c.step = "write" /\ RoomFor(PerOp)
    /\ \E r \in {Handled(World, c.op)} :
         LET w == IF Accepted(r, c.op) THEN r.world ELSE World
         IN /\ Becomes(w)
            /\ disk' = Snapshot(w, record)
            /\ inside' = (inside \ {c}) \cup
                 {[c EXCEPT !.step = IF Accepted(r, c.op) THEN "ok" ELSE "error"]}
    /\ UNCHANGED <<script, record, matches, firedNames, late>>

\* Mutant: the snapshot is left to the next API call.
AfterAnswer_Later(e) == disk
AfterAnswer(e) == Snapshot(e.world, e.rec)

\* end_call, what fires after the call, and the snapshot.
Answer(c) ==
    /\ c.step \in {"ok", "error"} /\ RoomFor(PerOp * Len(script))
    /\ LET rec == [record EXCEPT !.calls[c.n].answer = c.step]
       IN \E e \in {Fire(Engine(rec), "after", c.n)} :
            Goes(e) /\ disk' = AfterAnswer(e)
    /\ inside' = inside \ {c}
    /\ UNCHANGED late

\* CancelledError is no Exception: nothing is ended, nothing fires.  A request that
\* has been handed to its thread goes on.
Cancel(c) ==
    /\ inside' = inside \ {c}
    /\ \/ late' = late
       \/ c.step = "write" /\ late = {} /\ late' = {c.op}
    /\ UNCHANGED <<doc, script, threads, record, matches, firedNames, disk>>

LateWrite ==
    /\ RoomFor(PerOp)
    /\ \E op \in late : \E r \in {Handled(World, op)} :
         LET w == IF Accepted(r, op) THEN r.world ELSE World
         IN Becomes(w) /\ disk' = Snapshot(w, record)
    /\ late' = {}
    /\ UNCHANGED <<script, record, matches, firedNames, inside>>

EngineNext ==
    \/ Enter \/ LateWrite
    \/ \E c \in inside : Read(c) \/ Write(c) \/ Answer(c) \/ Cancel(c)

EngineSpec == EngineInit /\ [][EngineNext]_engineVars

-----------------------------------------------------------------------------
(* Properties. *)

EngineTypeOK ==
    /\ script \in Scripts
    /\ \A i \in DOMAIN record.calls : record.calls[i].answer \in {"none", "ok", "error"}
    /\ \A i \in DOMAIN record.fired : record.fired[i].at \in DOMAIN record.calls
    /\ \A name \in DOMAIN matches : matches[name] \in 0..MaxCalls
    /\ firedNames \subseteq DOMAIN matches
    /\ \A c \in inside : c.step \in {"read", "write", "ok", "error"}

\* What the log of the calls says must have fired, and at which call: at the nth of
\* the calls that match, of which an interference `after' sees those answered.
SeenBy(x) ==
    {n \in DOMAIN record.calls :
       /\ Matches(x.trigger, record.calls[n].tool)
       /\ x.trigger.when = "after" => record.calls[n].answer # "none"}
NthSeen(x) == {n \in SeenBy(x) : Cardinality({m \in SeenBy(x) : m <= n}) = x.trigger.nth}

\* Everything the engine decides is a function of the calls in their order, however
\* they were made and whichever were cancelled: an interference fires once, at its
\* call, and fails or succeeds there for good.
FiringFollowsTheCalls ==
    \A i \in DOMAIN script :
      {record.fired[k].at : k \in {k \in DOMAIN record.fired :
                                     record.fired[k].name = script[i].name}}
        = NthSeen(script[i])

\* What a record says of a call: the operations that fired before it, its own if it
\* was answered, and those that fired after it.
OpOf(s, name) == s[CHOOSE i \in DOMAIN s : s[i].name = name].op
OpsIn(s, rec, phase, n) ==
    Kept([k \in DOMAIN rec.fired |-> OpOf(s, rec.fired[k].name)],
         {k \in DOMAIN rec.fired :
            rec.fired[k].at = n /\ rec.fired[k].when = phase /\ rec.fired[k].ok})
Answered(rec, n) ==
    IF rec.calls[n].answer = "ok" THEN <<rec.calls[n].op>> ELSE <<>>
Replay(s, rec) ==
    LET replayed[n \in 0..Len(rec.calls)] ==
          IF n = 0 THEN Seeded
          ELSE Played(Played(Played(replayed[n - 1], OpsIn(s, rec, "before", n)),
                             Answered(rec, n)),
                      OpsIn(s, rec, "after", n))
    IN replayed[Len(rec.calls)]

\* A run of which no call was cancelled is what its record says: a grader that
\* replays the script in the order of the record, on a fresh backend, has the
\* document, and the snapshot between two calls holds both.
RecordTellsTheRun ==
    (inside = {} /\ \A n \in DOMAIN record.calls : record.calls[n].answer # "none") =>
      /\ World = Replay(script, record)
      /\ disk = Snapshot(World, record)

\* The second editor keeps the rules of the suggesting mode: what it does never
\* moves the extreme it promises to keep, so a violation in a record is one of the
\* script and none of the operations.
SecondEditorIsSound ==
    \A k \in DOMAIN record.fired :
      record.fired[k].ok => record.fired[k].violations = {}
=============================================================================
