--------------------------- MODULE ReviewSession ----------------------------
(***************************************************************************)
(* gdocs_preview/write_tools.py and curated_tools.py: the review tool      *)
(* calls of one session on one Google document, the other editors of that  *)
(* document, and the ledger the calls share.                               *)
(*                                                                         *)
(* A call is a coroutine: it runs without interruption between two awaits, *)
(* and every await is a request to Google.  So a resolving call has up to  *)
(* four steps: it snapshots the ledger and sends its write (Start), Google *)
(* applies the write (Resolve, NoEffect, ...), Google serves the read that *)
(* verifies it (ServeRead), and the call draws its conclusions and updates *)
(* the ledger (Finish).  Other calls and other editors run in between.     *)
(***************************************************************************)
EXTENDS SuggestionLedger, TLC

CONSTANTS
    Calls,      \* slots for tool calls: as many may be in flight together
    Body,       \* ids of the cards the degraded read can see
    Mine,       \* ids of the cards whose thread names the user as author
    Initial,    \* ids pending when the session begins
    Typos,      \* ids an agent may name that no suggestion ever has
    Tools,      \* the kinds of call made in this run
    Faults      \* what may go wrong in this run, a subset of AllFaults

AllFaults == {"no_effect", "lost_response", "degraded_read", "failed_read",
              "marks_lost", "evicted"}

ASSUME SessionAssumption ==
    /\ Body \subseteq Ids /\ Initial \subseteq Ids /\ Mine \subseteq Ids
    /\ Typos \subseteq Ids /\ Typos \cap (Initial \cup Mine) = {}
    /\ Tools \subseteq {"list", "resolve", "suggest"}
    /\ Faults \subseteq AllFaults

VARIABLES
    pending,    \* the suggestions open in the document
    described,  \* those whose content marks the analysis layer can walk
    created,    \* every id the document ever had
    ledger,     \* the session's entry for this document
    calls,      \* the tool call in each slot
    last,       \* what the call that has just returned tells the agent
    history     \* what finished calls are known to have removed (no guard reads it)

doc == <<pending, described, created>>
vars == <<pending, described, created, ledger, calls, last, history>>

Coverage == {"complete", "degraded", "failed"}
NoRead == [listed |-> {}, threads |-> {}, authored |-> {}, coverage |-> "failed"]
NoAnswer == [target |-> NoId, stillPending |-> Unknown, matches |-> Unknown,
             removed |-> {}, echoed |-> {}, made |-> {}, rung |-> "none",
             coverage |-> "failed"]
IdleCall == [phase |-> "idle", kind |-> "none", verify |-> FALSE,
             target |-> NoId, before |-> NoSnapshot, card |-> NoCard,
             took |-> {}, made |-> {}, reported |-> {}, read |-> NoRead]
NoHistory == [named |-> {}, attested |-> {}]

Init ==
    /\ pending = Initial
    /\ described = Initial
    /\ created = Initial
    /\ ledger = FreshEntry
    /\ calls = [c \in Calls |-> IdleCall]
    /\ last = NoAnswer
    /\ history = NoHistory

Becomes(c, call) == calls' = [calls EXCEPT ![c] = call]
Silent == last' = NoAnswer

Returns(c, answer) ==
    /\ Becomes(c, IdleCall)
    /\ last' = [answer EXCEPT !.target = calls[c].target, !.made = calls[c].made]

-----------------------------------------------------------------------------
(* What one read can say: _PostWriteRead. *)

\* Mutant: absence is evidence whatever the read covered.
PendingState_AnyRead(read, s, card) ==
    IF s \in read.listed \cup read.threads THEN Yes ELSE No

\* Mutant: the pending threads of the API are not consulted.
PendingState_MarksOnly(read, s, card) ==
    IF s \in read.listed THEN Yes
    ELSE IF read.coverage = "complete" \/ card = "unnamed" THEN No
    ELSE Unknown

PendingState(read, s, card) ==
    IF s \in read.listed \cup read.threads THEN Yes
    ELSE IF read.coverage = "complete" THEN No
    ELSE IF card = "unnamed" THEN No        \* the one space this read walked
    ELSE Unknown

\* Mutant: whatever this read cannot say is gone.
Gone_Unattested(read, candidates, cards) ==
    {s \in candidates : PendingState(read, s, cards[s]) # Yes}

\* absences: the ids whose disappearance this read attests.
Gone(read, candidates, cards) ==
    {s \in candidates : PendingState(read, s, cards[s]) = No}

Vanished(call) ==
    IF call.before.taken
    THEN Gone(call.read, call.before.ids \ (call.read.listed \cup {call.target}),
              ledger.records)
    ELSE {}

\* Mutants: every resolution is filed as landed; a read that cannot say counts
\* as failure.
LandedOf_NotAsked(stillPending) == Yes
LandedOf_AssumesFailure(stillPending) == IF stillPending = No THEN Yes ELSE No

\* The verdict the ledger is told: the one the response carries.
LandedOf(stillPending) ==
    IF stillPending = Unknown THEN Unknown
    ELSE IF stillPending = Yes THEN No ELSE Yes

\* _matches_expectation
MatchesExpectation(stillPending, text) ==
    IF stillPending = Unknown THEN Unknown
    ELSE IF stillPending = Yes THEN No
    ELSE text

\* Mutant: the coverage of the listing is not asked.
Promoted_AnyListing(call, appeared) == appeared \cap call.read.authored

\* The cards new since the last listing that this edit is said to have made: the
\* thread names the user, and that listing could have seen them.
Promoted(call, appeared) ==
    IF call.before.complete THEN appeared \cap call.read.authored ELSE {}

\* What the text comparison may say, given the card it has to go by.
TextChecks(read, card) ==
    IF card = NoCard \/ (read.coverage = "degraded" /\ card = "named")
    THEN {Unknown} ELSE Tri

-----------------------------------------------------------------------------
(* The session: the first step of a write. *)

Start(c) ==
    /\ calls[c].phase = "idle"
    /\ \E kind \in Tools \ {"list"}, verify \in BOOLEAN, target \in created \cup Typos :
         Becomes(c, [IdleCall EXCEPT
                       !.phase = "sent", !.kind = kind, !.verify = verify,
                       !.target = IF kind = "resolve" THEN target ELSE NoId,
                       !.before = Snapshot(ledger),
                       !.card = IF kind = "resolve" THEN ledger.records[target]
                                ELSE NoCard])
    /\ Silent /\ UNCHANGED <<doc, ledger, history>>

-----------------------------------------------------------------------------
(* Google: the write is applied, or not. *)

\* Resolving a suggestion removes it and every other one that loses its last
\* marked character.  The response may be lost after the write has landed.
Resolve(c) ==
    /\ calls[c].phase = "sent" /\ calls[c].kind = "resolve"
    /\ calls[c].target \in pending
    /\ \E others \in SUBSET (pending \ {calls[c].target}) :
         LET took == others \cup {calls[c].target}
             call == [calls[c] EXCEPT !.took = took, !.phase = "applied"]
         IN /\ pending' = pending \ took
            /\ \/ Becomes(c, call) /\ Silent
               \/ "lost_response" \in Faults /\ Returns(c, NoAnswer)
    /\ UNCHANGED <<described, created, ledger, history>>

\* A suggested edit opens one card, absorbing same-author neighbours, or joins
\* an existing card; the response names the card it opened, or nothing.
Suggest(c) ==
    /\ calls[c].phase = "sent" /\ calls[c].kind = "suggest"
    /\ \E n \in (Mine \ created) \cup {NoId},
          absorbed \in SUBSET (pending \cap Mine), reports \in BOOLEAN :
         LET new == {n} \ {NoId}
             call == [calls[c] EXCEPT !.phase = "applied", !.took = absorbed,
                        !.made = new, !.reported = IF reports THEN new ELSE {}]
         IN /\ n = NoId => absorbed = {}
            /\ pending' = (pending \ absorbed) \cup new
            /\ described' = described \cup new
            /\ created' = created \cup new
            /\ \/ Becomes(c, call) /\ Silent
               \/ "lost_response" \in Faults /\ Returns(c, NoAnswer)
    /\ UNCHANGED <<ledger, history>>

\* HTTP 200 and no effect: the id no longer resolves, or the API did nothing.
NoEffect(c) ==
    /\ calls[c].phase = "sent" /\ calls[c].kind = "resolve"
    /\ "no_effect" \in Faults
    /\ Becomes(c, [calls[c] EXCEPT !.phase = "applied"])
    /\ Silent /\ UNCHANGED <<doc, ledger, history>>

\* 404: that suggestion does not exist.  Any other error ends the call.
Refuse(c) ==
    /\ calls[c].phase = "sent"
    /\ \/ /\ calls[c].kind = "resolve" /\ calls[c].target \notin pending
          /\ Becomes(c, [calls[c] EXCEPT !.phase = "missing"])
          /\ Silent
       \/ Returns(c, NoAnswer)
    /\ UNCHANGED <<doc, ledger, history>>

-----------------------------------------------------------------------------
(* Google: a read is served, complete, or degraded to the one GA body. *)

ReadOf(coverage) ==
    CASE coverage = "complete" ->
           [listed |-> pending \cap described, threads |-> pending,
            authored |-> Mine \cap pending, coverage |-> coverage]
      [] coverage = "degraded" ->
           [listed |-> pending \cap described \cap Body, threads |-> {},
            authored |-> {}, coverage |-> coverage]
      [] coverage = "failed" -> NoRead

Served == {"complete"} \cup
          (IF "degraded_read" \in Faults THEN {"degraded"} ELSE {}) \cup
          (IF "failed_read" \in Faults THEN {"failed"} ELSE {})

\* A listing begins with the read; a verifying write reads after its write.
ServeRead(c) ==
    /\ \E coverage \in Served :
         \/ /\ calls[c].phase = "applied" /\ calls[c].verify
            /\ Becomes(c, [calls[c] EXCEPT !.phase = "read",
                                           !.read = ReadOf(coverage)])
         \/ /\ calls[c].phase = "idle" /\ "list" \in Tools
            /\ Becomes(c, [IdleCall EXCEPT !.phase = "read", !.kind = "list",
                                           !.read = ReadOf(coverage)])
    /\ Silent /\ UNCHANGED <<doc, ledger, history>>

-----------------------------------------------------------------------------
(* The session: the last step of a call. *)

\* What is known to be this session's doing once `call' is over: a write that
\* removed the card it `named', and the cards it removed and its own read `attested'.
After(call, attested) ==
    [named |-> history.named \cup (call.took \cap {call.target}),
     attested |-> history.attested \cup (call.took \cap attested)]

\* list_document_suggestions, get_doc_review_view: a failed read raises.
FinishList(c) ==
    /\ calls[c].phase = "read" /\ calls[c].kind = "list"
    /\ LET read == calls[c].read IN
       ledger' = IF read.coverage = "failed" THEN ledger
                 ELSE Observe(ledger, read.listed, read.coverage = "complete")
    /\ Returns(c, NoAnswer)
    /\ UNCHANGED <<doc, history>>

\* verify=false, or the post-write read failed: the request was accepted and
\* nothing looked at its effect.
FinishUnverified(c) ==
    LET call == calls[c] IN
    /\ \/ call.phase = "applied" /\ ~call.verify
       \/ call.phase = "read" /\ call.kind # "list" /\ call.read.coverage = "failed"
    /\ IF call.kind = "resolve"
       THEN /\ ledger' = RecordResolution(ledger, call.kind, call.target, {},
                                          Unknown, NoId)
            /\ history' = After(call, {})
       ELSE UNCHANGED <<ledger, history>>
    /\ Returns(c, NoAnswer)
    /\ UNCHANGED doc

Verified(c, kind) ==
    /\ calls[c].phase = "read" /\ calls[c].kind = kind
    /\ calls[c].read.coverage # "failed"

\* _verify_resolution: the verdict, the collateral, the ledger, in that order.
FinishResolve(c) ==
    /\ Verified(c, "resolve")
    /\ LET call == calls[c]
           read == call.read
           still == PendingState(read, call.target, call.card)
           removed == Vanished(call)
       IN /\ \E text \in TextChecks(read, call.card) :
               Returns(c, [NoAnswer EXCEPT
                             !.stillPending = still,
                             !.matches = MatchesExpectation(still, text),
                             !.removed = removed,
                             !.coverage = read.coverage])
          /\ ledger' = Observe(RecordResolution(ledger, call.kind, call.target,
                                                removed, LandedOf(still), NoId),
                               read.listed, read.coverage = "complete")
          /\ history' = After(call, removed \cup {s \in {call.target} : still = No})
    /\ UNCHANGED doc

\* _verify_suggest: which cards this edit is said to have created, and which
\* it is said to have absorbed.
FinishSuggest(c) ==
    /\ Verified(c, "suggest")
    /\ LET call == calls[c]
           read == call.read
           reported == call.reported \cap read.listed
           appeared == IF call.before.taken
                       THEN read.listed \ (call.before.ids \cup reported) ELSE {}
           echoed == reported \cup Promoted(call, appeared)
           vanished == Vanished(call)
       IN \E cause \in IF echoed = {} THEN {NoId}
                       ELSE IF reported # {} THEN reported ELSE echoed :
          /\ Returns(c, [NoAnswer EXCEPT !.removed = vanished,
                                         !.echoed = echoed,
                                         !.coverage = read.coverage])
          /\ ledger' = Observe(
               IF vanished = {} THEN ledger
               ELSE RecordResolution(ledger, call.kind, NoId, vanished, Yes, cause),
               read.listed, read.coverage = "complete")
          /\ history' = [history EXCEPT !.attested = @ \cup (call.took \cap vanished)]
    /\ UNCHANGED doc

\* _missing_suggestion_error: the ledger explains the 404.
Explain(c) ==
    /\ calls[c].phase = "missing"
    /\ Returns(c, [NoAnswer EXCEPT
                      !.rung = ExplainMissing(ledger, calls[c].target)])
    /\ UNCHANGED <<doc, ledger, history>>

\* MAX_DOCUMENTS other documents were touched since this one.
Evict ==
    /\ "evicted" \in Faults
    /\ ledger # FreshEntry
    /\ ledger' = FreshEntry
    /\ Silent /\ UNCHANGED <<doc, calls, history>>

-----------------------------------------------------------------------------
(* Everybody else. *)

EditorResolves ==
    /\ \E took \in (SUBSET pending) \ {{}} : pending' = pending \ took
    /\ Silent /\ UNCHANGED <<described, created, ledger, calls, history>>

\* Another editor's card; the same user may also edit in a browser.
EditorSuggests ==
    /\ \E n \in Ids \ (created \cup Typos) :
         /\ pending' = pending \cup {n}
         /\ described' = described \cup {n}
         /\ created' = created \cup {n}
    /\ Silent /\ UNCHANGED <<ledger, calls, history>>

\* A card loses its last content mark and keeps its thread (paragraph style).
MarksLost ==
    /\ "marks_lost" \in Faults
    /\ \E s \in pending \cap described : described' = described \ {s}
    /\ Silent /\ UNCHANGED <<pending, created, ledger, calls, history>>

-----------------------------------------------------------------------------

Google(c) == Resolve(c) \/ Suggest(c) \/ NoEffect(c) \/ Refuse(c) \/ ServeRead(c)
Session(c) == \/ FinishList(c) \/ FinishUnverified(c) \/ FinishResolve(c)
              \/ FinishSuggest(c) \/ Explain(c)
Others == Evict \/ EditorResolves \/ EditorSuggests \/ MarksLost

Next == \/ \E c \in Calls : Start(c) \/ Google(c) \/ Session(c)
        \/ Others

Spec == Init /\ [][Next]_vars

-----------------------------------------------------------------------------
(* Properties. *)

Rungs == {"none", "not_read", "direct_proven", "direct_refuted",
          "direct_unverified", "collateral_merge", "collateral",
          "collateral_refuted", "collateral_unverified", "may_landed",
          "may_unverified", "was_listed", "wrong_id", "degraded"}

Read == [listed: SUBSET Ids, threads: SUBSET Ids, authored: SUBSET Ids,
         coverage: Coverage]
Call == [phase: {"idle", "sent", "applied", "missing", "read"},
         kind: {"none", "list", "resolve", "suggest"}, verify: BOOLEAN,
         target: Ids \cup {NoId},
         before: [taken: BOOLEAN, ids: SUBSET Ids, complete: BOOLEAN],
         card: Cards \cup {NoCard}, took: SUBSET Ids, made: SUBSET Ids,
         reported: SUBSET Ids, read: Read]
Answer == [target: Ids \cup {NoId}, stillPending: Tri, matches: Tri,
           removed: SUBSET Ids, echoed: SUBSET Ids, made: SUBSET Ids,
           rung: Rungs, coverage: Coverage]
History == [named: SUBSET Ids, attested: SUBSET Ids]

\* The type invariant: of the document, the ledger entry, the calls in flight
\* and the answer of the last one.
TypeOK ==
    /\ pending \in SUBSET Ids /\ described \in SUBSET Ids /\ created \in SUBSET Ids
    /\ ledger \in Entry
    /\ calls \in [Calls -> Call]
    /\ \A c \in Calls : /\ calls[c].kind = "resolve" => calls[c].target # NoId
                        /\ calls[c].phase = "missing" => calls[c].kind = "resolve"
    /\ last \in Answer
    /\ history \in History

\* What the degraded read can still see of a card: it has no threads, so a card
\* that lost its marks is out of its sight (docs/findings/coverage.md).
Visible == pending \cap described

\* A response that says the target has left the pending set (still_pending:
\* false, or matches_expectation: true) is right about the document, whatever
\* else ran between the write, the read and the answer.
VerdictIsTrue ==
    last.stillPending = No \/ last.matches = Yes =>
        last.target \notin IF last.coverage = "complete" THEN pending ELSE Visible

\* also_removed_suggestion_ids never names a card that is still open: the read
\* behind it looked where that card lives.
CollateralIsGone ==
    last.removed \cap (IF last.coverage = "complete" THEN pending ELSE Visible) = {}

\* The ledger never remembers a removal of a card that is still open: a record
\* with landed = True outlives the response it was derived for, and is what
\* every later "does not exist" is explained from.
LandedIsGone ==
    \A s \in Filed(ledger) : ledger.resolutions[s].landed = Yes => s \notin Visible

\* A card the last read listed and that is still open keeps the text it was
\* listed with: no resolution, eviction of a resolution or degraded read costs
\* the next verification its expected_text.
EchoIsKept ==
    \A s \in ledger.lastReadIds \cap Visible : ledger.records[s] # NoCard

\* With one call at a time, "that call did not remove it" and "so it cannot be what
\* removed this one" are on file only of cards that no write naming them removed, and
\* that no write removed under the eyes of its own read.
RefutedHadNoEffect ==
    \A s \in Filed(ledger) :
        LET r == ledger.resolutions[s]
        IN r.landed = No => /\ s \notin history.attested
                            /\ r.direct => s \notin history.named

\* The answers that point away from this session: those that know of no resolution
\* which could have removed the card, and those that name one to rule it out ("most
\* likely another editor").
Unaware == {"was_listed", "wrong_id", "degraded"}
Denials == Unaware \cup {"direct_refuted", "collateral_refuted"}

\* With all resolutions remembered and one call at a time: a card that this session
\* removed, and saw gone right after, is never put down to others; and one it removed
\* by name is never answered as if the session had not touched it.
OwnRemovalIsNotDenied ==
    /\ last.rung \in Denials => last.target \notin history.attested
    /\ last.rung \in Unaware => last.target \notin history.named

\* created_suggestions names no card that was open before the session began and
\* none that another user made, whatever appeared since the last listing and
\* however little of the document that listing saw.
CreatedIsNewAndOurs == last.echoed \subseteq last.made \cup (Mine \ Initial)

\* The resolutions dict: at most MAX_RESOLUTIONS entries, numbered without gaps
\* from the oldest to the newest, so that the trim drops the oldest ones.
ResolutionsAreOrdered ==
    LET n == Cardinality(Filed(ledger))
    IN /\ n <= MaxResolutions
       /\ \A s \in Ids : ledger.place[s] > 0 <=> OnFile(ledger, s)
       /\ {ledger.place[s] : s \in Filed(ledger)} = 1..n

-----------------------------------------------------------------------------
(* The inductive invariant the safety properties rest on, as three facts     *)
(* about the document `cr', `pe', `de' (created, pending, described).        *)

\* An id of created or Typos is open now or never again.
DocOK(cr, pe) == pe \subseteq cr /\ Initial \subseteq cr /\ cr \cap Typos = {}

\* Everything an entry remembers is about ids that can no longer appear; an
\* unnamed card is one the degraded read walks; a complete listing names every
\* card that was open at the start and still is.
EntryOK(e, cr, pe, de) ==
    /\ Filed(e) \subseteq cr \cup Typos
    /\ e.lastReadIds \subseteq cr
    /\ \A s \in Ids : e.records[s] = "unnamed" => s \in Body
    /\ \A s \in Filed(e) : e.resolutions[s].landed = Yes => s \notin pe \cap de
    /\ \A s \in e.lastReadIds \cap pe \cap de : e.records[s] # NoCard
    /\ e.complete => Initial \cap pe \cap de \subseteq e.lastReadIds

\* A read that is being evaluated still attests what it attested when it was
\* served: an id it is asked about and does not report has left the document.
Asked(call) == {call.target} \cup call.before.ids
ReadOK(call, cr, pe, de) ==
    LET read == call.read IN
    /\ read.listed \subseteq cr /\ read.authored \subseteq Mine
    /\ read.coverage = "complete" =>
         /\ Asked(call) \cap pe \subseteq read.threads
         /\ Initial \cap pe \cap de \subseteq read.listed
    /\ read.coverage = "degraded" =>
         /\ read.listed \subseteq Body
         /\ Asked(call) \cap pe \cap de \cap Body \subseteq read.listed
    /\ call.before.complete => read.listed \cap Initial \subseteq call.before.ids

CallOK(call, cr, pe, de) ==
    /\ call.target \in cr \cup Typos \cup {NoId}
    /\ call.before.ids \subseteq cr
    /\ call.card = "unnamed" => call.target \in Body
    /\ call.reported \subseteq call.made
    /\ call.before.complete => Initial \cap pe \cap de \subseteq call.before.ids
    /\ call.phase = "read" => ReadOK(call, cr, pe, de)

SafetyInv ==
    /\ DocOK(created, pending)
    /\ EntryOK(ledger, created, pending, described)
    /\ \A c \in Calls : CallOK(calls[c], created, pending, described)

-----------------------------------------------------------------------------
(* Claims of the documentation that the code does not keep. *)

\* suggestion_ledger.py, the honesty ladder: the answer rests on "the strongest
\* evidence it actually has".  A resolution of the id itself is not displaced by
\* the weaker record that it left alongside another one.
StrongestEvidenceIsKept ==
    [][\A s \in Filed(ledger) :
         ledger.resolutions[s].direct /\ OnFile(ledger', s)
         => ledger'.resolutions[s].direct]_vars

\* explain_missing: "whatever removed it since is not something this session did", "most
\* likely another editor did".  But a card accepted with verify=false is filed anew as
\* collateral when a later accept of another card, without effect, is verified.
NoOwnRemovalIsDenied ==
    last.rung \in Denials => last.target \notin history.named

\* write_tools.py, _verify_suggest: created_suggestions says that "this call made
\* it"; the same session's earlier edit did not.
CreatedByThisCall == last.echoed \subseteq last.made

-----------------------------------------------------------------------------
(* What the runs reduce the states by.                                     *)

\* No formula names a call.
Symmetric == Permutations(Calls)

\* What the future of a call depends on: nothing reads what it `took' but
\* the history, and a call that will not verify never looks at its snapshot again.
Relevant(call) ==
    [call EXCEPT !.took = {},
                 !.before = IF call.verify THEN @ ELSE NoSnapshot,
                 !.card = IF call.verify THEN @ ELSE NoCard]

\* The state without the history, for runs whose properties do not name it.
WithoutHistory == <<doc, ledger, [c \in Calls |-> Relevant(calls[c])], last>>
=============================================================================
