----------------------------- MODULE MockBatch ------------------------------
(***************************************************************************)
(* mockdocs/adapter.py: one documents.batchUpdate, applied to the document *)
(* of SuggestionDoc request by request, and the response it is answered    *)
(* with.                                                                   *)
(*                                                                         *)
(* A batch runs without interruption, but not in one step: each request is *)
(* applied to what the ones before it left, a merge may destroy an id that *)
(* an earlier request of the same batch was answered with, and a request   *)
(* that is refused ends the batch where it stands.                         *)
(***************************************************************************)
EXTENDS SuggestionDoc

CONSTANTS
    MaxRequests,    \* bound: requests of one batch
    RequestTypes    \* the requests made in this run, a subset of AllRequests

AllRequests == {"insertText", "deleteContentRange", "replaceAllText",
                "acceptSuggestion", "rejectSuggestion", "deleteSuggestion",
                "addCommentReply"}

ASSUME BatchAssumption ==
    /\ MaxRequests \in Nat \ {0} /\ RequestTypes \subseteq AllRequests
    /\ IsFiniteSet(Segments)

VARIABLE batch

\* `responses' is suggestionResponses as far as createdSuggestionIds goes, one
\* set per request; `found' is history, the cards that were open when it began.
NoBatch == [phase |-> "none", author |-> <<>>, suggest |-> FALSE,
            responses |-> <<>>, watermark |-> {}, found |-> {}]

BatchInit == Init /\ batch = NoBatch

\* writeMode SUGGEST or EDIT.
Begin ==
    /\ batch.phase # "open"
    /\ \E a \in Authors, suggest \in BOOLEAN :
         batch' = [phase |-> "open", author |-> a, suggest |-> suggest,
                   responses |-> <<>>, watermark |-> doc.mergeLog, found |-> Open(doc)]
    /\ UNCHANGED doc

-----------------------------------------------------------------------------
(* Requests. *)

Requesting(type) ==
    /\ type \in RequestTypes /\ batch.phase = "open"
    /\ Len(batch.responses) < MaxRequests

\* _record, with the document the request leaves behind.
Record(d, created) ==
    /\ doc' = d
    /\ batch' = [batch EXCEPT !.responses = Append(@, created)]

\* Mutant: an edit that absorbed a card reports none, as the live API does.
ReportedBy_Unmerged(r) ==
    IF \E m \in r.doc.mergeLog : m[1] = r.sid THEN {} ELSE {r.sid}

\* The id of an edit is reported if it is still a card after it has settled.
ReportedBy(r) == {r.sid} \cap Open(r.doc)

InsertTextRequest ==
    /\ Requesting("insertText")
    /\ \E seg \in Segments, n \in Lengths : Fits(seg, n) /\ \E i \in Cursors(seg) :
         IF batch.suggest
         THEN RoomFor(1) /\ LET r == Insert(doc, seg, i, n, batch.author)
                            IN Record(r.doc, ReportedBy(r))
         ELSE Record(EditInsert(doc, seg, i, n), {})

DeleteContentRange ==
    /\ Requesting("deleteContentRange")
    /\ \E seg \in Segments : \E i, j \in Cursors(seg) : i < j /\
         IF batch.suggest
         THEN RoomFor(1) /\ LET r == Delete(doc, seg, i, j, batch.author)
                            IN Record(r.doc, ReportedBy(r))
         ELSE Record(EditDelete(doc, seg, i, j), {})

\* Every occurrence of one character in the whole document, one segment after the
\* other and from right to left, so that the offsets still to come stay valid; `hits'
\* are the places <<segment, index>> it is found at.
SegmentOrder == SetToSeq(Segments)
NextHit(hits) ==
    LET seg == SegmentOrder[Min({k \in DOMAIN SegmentOrder :
                                   \E hit \in hits : hit[1] = SegmentOrder[k]})]
    IN <<seg, Max({hit[2] : hit \in {h \in hits : h[1] = seg}})>>

\* Mutant: only the segment swept last is answered for.
ReplaceHit_LastSegment(r, n, a, suggest) ==
    LET hit == NextHit(r.hits)
        left == r.hits \ {hit}
        s == Replace(r.doc, hit[1], hit[2], hit[2] + 1, n, a)
        cut == EditDelete(r.doc, hit[1], hit[2], hit[2] + 1)
        turned == left # {} /\ \A h \in left : h[1] # hit[1]
    IN IF suggest
       THEN [doc |-> s.doc, hits |-> left,
             created |-> IF turned THEN {} ELSE r.created \cup ReportedBy(s)]
       ELSE [doc |-> EditInsert(cut, hit[1], hit[2], n), hits |-> left,
             created |-> r.created]

ReplaceHit(r, n, a, suggest) ==
    LET hit == NextHit(r.hits)
        left == r.hits \ {hit}
        s == Replace(r.doc, hit[1], hit[2], hit[2] + 1, n, a)
        cut == EditDelete(r.doc, hit[1], hit[2], hit[2] + 1)
    IN IF suggest
       THEN [doc |-> s.doc, hits |-> left, created |-> r.created \cup ReportedBy(s)]
       ELSE [doc |-> EditInsert(cut, hit[1], hit[2], n), hits |-> left,
             created |-> r.created]

ReplaceHits(d, hits, n, a, suggest) ==
    LET swept[k \in 0..Cardinality(hits)] ==
          IF k = 0 THEN [doc |-> d, hits |-> hits, created |-> {}]
          ELSE ReplaceHit(swept[k - 1], n, a, suggest)
    IN swept[Cardinality(hits)]

Places == UNION {{seg} \X (Cursors(seg) \ {Len(doc.segments[seg])}) : seg \in Segments}

ReplaceAllText ==
    /\ Requesting("replaceAllText")
    /\ \E n \in Lengths, hits \in SUBSET Places :
         /\ \A seg \in Segments : Fits(seg, n * Cardinality({h \in hits : h[1] = seg}))
         /\ batch.suggest => RoomFor(2 * Cardinality(hits))
         /\ LET r == ReplaceHits(doc, hits, n, batch.author, batch.suggest)
            IN Record(r.doc, r.created)

AcceptRequest ==
    /\ Requesting("acceptSuggestion")
    /\ \E s \in Open(doc) : Record(Accept(doc, s), {})

RejectRequest ==
    /\ Requesting("rejectSuggestion")
    /\ \E s \in Open(doc) : Record(Reject(doc, s), {})

\* Only the author may withdraw a suggestion; it is discarded like a rejected one.
DeleteSuggestion ==
    /\ Requesting("deleteSuggestion")
    /\ \E s \in Open(doc) : AuthorOf(s) = batch.author /\ Record(Reject(doc, s), {})

\* A reply may carry the decision with it.
AddCommentReply ==
    /\ Requesting("addCommentReply") /\ doc.clock < MaxClock
    /\ \E s \in Open(doc) :
         LET replied == Reply(doc, s)
         IN \/ Record(replied, {})
            \/ Record(Accept(replied, s), {})
            \/ Record(Reject(replied, s), {})

Request == \/ InsertTextRequest \/ DeleteContentRange \/ ReplaceAllText
           \/ AcceptRequest \/ RejectRequest \/ DeleteSuggestion \/ AddCommentReply

\* The next request is refused (an id that is not open, a range out of bounds,
\* another author's suggestion): HttpError leaves apply where it stands.
RefuseRequest ==
    /\ batch.phase = "open" /\ Len(batch.responses) < MaxRequests
    /\ batch' = [batch EXCEPT !.phase = "refused", !.responses = <<>>]
    /\ UNCHANGED doc

-----------------------------------------------------------------------------
(* The response. *)

\* Mutant: an id is followed for one merge only.
Heir_OneStep(renames, s) ==
    IF \E m \in renames : m[2] = s THEN (CHOOSE m \in renames : m[2] = s)[1] ELSE s

\* The id that now stands for s after the merges `renames'.
Heir(renames, s) ==
    LET heir[k \in 0..Cardinality(renames)] ==
          IF k = 0 THEN s
          ELSE LET t == heir[k - 1]
               IN IF \E m \in renames : m[2] = t
                  THEN (CHOOSE m \in renames : m[2] = t)[1] ELSE t
    IN heir[Cardinality(renames)]

\* _resolve_merges: the merges since the batch began.
Answer ==
    /\ batch.phase = "open" /\ batch.responses # <<>>
    /\ LET renames == doc.mergeLog \ batch.watermark
       IN batch' = [batch EXCEPT
            !.phase = "answered",
            !.responses = [i \in DOMAIN @ |-> {Heir(renames, s) : s \in @[i]}]]
    /\ UNCHANGED doc

BatchNext == Begin \/ Request \/ RefuseRequest \/ Answer

BatchSpec == BatchInit /\ [][BatchNext]_<<doc, batch>>

-----------------------------------------------------------------------------
(* Properties. *)

Reported == UNION ToSet(batch.responses)

\* No id in the response was merged away, by whichever request, however often; and
\* what is reported as created is the caller's and no card the batch found.
CreatedIdsSurviveMerges ==
    batch.phase = "answered" =>
      \A s \in Reported :
        /\ AuthorOf(s) = batch.author /\ s \notin batch.found
        /\ \A merge \in doc.mergeLog : merge[2] # s

\* Every card that a batch leaves open and did not find is in its response: no
\* card is opened behind the caller's back, whichever requests merged it.
NewCardsAreReported ==
    batch.phase = "answered" => Open(doc) \ batch.found \subseteq Reported

=============================================================================
