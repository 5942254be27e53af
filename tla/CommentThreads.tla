---------------------------- MODULE CommentThreads -----------------------------
(***************************************************************************)
(* The threads of a document and a caller who wants one post in one of     *)
(* them: reply_to_doc_thread and create_anchored_doc_comment               *)
(* (gdocs_preview/write_tools.py), whose answers say whether the post was  *)
(* saved and what to do when nobody knows, the comment tools of Drive      *)
(* (core/comments.py), and the three tools a caller reads back with.       *)
(*                                                                         *)
(* Of a thread only the copies of the caller's post count, not the others. *)
(* Threads are numbered in the order they were made in.  Arguments that    *)
(* are refused before a request is sent are left out.                      *)
(***************************************************************************)
EXTENDS Naturals, Sequences, FiniteSets

CONSTANTS
    None,        \* max_comments when the caller gives none
    Default,     \* WORKSPACE_MCP_COMMENTS_MAX
    PageMax,     \* the most the service puts on one page
    MaxThreads,  \* bound: threads ever
    MaxCopies    \* bound: copies of the post in one thread

VARIABLES
    threads,  \* the threads there have been
    client,   \* what the caller wants and knows
    reading   \* its list_document_comments under way

vars == <<threads, client, reading>>

Thread == [kind : {"comment", "suggestion"}, there : BOOLEAN, resolved : BOOLEAN, mine : 0..MaxCopies]
New(kind, mine) == [kind |-> kind, there |-> TRUE, resolved |-> FALSE, mine |-> mine]

\* commentUpdateState, where "" is its absence and "NEW" one this build does not know.
States == {"ALL_SAVED", "ALL_FAILED_UNKNOWN_REASON", "", "NEW"}

\* aim: the thread to reply to, 0 for a comment of its own; verdict: what the last answer
\* said; found: what reading back has shown since; elsewhere (history): it was read back
\* where that thread is not shown; urged (history): how often it was told to try again
\* although the post was saved.
Client == [aim : 0..MaxThreads,
           verdict : {"none", "saved", "retry", "unknown", "raised"},
           found : {"nothing_known", "present", "absent"}, elsewhere : BOOLEAN,
           urged : Nat]

\* limit: the comments asked for; shown: the threads of the pages so far with the copies
\* in each; cursor: the last of them, where the next page goes on; token: there is a next
\* page; steady: comments that were there from the first request on.
Rest == [pc |-> "none", limit |-> 0, shown |-> <<>>, cursor |-> 0, token |-> FALSE,
         steady |-> {}]
Reading == [pc : {"none", "page", "listed"}, limit : Nat,
            shown : Seq((1..MaxThreads) \X (0..MaxCopies)), cursor : 0..MaxThreads,
            token : BOOLEAN, steady : SUBSET (1..MaxThreads)]

TypeOK ==
    /\ threads \in Seq(Thread) /\ Len(threads) <= MaxThreads
    /\ client \in Client
    /\ reading \in Reading

There(t) == threads[t].there
Comments == {t \in DOMAIN threads : There(t) /\ threads[t].kind = "comment"}

Init ==
    /\ \E n \in 0..MaxThreads - 1 : threads \in [1..n -> {New("comment", 0), New("suggestion", 0)}]
    /\ \E aim \in {0} \cup DOMAIN threads :
         client = [aim |-> aim, verdict |-> "none", found |-> "nothing_known",
                   elsewhere |-> FALSE, urged |-> 0]
    /\ reading = Rest

-----------------------------------------------------------------------------
(* Posting *)

\* The bug the verdict was made for: what does not say ALL_SAVED is a failure.
VerdictOfTwo(state) == IF state = "ALL_SAVED" THEN "saved" ELSE "retry"

\* _saved_from_state: only a state that was sent and is known says anything.  A failure is
\* raised before it becomes a verdict, with the words "NOT saved. Retry".
Verdict(state) ==
    CASE state = "ALL_SAVED" -> "saved"
      [] state = "ALL_FAILED_UNKNOWN_REASON" -> "retry"
      [] OTHER -> "unknown"

\* What a caller does who goes by the answers: it posts again when it was told that
\* nothing was saved or to try again, or has read back after "Do NOT repeat" and found nothing.
MayPost ==
    /\ reading.pc = "none"
    /\ \/ client.verdict \in {"none", "retry"}
       \/ client.verdict = "unknown" /\ client.found = "absent"

Told(verdict) == client' = [client EXCEPT !.verdict = verdict, !.found = "nothing_known"]

\* A request refused, or made in vain, or whose answer is lost, is an error. handle_http_errors
\* repeats no write; but of an SSL error it says "Please try again shortly", whether or not
\* the request was carried out. No advice goes with the others.
Refused == UNCHANGED threads /\ (Told("raised") \/ Told("retry"))
AnswerLost(after) ==
    /\ threads' = after
    /\ \/ Told("raised")
       \/ client' = [client EXCEPT !.verdict = "retry", !.found = "nothing_known", !.urged = @ + 1]

\* _execute_preview_batch_update with enforce_comment_update: HTTP 200 with a state.
Answered(after) ==
    \E state \in States :
        /\ threads' \in CASE state = "ALL_SAVED" -> {after}
                          [] state = "ALL_FAILED_UNKNOWN_REASON" -> {threads}
                          [] OTHER -> {threads, after}
        /\ Told(Verdict(state))

Replied == [threads EXCEPT ![client.aim].mine = @ + 1]
Commented == Append(threads, New("comment", 1))
RoomForReply == client.aim # 0 /\ threads[client.aim].mine < MaxCopies
RoomForComment == client.aim = 0 /\ Len(threads) < MaxThreads

ReplyToDocThread ==
    /\ MayPost /\ RoomForReply
    /\ \/ There(client.aim) /\ (Answered(Replied) \/ AnswerLost(Replied))
       \/ Refused
    /\ UNCHANGED reading

CreateAnchoredDocComment ==
    /\ MayPost /\ RoomForComment
    /\ Answered(Commented) \/ AnswerLost(Commented) \/ Refused
    /\ UNCHANGED reading

\* manage_document_comment, reply and create: Drive's answer is the post itself.
ReplyToComment ==
    /\ MayPost /\ RoomForReply
    /\ \/ /\ client.aim \in Comments
          /\ \/ threads' = Replied /\ Told("saved")
             \/ AnswerLost(Replied)
       \/ Refused
    /\ UNCHANGED reading

CreateComment ==
    /\ MayPost /\ RoomForComment
    /\ \/ threads' = Commented /\ Told("saved")
       \/ AnswerLost(Commented)
       \/ Refused
    /\ UNCHANGED reading

-----------------------------------------------------------------------------
(* Reading back *)

\* "check with list_document_comments or get_doc_review_view first"
MayReadBack == reading.pc = "none" /\ client.verdict = "unknown" /\ client.found = "nothing_known"

Found(present) == IF present THEN "present" ELSE "absent"

\* One request of _read_comments_impl: the next comments in order, n at most but maybe
\* fewer, and a token if there are more behind them.
PageOf(r, size) ==
    LET behind == {t \in Comments : t > r.cursor}
        Front(n) == {t \in behind : Cardinality({u \in behind : u <= t}) <= n}
        fetched == Front(size)
        ordered == [i \in 1..Cardinality(fetched) |->
                      CHOOSE t \in fetched : Cardinality({u \in fetched : u <= t}) = i]
    IN [entries |-> [i \in DOMAIN ordered |-> <<ordered[i], threads[ordered[i]].mine>>],
        token |-> behind # fetched]

PageSize(r) == IF r.limit - Len(r.shown) < PageMax THEN r.limit - Len(r.shown) ELSE PageMax

\* The loop ends when the limit is reached or no token came; an empty page with a token
\* does not end it.
Fetched(r, page) ==
    LET shown == r.shown \o page.entries
    IN [r EXCEPT !.shown = shown, !.token = page.token,
                 !.cursor = IF page.entries = <<>> THEN @ ELSE shown[Len(shown)][1],
                 !.pc = IF page.token /\ Len(shown) < r.limit THEN "page" ELSE "listed"]

\* A limit that is not given is the default.  A negative one, which is 100, and 0, which is
\* answered without reading, are left out.
Limit(max) == IF max = None THEN Default ELSE max

ListComments(max) ==
    /\ MayReadBack
    /\ LET r == [Rest EXCEPT !.limit = Limit(max), !.steady = Comments]
       IN \E size \in 0..PageSize(r) : reading' = Fetched(r, PageOf(r, size))
    /\ UNCHANGED <<threads, client>>

NextPage ==
    /\ reading.pc = "page"
    /\ \E size \in 0..PageSize(reading) : reading' = Fetched(reading, PageOf(reading, size))
    /\ UNCHANGED <<threads, client>>

\* A bug of the kind the token guards against: the listing is a page only if it was cut.
TruncatedWhenCut(r) == Len(r.shown) > r.limit

\* "There are MORE": a token survived the loop.
Truncated(r) == r.token

\* The caller reads the answer; one that is a page and does not show the post tells nothing,
\* and is asked for again with another limit.
Conclude ==
    /\ reading.pc = "listed"
    /\ LET seen == \E i \in DOMAIN reading.shown :
                      /\ client.aim \in {0, reading.shown[i][1]}
                      /\ reading.shown[i][2] > 0
       IN client' = IF seen \/ ~Truncated(reading)
                    THEN [client EXCEPT !.found = Found(seen),
                            !.elsewhere = @ \/ (client.aim # 0 /\ threads[client.aim].kind = "suggestion")]
                    ELSE client
    /\ reading' = Rest
    /\ UNCHANGED threads

\* Threads of that kind in which the post can be seen.
Seen(kind) ==
    \E t \in DOMAIN threads :
        There(t) /\ threads[t].kind = kind /\ client.aim \in {0, t} /\ threads[t].mine > 0

\* The comments of get_doc_review_view are comment threads.  A degraded read has none and
\* says so, and the caller knows as much as before.
GetDocReviewView ==
    /\ MayReadBack
    /\ client' = [client EXCEPT !.found = Found(Seen("comment")),
                    !.elsewhere = @ \/ (client.aim # 0 /\ threads[client.aim].kind = "suggestion")]
    /\ UNCHANGED <<threads, reading>>

\* list_document_suggestions shows the replies to a suggestion that is pending.
ListDocumentSuggestions ==
    /\ MayReadBack
    /\ client' = [client EXCEPT !.found = Found(Seen("suggestion")),
                    !.elsewhere = @ \/ client.aim = 0 \/ threads[client.aim].kind = "comment"]
    /\ UNCHANGED <<threads, reading>>

-----------------------------------------------------------------------------
(* What other callers and people do *)

SomebodyComments ==
    /\ Len(threads) < MaxThreads
    /\ threads' = Append(threads, New("comment", 0))
    /\ UNCHANGED <<client, reading>>

\* manage_document_comment, resolve: the thread stays and is listed.
ResolveComment(t) ==
    /\ t \in Comments /\ threads' = [threads EXCEPT ![t].resolved = TRUE]
    /\ UNCHANGED <<client, reading>>

\* manage_document_comment, delete.
DeleteComment(t) ==
    /\ t \in Comments /\ threads' = [threads EXCEPT ![t].there = FALSE]
    /\ reading' = [reading EXCEPT !.steady = @ \ {t}]
    /\ UNCHANGED client

\* A suggestion that is accepted or rejected is no longer listed and takes no reply.
SomebodyDecides(t) ==
    /\ There(t) /\ threads[t].kind = "suggestion"
    /\ threads' = [threads EXCEPT ![t].there = FALSE]
    /\ UNCHANGED <<client, reading>>

Next ==
    \/ ReplyToDocThread \/ CreateAnchoredDocComment \/ ReplyToComment \/ CreateComment
    \/ \E max \in {None} \cup 1..MaxThreads : ListComments(max)
    \/ NextPage \/ Conclude \/ GetDocReviewView \/ ListDocumentSuggestions
    \/ SomebodyComments
    \/ \E t \in DOMAIN threads : ResolveComment(t) \/ DeleteComment(t) \/ SomebodyDecides(t)

Spec == Init /\ [][Next]_vars

-----------------------------------------------------------------------------
(* Properties *)

\* "whether that is all of them is a separate fact": a listing that does not say that there
\* are more shows every comment that was there all along, one that says so shows as many as
\* it was to, and none is shown twice, whatever is made and deleted between its pages.
ListingsTellWhatTheyHold ==
    reading.pc = "listed" =>
        LET ids == {reading.shown[i][1] : i \in DOMAIN reading.shown} IN
        /\ Cardinality(ids) = Len(reading.shown)
        /\ IF Truncated(reading) THEN Len(reading.shown) = reading.limit
           ELSE reading.steady \subseteq ids

Copies ==
    Cardinality({copy \in (DOMAIN threads) \X (1..MaxCopies) :
                   There(copy[1]) /\ copy[2] <= threads[copy[1]].mine})

\* "a retry that was not needed leaves a duplicate in the document": a caller who goes by
\* what the answers say leaves one copy of its post, whichever states the API sends, forgets
\* to send or invents, and one more for each time an SSL error came after the post was saved
\* and urged it to try again. It must read back where its thread is shown: neither tool the
\* note names shows the replies to a suggestion.
RetriesLeaveOneCopy == ~client.elsewhere => Copies <= 1 + client.urged

\* Not so: "try again" is no word that nothing was saved (core/utils.py:532).
TryAgainIsSafe == ~client.elsewhere => Copies <= 1
=============================================================================
