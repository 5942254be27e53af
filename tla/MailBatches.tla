----------------------------- MODULE MailBatches -----------------------------
(***************************************************************************)
(* gmail/gmail_tools.py: get_gmail_messages_content_batch and              *)
(* get_gmail_threads_content_batch, which read many messages or threads in *)
(* chunks: a chunk in one batch request or, when the batch fails, one item *)
(* at a time, and the raw MIME text of each item after that.               *)
(*                                                                         *)
(* Of an item its version counts: 0 when it is gone, and more as a thread  *)
(* gets messages.  An item that was not read has version 0 in an answer.   *)
(***************************************************************************)
EXTENDS Naturals, Sequences, FiniteSets
LOCAL INSTANCE SequencesExt

CONSTANTS
    Ids,
    Requests,    \* the sequences of ids that are asked for
    ChunkSize,   \* GMAIL_BATCH_SIZE
    Retries,     \* max_retries
    MaxVersion   \* bound: versions of an item

VARIABLES
    box,  \* per id, its version
    call,
    seen  \* per id, the versions it had during the call

vars == <<box, call, seen>>

Failed == 0
Versions == 0..MaxVersion
Idle == [pc |-> "idle", asked |-> <<>>, raw |-> FALSE, start |-> 1, next |-> 1, errors |-> 0,
         results |-> <<>>, texts |-> <<>>, answer |-> <<>>]

TypeOK ==
    /\ box \in [Ids -> Versions]
    /\ call.pc \in {"idle", "batch", "each", "raw", "done"}
    /\ call.asked \in Requests \cup {<<>>} /\ call.errors \in 0..(Retries - 1)
    /\ \A f \in {call.results, call.texts} : \A i \in DOMAIN f : i \in Ids /\ f[i] \in Versions
    /\ ToSet(call.answer) \subseteq [id : Ids, version : Versions, text : Versions]
    /\ seen \in [Ids -> SUBSET Versions]

Init ==
    /\ box = [i \in Ids |-> 1]
    /\ call = Idle
    /\ seen = [i \in Ids |-> {}]

-----------------------------------------------------------------------------
Begin ==
    /\ call.pc = "idle"
    /\ \E asked \in Requests, raw \in BOOLEAN :
        call' = [Idle EXCEPT !.pc = "batch", !.asked = asked, !.raw = raw]
    /\ seen' = [i \in Ids |-> {box[i]}]
    /\ UNCHANGED box

\* chunk_ids.
Chunk == SubSeq(call.asked, call.start, Min({call.start + ChunkSize - 1, Len(call.asked)}))

\* A plausible bug: the results are shown as they came in, an id of the chunk once.
RowsOfResults(results, texts) ==
    [i \in 1..Cardinality(DOMAIN results) |->
        LET id == SetToSeq(DOMAIN results)[i]
        IN [id |-> id, version |-> results[id],
            text |-> IF id \in DOMAIN texts THEN texts[id] ELSE Failed]]

\* The rows of a chunk: what came of each of its ids in turn.
Rows(results, texts) ==
    [i \in DOMAIN Chunk |->
        LET id == Chunk[i]
        IN [id |-> id, version |-> results[id],
            text |-> IF id \in DOMAIN texts THEN texts[id] ELSE Failed]]

\* The raw texts to fetch are those of the items that were read.
Wanted(results) == SelectSeq(Chunk, LAMBDA id : results[id] # Failed)

\* What follows the results of a chunk and the texts: the answer, and the next chunk.
Answered(results, texts) ==
    LET more == call.start + ChunkSize <= Len(call.asked)
    IN [call EXCEPT !.pc = IF more THEN "batch" ELSE "done",
                    !.start = IF more THEN @ + ChunkSize ELSE @,
                    !.next = 1, !.errors = 0, !.results = <<>>, !.texts = <<>>,
                    !.answer = @ \o Rows(results, texts)]
Fetched(results) ==
    IF call.raw /\ Wanted(results) # <<>>
    THEN [call EXCEPT !.pc = "raw", !.next = 1, !.errors = 0, !.results = results]
    ELSE Answered(results, <<>>)

\* One request for the whole chunk, whose items succeed or fail one by one. It cannot be
\* built when an id is in the chunk twice.
Batch ==
    /\ call.pc = "batch" /\ IsInjective(Chunk)
    /\ \E failed \in SUBSET ToSet(Chunk) :
        call' = Fetched([id \in ToSet(Chunk) |-> IF id \in failed THEN Failed ELSE box[id]])
    /\ UNCHANGED <<box, seen>>

BatchFails ==
    /\ call.pc = "batch"
    /\ call' = [call EXCEPT !.pc = "each", !.next = 1, !.errors = 0]
    /\ UNCHANGED <<box, seen>>

Set(f, id, v) == [i \in DOMAIN f \cup {id} |-> IF i = id THEN v ELSE f[i]]

\* _fetch_message_with_retry and fetch_thread_with_retry: an SSL error is tried again but
\* for the last, any other is the result of the item.
TriedAgain == call.errors + 1 < Retries /\ call' = [call EXCEPT !.errors = @ + 1]

FetchOne ==
    /\ call.pc = "each"
    /\ LET id == Chunk[call.next]
       IN \/ TriedAgain
          \/ \E got \in {Failed, box[id]} :
                LET results == Set(call.results, id, got)
                IN call' = IF call.next = Len(Chunk) THEN Fetched(results)
                           ELSE [call EXCEPT !.results = results, !.next = @ + 1, !.errors = 0]
    /\ UNCHANGED <<box, seen>>

\* _fetch_raw_message_contents.
FetchRaw ==
    /\ call.pc = "raw"
    /\ LET wanted == Wanted(call.results)
           id == wanted[call.next]
       IN \/ TriedAgain
          \/ \E got \in {Failed, box[id]} :
                LET texts == Set(call.texts, id, got)
                IN call' = IF call.next = Len(wanted) THEN Answered(call.results, texts)
                           ELSE [call EXCEPT !.texts = texts, !.next = @ + 1, !.errors = 0]
    /\ UNCHANGED <<box, seen>>

\* A thread gets a message, an item is deleted for good.
Change ==
    /\ \E i \in Ids : box[i] > 0 /\ \E v \in {0, box[i] + 1} \cap Versions :
        /\ box' = [box EXCEPT ![i] = v]
        /\ seen' = IF call.pc \in {"idle", "done"} THEN seen ELSE [seen EXCEPT ![i] = @ \cup {v}]
    /\ UNCHANGED call

Next == Begin \/ Batch \/ BatchFails \/ FetchOne \/ FetchRaw \/ Change

Spec == Init /\ [][Next]_vars

-----------------------------------------------------------------------------
(* Properties. *)

\* Whatever fails on the way and whatever changes meanwhile, every id that was asked for is
\* answered in its place, also one that was named twice; what is shown of it is what it was
\* at some time of the call, and its text is not of a time before.
EveryIdIsAnswered ==
    call.pc = "done" =>
        /\ Len(call.answer) = Len(call.asked)
        /\ \A i \in DOMAIN call.answer :
            LET row == call.answer[i]
            IN /\ row.id = call.asked[i]
               /\ row.version # Failed => row.version \in seen[row.id]
               /\ row.text # Failed =>
                    row.text \in seen[row.id] /\ row.version # Failed /\ row.text >= row.version
=============================================================================
