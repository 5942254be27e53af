--------------------------- MODULE HeaderFooters ---------------------------
(***************************************************************************)
(* The headers of a document and the tools that write them                 *)
(* (gdocs/managers/header_footer_manager.py, and create_header_footer of   *)
(* batch_operation_manager.py): an update reads the document, creates the  *)
(* header if it finds none, writes it by the places it has read, and after *)
(* a failure reads again and writes a second time.  Footers are the same.  *)
(***************************************************************************)
EXTENDS Naturals, Sequences

CONSTANTS
    Calls,   \* tool calls in flight
    Texts,   \* contents to be written: words and newlines
    Newline, \* the end of a paragraph
    None,    \* no header
    Tabbed,  \* whether the document is served tab by tab
    MaxIds,  \* bound on the headers at a time
    MaxLength, \* bound on a header
    MaxEdits \* bound on what other editors do

VARIABLES
    style, \* the header the document's style names for each type
    segs,  \* the headers: words and newlines; <<>> is one that is not there
    edits, \* what other editors have done
    call   \* the calls in flight

vars == <<style, segs, edits, call>>

Types == {"DEFAULT", "FIRST_PAGE_ONLY", "EVEN_PAGE"}
Ids == 1..MaxIds
There == {i \in Ids : segs[i] # <<>>}
EmptyText == <<Newline>>

\* id: the header the call writes; seen: what it holds as the call has read it; before:
\* what it held when the call began; fresh: nobody else has written since.
Idle == [pc |-> "idle", type |-> "DEFAULT", text |-> <<>>, id |-> None, seen |-> <<>>,
         before |-> <<>>, fresh |-> TRUE]
Stages == {"idle", "create", "reread", "write", "again", "rewrite", "done", "batch"}

TypeOK ==
    /\ style \in [Types -> Ids \cup {None}]
    /\ DOMAIN segs = Ids /\ \A i \in There : segs[i][Len(segs[i])] = Newline
    /\ \A t \in Types : style[t] # None => style[t] \in There
    /\ edits \in 0..MaxEdits
    /\ \A c \in Calls : /\ call[c].pc \in Stages /\ call[c].type \in Types
                        /\ call[c].id \in Ids \cup {None} /\ call[c].fresh \in BOOLEAN

Init ==
    /\ style = [t \in Types |-> None]
    /\ segs = [i \in Ids |-> <<>>]
    /\ edits = 0
    /\ call = [c \in Calls |-> Idle]

-----------------------------------------------------------------------------
(* Finding and writing *)

\* A bug of the kind the check guards against: whatever header comes first.
TargetByOrder(type) ==
    IF There = {} THEN None ELSE CHOOSE i \in There : \A j \in There : i <= j

\* _find_target_section: the one the style names, else whichever comes first.
Target(type) ==
    IF style[type] # None THEN style[type]
    ELSE IF There = {} THEN None ELSE CHOOSE i \in There : \A j \in There : i <= j

FirstEnd(s) == CHOOSE n \in DOMAIN s : s[n] = Newline /\ \A m \in 1..(n - 1) : s[m] # Newline
Meaningful(s) == \E n \in DOMAIN s : s[n] # Newline

\* _replace_section_content: what is typed over the first paragraph as it was seen, or at
\* the end of a header that was seen empty; <<>> if the service refuses.
Replaced(now, seen, text) ==
    IF ~Meaningful(seen) THEN SubSeq(now, 1, Len(now) - 1) \o text \o <<Newline>>
    ELSE IF FirstEnd(seen) > Len(now) THEN <<>>
    ELSE text \o SubSeq(now, FirstEnd(seen), Len(now))

\* Others that were reading when the headers changed are out of date.
Touch(c, rec) ==
    call' = [d \in Calls |-> IF d = c THEN rec
                             ELSE [call[d] EXCEPT !.fresh = @ /\ call[d] = Idle]]
Goes(c, rec) == call' = [call EXCEPT ![c] = rec] /\ UNCHANGED <<style, segs, edits>>

-----------------------------------------------------------------------------
(* update_header_footer_content *)

UpdateHeader(c) ==
    /\ call[c] = Idle
    /\ \E type \in Types, text \in Texts :
         LET id == Target(type)
         IN Goes(c, [Idle EXCEPT !.type = type, !.text = text, !.id = id,
                       !.pc = IF id = None THEN "create" ELSE "write",
                       !.seen = IF id = None THEN <<>> ELSE segs[id],
                       !.before = IF id = None THEN EmptyText ELSE segs[id]])

\* The service knows no header for first pages only: the request asks for a default one.
ApiType(type) == IF type = "FIRST_PAGE_ONLY" THEN "DEFAULT" ELSE type
FreeIds == {i \in Ids : segs[i] = <<>>}
Made(type, id) ==
    /\ segs' = [segs EXCEPT ![id] = EmptyText]
    /\ style' = [style EXCEPT ![ApiType(type)] = id]
    /\ UNCHANGED edits

\* _create_missing_section.  "Already exists" is looked up again, at the top level of the
\* document, where a document served by tabs has no style.
CreateSection(c) ==
    /\ call[c].pc = "create"
    /\ \/ style[ApiType(call[c].type)] = None /\ FreeIds # {}
          /\ LET id == CHOOSE i \in FreeIds : \A j \in FreeIds : i <= j
             IN /\ Made(call[c].type, id)
                /\ \/ Touch(c, [call[c] EXCEPT !.pc = "reread", !.id = id])
                   \/ Touch(c, Idle)  \* the answer is lost
       \/ /\ style[ApiType(call[c].type)] # None /\ ~Tabbed /\ style[call[c].type] # None
          /\ Goes(c, [call[c] EXCEPT !.pc = "reread", !.id = style[call[c].type],
                                     !.before = segs[style[call[c].type]]])
       \/ Goes(c, Idle)

\* A header that was made a moment ago may not show its content yet.
Reread(c) ==
    /\ call[c].pc = "reread"
    /\ \E seen \in {segs[call[c].id], <<>>} : Goes(c, [call[c] EXCEPT !.pc = "write", !.seen = seen])

\* A bug of the kind the check guards against: the second write goes by the first reading.
RereadNothing(c) ==
    /\ call[c].pc = "again"
    /\ Goes(c, [call[c] EXCEPT !.pc = "rewrite"])

Again(c) ==
    /\ call[c].pc = "again"
    /\ LET id == Target(call[c].type)
       IN Goes(c, IF id = None THEN Idle
                  ELSE [call[c] EXCEPT !.pc = "rewrite", !.id = id, !.seen = segs[id]])

\* The write lands, or fails, or lands and its answer is lost.
Write(c) ==
    /\ call[c].pc \in {"write", "rewrite"}
    /\ LET id == call[c].id
           result == IF segs[id] = <<>> THEN <<>> ELSE Replaced(segs[id], call[c].seen, call[c].text)
           failed == IF call[c].pc = "write" THEN [call[c] EXCEPT !.pc = "again"] ELSE Idle
       IN \/ /\ result # <<>> /\ Len(result) <= MaxLength
             /\ segs' = [segs EXCEPT ![id] = result]
             /\ Touch(c, [call[c] EXCEPT !.pc = "done"]) \/ Touch(c, failed)
             /\ UNCHANGED <<style, edits>>
          \/ Goes(c, failed)

Answer(c) == call[c].pc = "done" /\ Goes(c, Idle)

-----------------------------------------------------------------------------
(* create_header_footer in a batch, and other editors *)

\* The batch looks whether the style names such a header, then sends its request.
PreflightCreate(c) ==
    /\ call[c] = Idle
    /\ \E type \in Types :
         /\ style[type] = None
         /\ Goes(c, [Idle EXCEPT !.pc = "batch", !.type = type])
ExecuteCreate(c) ==
    /\ call[c].pc = "batch"
    /\ \/ style[ApiType(call[c].type)] = None /\ FreeIds # {}
          /\ \E id \in FreeIds : (\A j \in FreeIds : id <= j) /\ Made(call[c].type, id)
          /\ Touch(c, Idle)
       \/ Goes(c, Idle)

Edited == edits < MaxEdits /\ edits' = edits + 1
SomebodyAdds ==
    /\ Edited
    /\ \E id \in There, text \in Texts :
         /\ Len(text) + 1 + Len(segs[id]) <= MaxLength
         /\ segs' = [segs EXCEPT ![id] = text \o <<Newline>> \o @]
    /\ Touch(None, Idle) /\ UNCHANGED style
SomebodyRemoves ==
    /\ Edited
    /\ \E id \in There : /\ segs' = [segs EXCEPT ![id] = <<>>]
                         /\ style' = [t \in Types |-> IF style[t] = id THEN None ELSE style[t]]
    /\ Touch(None, Idle)

Next ==
    \/ SomebodyAdds \/ SomebodyRemoves
    \/ \E c \in Calls :
         \/ UpdateHeader(c) \/ CreateSection(c) \/ Reread(c) \/ Write(c) \/ Again(c) \/ Answer(c)
         \/ PreflightCreate(c) \/ ExecuteCreate(c)

Spec == Init /\ [][Next]_vars

-----------------------------------------------------------------------------
(* Properties *)

\* An update that reports success, with no other writer since it began, has written its
\* content once, however often it had to write, into the header the style names for its
\* type if it names one; what followed the first paragraph is still there.
UpdatesLandOnce ==
    \A c \in Calls :
        call[c].pc = "done" /\ call[c].fresh
            /\ (\A n \in DOMAIN call[c].text : call[c].text[n] # Newline)
            /\ (Meaningful(call[c].before) \/ call[c].before = EmptyText)
        => /\ segs[call[c].id] =
                call[c].text \o SubSeq(call[c].before, FirstEnd(call[c].before), Len(call[c].before))
           /\ style[call[c].type] # None => call[c].id = style[call[c].type]

\* "If the header/footer does not exist, it is automatically created first": writing the
\* header of one type leaves those of the other types as they are.
OtherTypesAreLeftAlone ==
    [][\A c \in Calls, t \in Types :
          call[c].pc \in {"write", "rewrite"} /\ call'[c] # call[c] /\ t # call[c].type
              /\ style[t] # None /\ style[t] # style[call[c].type]
          => segs'[style[t]] = segs[style[t]]]_vars
=============================================================================
