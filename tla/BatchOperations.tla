--------------------------- MODULE BatchOperations --------------------------
(***************************************************************************)
(* batch_update_doc: a list of operations is checked                       *)
(* (managers/validation_manager.py), looked at against the document,       *)
(* turned into requests (docs_helpers.py) and sent as one batch            *)
(* (managers/batch_operation_manager.py), while others edit the document.  *)
(***************************************************************************)
EXTENDS Naturals, SequencesExt

CONSTANTS
    Menu,      \* the operations a caller makes batches of
    Tab,       \* the tab character, the one letter that is not a paragraph
    Other,     \* a letter somebody else types
    MaxOps,    \* bound on the operations of a batch
    MaxLength, \* bound on the text
    MaxWrites  \* bound on the batches and edits that change the document

VARIABLES
    doc,    \* its text from index 1 on, and the styles of the whole
    writes, \* how often it was changed
    call    \* the call in flight

vars == <<doc, writes, call>>

\* A letter stands for a paragraph: has is the style fields it has, level 1 + the list
\* level, 0 outside lists.
Letter(x, has) == [x |-> x, has |-> has, level |-> 0]

\* An operation: options given, paragraph_start_indices, the texts of an insertion or of a
\* search.
Op(type, from, to, given, starts, text) ==
    [type |-> type, from |-> from, to |-> to, given |-> given, starts |-> starts, text |-> text]

\* index is left out when end_of_segment is set.
AtEnd == 0
Ranged == {"delete_text", "replace_text", "format_text", "update_paragraph_style",
           "update_section_style", "create_bullet_list", "remove_bullets"}
Options == {"bold", "family", "weight", "link", "clear", "heading", "named", "above", "width",
            "height", "margin", "count", "spacing", "color", "border", "row", "column", "span",
            "nested"}

\* landed: which operations had their requests applied; seen: their answer.
Idle == [pc |-> "idle", ops |-> <<>>, requests |-> <<>>, landed |-> {}, answer |-> "none"]

TypeOK ==
    /\ DOMAIN doc = {"text", "page"}
    /\ Len(doc.text) <= MaxLength
    /\ \A i \in DOMAIN doc.text : doc.text[i].level \in Nat /\ doc.text[i].x # Tab
    /\ writes \in 0..MaxWrites
    /\ DOMAIN call = DOMAIN Idle
    /\ call.pc \in {"idle", "compose", "checked", "build", "send", "length", "done"}
    /\ call.answer \in {"none", "ok", "refused", "guidance", "raised"}
    /\ call.landed \subseteq 1..MaxOps

Init ==
    /\ doc = [text |-> <<Letter(Other, {"link", "weight"})>>,
              page |-> {"height", "spacing", "border"}]
    /\ writes = 0
    /\ call = Idle

-----------------------------------------------------------------------------
(* What validate_batch_operations accepts *)

\* An option at least, font_weight only with font_family, clear_link not with link_url.
TextOptions(given) ==
    /\ given # {}
    /\ "weight" \in given => "family" \in given
    /\ ~({"clear", "link"} \subseteq given)

ParagraphOptions(given) == given # {} /\ ~({"heading", "named"} \subseteq given)

DocumentOptions(given) == given # {}

\* column_spacing only with column_count.
SectionOptions(given) == given # {} /\ ("spacing" \in given => "count" \in given)

\* A style option at least; a range of cells has a row and a column.
CellOptions(given) ==
    /\ given \ {"row", "column", "span"} # {}
    /\ given \cap {"row", "column", "span"} # {} => {"row", "column"} \subseteq given

\* validate_index_range.
GoodRange(op) == op.to > op.from

\* The fields each type requires are there.  A range is looked at where a style is asked
\* for; that of a deletion or of a list is left to the service.
Complete(op) ==
    /\ op.type \in Ranged \cup {"insert_text", "find_replace", "create_header_footer",
                                "update_document_style", "update_table_cell_style"}
    /\ op.given \subseteq Options

Accepted(op) ==
    /\ Complete(op)
    /\ CASE op.type = "format_text" -> TextOptions(op.given) /\ GoodRange(op)
         [] op.type = "update_paragraph_style" -> ParagraphOptions(op.given) /\ GoodRange(op)
         [] op.type = "update_document_style" -> DocumentOptions(op.given)
         [] op.type = "update_section_style" -> GoodRange(op) /\ SectionOptions(op.given)
         [] op.type = "update_table_cell_style" -> CellOptions(op.given)
         [] OTHER -> TRUE

-----------------------------------------------------------------------------
(* The requests of an operation *)

Request(op, at, to, text, set, mask) ==
    [op |-> op, at |-> at, to |-> to, text |-> text, set |-> set, mask |-> mask]

Joined(given, options, fields) == IF given \cap options # {} THEN fields ELSE {}

\* The fields that get a value.
TextStyle(given) == given \cap {"bold", "link", "family", "weight"}
ParagraphStyle(given) == (given \cap {"above"}) \cup Joined(given, {"heading", "named"}, {"named"})
DocumentStyle(given) == given \cap {"margin", "width", "height"}
SectionStyle(given) == given \cap {"margin", "count", "spacing"}
CellStyle(given) == given \cap {"color", "border"}

\* A style without a value makes no request, and that is an error of the operation.
Styled(op, kind, set, mask) ==
    IF set = {} THEN <<>> ELSE <<Request(kind, op.from, op.to, <<>>, set, mask)>>

\* A bug of the kind the explicit field masks guard against: the fields without a value
\* are reset with the others.
TextMaskOfAll(given) == {"bold", "family", "weight", "link"}

\* The masks.  weightedFontFamily, pageSize, columnProperties and each border are one field
\* to the service, and a mask names them whole.
Font == {"family", "weight"}
PageSize == {"width", "height"}
Columns == {"count", "spacing"}
Border == {"color", "border"}
Wholes == {Font, PageSize, Columns, Border}
Widened(set) == set \cup UNION {whole \in Wholes : whole \cap set # {}}

OnPage(op, set) == Styled(op, "page", set, Widened(set))

\* clear_link names the link without giving one.
TextMask(given) == Widened(TextStyle(given)) \cup Joined(given, {"clear"}, {"link"})

\* Body index 0 is an alias of 1.
BodyStart(i) == IF i = 0 THEN 1 ELSE i

\* A bug of the kind the two sums guard against: the range stays where it was.
BulletRangeAsGiven(op, starts) == <<BodyStart(op.from), op.to>>

\* The range of the list, moved by the tabs that come in front of it and inside it.
BulletRange(op, starts) ==
    LET before(i) == Cardinality({s \in starts : s < i}) IN
    <<BodyStart(op.from) + before(BodyStart(op.from)), op.to + before(op.to)>>

\* Nesting: a tab in front of every paragraph named, the later ones moved by the earlier,
\* then the bullets.
Bullets(op) ==
    LET starts == IF op.given = {} THEN {}
                  ELSE IF op.starts = {} THEN {BodyStart(op.from)} ELSE op.starts
        sorted == SetToSortSeq(starts, <)
        range == BulletRange(op, starts)
    IN [k \in DOMAIN sorted |-> Request("insert", sorted[k] + k - 1, 0, <<Tab>>, {}, {})]
       \o <<Request("bullets", range[1], range[2], <<>>, {}, {})>>

\* A bug of the kind the order of the two requests guards against.
ReplacementFirst(op) ==
    <<Request("insert", op.from, 0, op.text, {}, {}), Request("delete", op.from, op.to, <<>>, {}, {})>>

Replacement(op) ==
    <<Request("delete", op.from, op.to, <<>>, {}, {}), Request("insert", op.from, 0, op.text, {}, {})>>

Requests(op) ==
    CASE op.type = "insert_text" -> <<Request("insert", op.from, 0, op.text, {}, {})>>
      [] op.type = "delete_text" -> <<Request("delete", op.from, op.to, <<>>, {}, {})>>
      [] op.type = "replace_text" -> Replacement(op)
      [] op.type = "format_text" -> Styled(op, "style", TextStyle(op.given), TextMask(op.given))
      [] op.type = "update_paragraph_style" ->
           LET set == ParagraphStyle(op.given) IN
           Styled([op EXCEPT !.from = BodyStart(@)], "style", set, set)
      [] op.type = "update_document_style" -> OnPage(op, DocumentStyle(op.given))
      [] op.type = "update_section_style" -> OnPage(op, SectionStyle(op.given))
      [] op.type = "update_table_cell_style" -> OnPage(op, CellStyle(op.given))
      [] op.type = "create_header_footer" -> <<Request("page", 0, 0, <<>>, {"header"}, {})>>
      [] op.type = "find_replace" -> <<Request("replace", 0, 0, op.text, {}, {})>>
      [] op.type = "create_bullet_list" -> Bullets(op)
      [] op.type = "remove_bullets" -> <<Request("unbullet", BodyStart(op.from), op.to, <<>>, {}, {})>>

-----------------------------------------------------------------------------
(* What the service does with a request *)

\* New text takes its style from what is in front of it, or else behind it.
Inserted(t, i, letters) ==
    LET has == IF i > 1 THEN t[i - 1].has ELSE IF t # <<>> THEN t[1].has ELSE {} IN
    SubSeq(t, 1, i - 1) \o [k \in DOMAIN letters |-> Letter(letters[k], has)]
                        \o SubSeq(t, i, Len(t))

Spot(t, i) == IF i = AtEnd THEN Len(t) + 1 ELSE i

\* The tabs in front of a paragraph, and whether it meets a range.
Lead(t, k) == k - Max({0} \cup {j \in 1..(k - 1) : t[j].x # Tab}) - 1
Meets(t, k, r) == t[k].x # Tab /\ k >= r.at /\ k - Lead(t, k) < r.to

\* createParagraphBullets: the tabs in front become the level.
Bulleted(t, r) ==
    FlattenSeq([k \in DOMAIN t |->
        IF t[k].x = Tab
        THEN IF \E m \in k..Len(t) : Meets(t, m, r) /\ m - Lead(t, m) <= k THEN <<>> ELSE <<t[k]>>
        ELSE <<IF Meets(t, k, r) THEN [t[k] EXCEPT !.level = 1 + Lead(t, k)] ELSE t[k]>>])

In(k, r) == k >= r.at /\ k < r.to

Applied(d, r) ==
    LET t == d.text IN
    CASE r.op = "insert" -> [d EXCEPT !.text = Inserted(t, Spot(t, r.at), r.text)]
      [] r.op = "delete" -> [d EXCEPT !.text = SubSeq(t, 1, r.at - 1) \o SubSeq(t, r.to, Len(t))]
      [] r.op = "style" ->
           [d EXCEPT !.text = [k \in DOMAIN t |->
               IF In(k, r) THEN [t[k] EXCEPT !.has = (@ \ r.mask) \cup r.set] ELSE t[k]]]
      [] r.op = "page" -> [d EXCEPT !.page = (@ \ r.mask) \cup r.set]
      [] r.op = "replace" ->
           [d EXCEPT !.text = [k \in DOMAIN t |->
               IF t[k].x = r.text[1] THEN [t[k] EXCEPT !.x = r.text[2]] ELSE t[k]]]
      [] r.op = "bullets" -> [d EXCEPT !.text = Bulleted(t, r)]
      [] r.op = "unbullet" ->
           [d EXCEPT !.text = [k \in DOMAIN t |-> IF In(k, r) THEN [t[k] EXCEPT !.level = 0] ELSE t[k]]]

Refused(d, r) ==
    \/ r.op = "insert" /\ Spot(d.text, r.at) > Len(d.text) + 1
    \/ /\ r.op \in {"delete", "style", "bullets", "unbullet"}
       /\ r.at = 0 \/ r.to <= r.at \/ r.to > Len(d.text) + 1
    \/ r.op = "page" /\ r.set = {"header"} /\ "header" \in d.page

\* The requests one after the other; none of them counts when one is refused.
Refusal(r) == [text |-> <<>>, page |-> {"refused", r.op}]
IsRefusal(o) == "refused" \in o.page
Outcome(d, requests) ==
    FoldLeft(LAMBDA so, r : IF IsRefusal(so) THEN so
                            ELSE IF Refused(so, r) THEN Refusal(r) ELSE Applied(so, r),
             d, requests)

-----------------------------------------------------------------------------
(* A call *)

Goes(rec) == call' = rec /\ UNCHANGED <<doc, writes>>
Answer(answer) == [call EXCEPT !.pc = "done", !.requests = <<>>, !.answer = answer]
MakesHeader(ops) == \E k \in DOMAIN ops : ops[k].type = "create_header_footer"

Compose(op) ==
    /\ call.pc \in {"idle", "compose"} /\ writes < MaxWrites
    /\ Len(call.ops) < MaxOps
    /\ Goes([call EXCEPT !.pc = "compose", !.ops = Append(@, op)])

\* batch_update_doc: every operation is accepted, or nothing is looked at further.
Check ==
    /\ call.pc = "compose"
    /\ Goes(IF \A k \in DOMAIN call.ops : Accepted(call.ops[k])
            THEN [call EXCEPT !.pc = "checked"] ELSE Answer("refused"))

\* A header that is to be created must not be there: the document is read for that.
Preflight ==
    /\ call.pc = "checked"
    /\ Goes(IF MakesHeader(call.ops) /\ "header" \in doc.page
            THEN Answer("refused") ELSE [call EXCEPT !.pc = "build"])

\* A bug of the kind the errors for empty styles guard against: what makes no request is
\* left out.
BuiltOfTheRest(ops) == TRUE

\* Every operation has made its requests.
Built(ops) == \A k \in DOMAIN ops : Requests(ops[k]) # <<>>

Build ==
    /\ call.pc = "build"
    /\ Goes(IF Built(call.ops)
            THEN [call EXCEPT !.pc = "send",
                              !.requests = FlattenSeq([k \in DOMAIN call.ops |-> Requests(call.ops[k])])]
            ELSE Answer("refused"))

\* A bug of the kind the words looked for guard against: whatever goes wrong with a batch
\* that makes a header is put down to the header.
RewordsAll(o) == MakesHeader(call.ops)

\* _execution_error_guidance: only that the header exists is worded anew, and only when
\* that is what the service says.
Rewords(o) == IsRefusal(o) /\ "page" \in o.page

Landed == {k \in DOMAIN call.ops : Requests(call.ops[k]) # <<>>}
Failure(o) == Answer(IF Rewords(o) THEN "guidance" ELSE "raised")

\* One batch, whole or refused; the answer to one that is applied may be lost, and the
\* service may fail before it.
Send ==
    /\ call.pc = "send"
    /\ LET after == Outcome(doc, call.requests) IN
       \/ /\ ~IsRefusal(after) /\ Len(after.text) <= MaxLength /\ writes < MaxWrites
          /\ doc' = after /\ writes' = writes + 1
          /\ \/ call' = [call EXCEPT !.pc = "length", !.landed = Landed]
             \/ call' = [Failure(after) EXCEPT !.landed = Landed]
       \/ Goes(Failure(IF IsRefusal(after) THEN after ELSE doc))

\* A bug of the kind the inner try guards against: a length that cannot be read is a failure.
LengthAnswerFails(read) == IF read THEN "ok" ELSE "refused"

\* The length for the next batch is read, and left out of the answer when it cannot be.
LengthAnswer(read) == "ok"

Length ==
    /\ call.pc = "length"
    /\ \E read \in BOOLEAN : Goes(Answer(LengthAnswer(read)))

Return == call.pc = "done" /\ Goes(Idle)

\* Somebody else types, deletes or makes the header.
Edit ==
    /\ writes < MaxWrites /\ writes' = writes + 1
    /\ \/ Len(doc.text) < MaxLength /\ doc' = Applied(doc, Request("insert", 1, 0, <<Other>>, {}, {}))
       \/ doc.text # <<>> /\ doc' = Applied(doc, Request("delete", 1, 2, <<>>, {}, {}))
       \/ "header" \notin doc.page /\ doc' = Applied(doc, Request("page", 0, 0, <<>>, {"header"}, {}))
    /\ UNCHANGED call

Next ==
    \/ \E op \in Menu : Compose(op)
    \/ Check \/ Preflight \/ Build \/ Send \/ Length \/ Return
    \/ Edit

Spec == Init /\ [][Next]_vars

-----------------------------------------------------------------------------
(* Properties *)

\* What the caller means by an operation, whatever requests it takes.
Field(o) == IF o = "heading" THEN "named" ELSE o
Named(op) == {Field(o) : o \in op.given \ {"row", "column", "span", "clear"}}

\* What he does not name and loses all the same: of a font, a page size, columns or a
\* border that is given in part, the other part.
Halved(op) == UNION {whole \in Wholes : whole \cap Named(op) # {}} \ Named(op)
Gone(op) == (IF "clear" \in op.given THEN {"link"} ELSE {}) \cup Halved(op)

Meant(d, op) ==
    LET t == d.text
        from == IF op.from = 0 THEN 1 ELSE op.from
        each(F(_)) == [d EXCEPT !.text = [k \in DOMAIN t |-> IF k \in from..(op.to - 1) THEN F(k) ELSE t[k]]]
    IN CASE op.type = "insert_text" -> [d EXCEPT !.text = Inserted(t, Spot(t, op.from), op.text)]
         [] op.type \in {"delete_text", "replace_text"} ->
              LET rest == SubSeq(t, 1, from - 1) \o SubSeq(t, op.to, Len(t)) IN
              [d EXCEPT !.text = IF op.type = "delete_text" THEN rest
                                 ELSE Inserted(rest, from, op.text)]
         [] op.type \in {"format_text", "update_paragraph_style"} ->
              each(LAMBDA k : [t[k] EXCEPT !.has = (@ \cup Named(op)) \ Gone(op)])
         [] op.type \in {"update_document_style", "update_section_style", "update_table_cell_style"} ->
              [d EXCEPT !.page = (@ \cup Named(op)) \ Gone(op)]
         [] op.type = "create_header_footer" -> [d EXCEPT !.page = @ \cup {"header"}]
         [] op.type = "find_replace" ->
              [d EXCEPT !.text = [k \in DOMAIN t |->
                  IF t[k].x = op.text[1] THEN [t[k] EXCEPT !.x = op.text[2]] ELSE t[k]]]
         [] op.type = "create_bullet_list" ->
              LET nested == IF op.given = {} THEN {}
                            ELSE IF op.starts = {} THEN {from} ELSE op.starts
              IN each(LAMBDA k : [t[k] EXCEPT !.level = IF k \in nested THEN 2 ELSE 1])
         [] op.type = "remove_bullets" -> each(LAMBDA k : [t[k] EXCEPT !.level = 0])

\* A batch that is applied does to the document, as it is then, what its operations mean
\* one after the other: replaced text is replaced, a nested list has the levels asked for
\* and no tab left in it, and a style keeps every field its operation does not name, except
\* the other half of a font, a page size, columns or a border.
BatchIsItsOperations ==
    call.pc = "send" /\ doc' # doc /\ call' # call => doc' = FoldLeft(Meant, doc, call.ops)

BatchesMeanTheirOperations == [][BatchIsItsOperations]_vars


\* What one would expect of a style, and what setting one half of a pair does not do.
StylesKeepWhatIsNotNamed ==
    /\ call.pc = "send" /\ call' # call
    /\ \A k \in DOMAIN call.ops : call.ops[k].type \in {"update_document_style", "update_section_style",
                                                        "update_table_cell_style"}
    => doc.page \subseteq doc'.page

\* "clear_link (bool): Remove hyperlink": an operation that was accepted makes a request.
AcceptedMeansSendable == call.pc = "build" => Built(call.ops)
=============================================================================
