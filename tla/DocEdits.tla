------------------------------ MODULE DocEdits ------------------------------
(***************************************************************************)
(* The body of a document and the tools of gdocs/docs_tools.py that edit   *)
(* it by index (with docs_helpers.py, docs_tables.py, docs_structure.py,   *)
(* docs_markdown_writer.py and managers/table_operation_manager.py).  A    *)
(* tool builds a batch of requests from its arguments, and from the body   *)
(* as it read it where it needs to; the service applies the whole batch to *)
(* the body as it is then, or refuses it.                                  *)
(***************************************************************************)
EXTENDS Naturals, SequencesExt

CONSTANTS
    Calls,       \* tool calls in flight
    Words,       \* texts a caller gives: sequences of characters
    Tables,      \* data for tables: rows of cells, a cell a word or <<>>
    Texts,       \* markdown texts: blocks of items, an item a sequence of runs
    Tab,         \* the tab character
    None,        \* no text, no formatting
    MaxLevel,    \* the deepest list level a caller asks for
    MaxDistance, \* how far from its index a new table is looked for
    MaxLength,   \* bound on the body
    MaxWrites    \* bound on the batches that change the body

VARIABLES
    body,   \* the body from index 1 on: characters, newlines and the marks of tables
    writes, \* batches that changed it
    call    \* the calls in flight

vars == <<body, writes, call>>

\* s is 1 on a bold character, 1 + the level on the newline of a list paragraph and the
\* number of columns on the mark that begins a table.
Char(x, s) == [k |-> "char", x |-> x, s |-> s]
ParagraphEnd(s) == [k |-> "nl", x |-> None, s |-> s]
Mark(k, s) == [k |-> k, x |-> None, s |-> s]
Marks == {"table", "cell", "end"}

\* op: the tool; from, to: its range; text: a word, the rows of a table or a markdown
\* text; on: bold, the level, or whether what is there is replaced; batch: what is sent;
\* fresh: nothing was written since the call read the body, or made its table; made: it has
\* made its table; told: what its caller hears of a table.
Idle == [pc |-> "idle", op |-> "modify", from |-> 0, to |-> 0, text |-> None, on |-> None,
         batch |-> <<>>, fresh |-> TRUE, made |-> FALSE, told |-> None]

TypeOK ==
    /\ Len(body) \in 1..MaxLength /\ body[Len(body)].k = "nl"
    /\ \A i \in DOMAIN body : body[i].k \in {"char", "nl"} \cup Marks /\ body[i].s \in Nat
    /\ writes \in 0..MaxWrites
    /\ DOMAIN call = Calls
    /\ \A c \in Calls : /\ DOMAIN call[c] = DOMAIN Idle
                        /\ call[c].pc \in {"idle", "send", "tables", "done"}
                        /\ call[c].told \in {None, "success", "partial", "error", "raised"}
                        /\ call[c].op \in {"modify", "append", "create", "fill", "nest", "markdown"}

Init ==
    /\ body = <<ParagraphEnd(0)>>
    /\ writes = 0
    /\ call = [c \in Calls |-> Idle]

-----------------------------------------------------------------------------
(* What the service does with a request *)

Insert(i, word) == [op |-> "insert", at |-> i, to |-> i, text |-> word, on |-> 0]
Delete(i, j) == [op |-> "delete", at |-> i, to |-> j, text |-> None, on |-> 0]
Format(i, j, on) == [op |-> "format", at |-> i, to |-> j, text |-> None, on |-> on]
Bullets(i, j) == [op |-> "bullets", at |-> i, to |-> j, text |-> None, on |-> 0]
InsertTable(i, rows, cols) == [op |-> "table", at |-> i, to |-> rows, text |-> None, on |-> cols]

\* An insertion at 0 is one at the end of the segment.
Spot(b, r) == IF r.op = "insert" /\ r.at = 0 THEN Len(b) ELSE r.at

\* The table around a mark; a range may hold a whole table but no part of one.
TableStart(b, p) == CHOOSE t \in 1..p : b[t].k = "table" /\ \A q \in (t + 1)..p : b[q].k # "table"
TableEnd(b, p) == CHOOSE e \in p..Len(b) : b[e].k = "end" /\ \A q \in p..(e - 1) : b[q].k # "end"

Refused(b, r) ==
    CASE r.op \in {"insert", "table"} ->
           Spot(b, r) \notin DOMAIN b \/ b[Spot(b, r)].k \in Marks
      [] r.op = "delete" ->
           \/ r.at < 1 \/ r.to <= r.at \/ r.to > Len(b)
           \/ \E i \in r.at..(r.to - 1) : \E m \in i..(i + 1) :
                /\ b[m].k \in Marks /\ (m = i \/ b[i].k = "nl")
                /\ TableStart(b, m) < r.at \/ TableEnd(b, m) >= r.to
      [] OTHER -> r.at < 1 \/ r.to <= r.at \/ r.to > Len(b) + 1

\* The paragraph around a place: where it begins, and its newline.
ParaStart(b, i) ==
    CHOOSE p \in 1..i : /\ \A q \in p..(i - 1) : b[q].k = "char"
                        /\ p = 1 \/ b[p - 1].k # "char"
ParaEnd(b, i) == CHOOSE p \in i..Len(b) : b[p].k = "nl" /\ \A q \in i..(p - 1) : b[q].k = "char"
Touched(b, i, from, to) ==
    b[i].k \notin Marks /\ ParaStart(b, i) < to /\ ParaEnd(b, i) >= from

\* Leading tabs become levels.
LeadingTab(b, i) == \A p \in ParaStart(b, i)..i : b[p].x = Tab
Leading(b, i) == Cardinality({p \in ParaStart(b, i)..i : b[p].k = "char" /\ LeadingTab(b, p)})
Bulleted(b, from, to) ==
    FlattenSeq([i \in DOMAIN b |->
        IF ~Touched(b, i, from, to) THEN <<b[i]>>
        ELSE IF b[i].k = "nl" THEN <<ParagraphEnd(1 + Leading(b, i))>>
        ELSE IF LeadingTab(b, i) THEN <<>> ELSE <<b[i]>>])

\* Inserted text looks like the text before it, an inserted newline like the paragraph.
Styled(b, i, word) ==
    [n \in DOMAIN word |->
        IF word[n].k = "nl" THEN ParagraphEnd(b[ParaEnd(b, i)].s)
        ELSE Char(word[n].x, IF i > 1 /\ b[i - 1].k = "char" THEN b[i - 1].s ELSE 0)]
EmptyTable(rows, cols) ==
    <<ParagraphEnd(0), Mark("table", cols)>>
        \o FlattenSeq([n \in 1..(rows * cols) |-> <<Mark("cell", 0), ParagraphEnd(0)>>])
        \o <<Mark("end", 0)>>
Spliced(b, i, new, j) == SubSeq(b, 1, i - 1) \o new \o SubSeq(b, j, Len(b))

Applied(b, r) ==
    CASE r.op = "insert" -> Spliced(b, Spot(b, r), Styled(b, Spot(b, r), r.text), Spot(b, r))
      [] r.op = "delete" -> Spliced(b, r.at, <<>>, r.to)
      [] r.op = "table" -> Spliced(b, r.at, EmptyTable(r.to, r.on), r.at)
      [] r.op = "format" ->
           [i \in DOMAIN b |-> IF i \in r.at..(r.to - 1) /\ b[i].k = "char"
                               THEN Char(b[i].x, r.on) ELSE b[i]]
      [] OTHER -> Bulleted(b, r.at, r.to)

\* All of a batch or nothing.
Batch(b, rs) ==
    FoldLeft(LAMBDA acc, r : IF acc = <<>> \/ Refused(acc, r) THEN <<>> ELSE Applied(acc, r), b, rs)
Busy(c) == call[c].pc \notin {"idle", "done"}
Tells(c, told) == [call[c] EXCEPT !.pc = "done", !.told = told, !.fresh = TRUE]

\* What becomes of a call whose batch made result of the body, or was refused.  An index
\* at the end of the body is tried once again, one further in front; whatever else keeps a
\* table from being made is raised.  One that is there and cannot be filled is a partial
\* success.
After(c, result) ==
    LET making == call[c].op = "create" /\ ~call[c].made
        again == call[c].from > Len(body) /\ call[c].to = 0
    IN CASE making /\ result # <<>> ->
              [call[c] EXCEPT !.pc = "tables", !.batch = <<>>, !.fresh = TRUE, !.made = TRUE]
         [] making /\ result = <<>> /\ again ->
              [call[c] EXCEPT !.from = @ - 1, !.to = 1, !.batch = <<[@[1] EXCEPT !.at = @ - 1]>>]
         [] making /\ result = <<>> /\ ~again -> Tells(c, "raised")
         [] call[c].op = "create" /\ call[c].made ->
              Tells(c, IF result = <<>> THEN "partial" ELSE "success")
         [] OTHER -> Idle

Send(c) ==
    /\ call[c].pc = "send" /\ writes < MaxWrites
    /\ LET result == Batch(body, call[c].batch)
       IN /\ Len(result) <= MaxLength
          /\ body' = IF result = <<>> THEN body ELSE result
          /\ writes' = IF body' = body THEN writes ELSE writes + 1
          /\ call' = [d \in Calls |->
                        IF d = c THEN After(c, result)
                        ELSE [call[d] EXCEPT !.fresh = @ /\ (~Busy(d) \/ body' = body)]]

\* The caller has his answer.
Return(c) == call[c].pc = "done" /\ call' = [call EXCEPT ![c] = Idle] /\ UNCHANGED <<body, writes>>

-----------------------------------------------------------------------------
(* What the tools send *)

Start(c, rec) == call[c] = Idle /\ writes < MaxWrites /\ call' = [call EXCEPT ![c] = rec] /\ UNCHANGED <<body, writes>>
Plain(word) == [n \in DOMAIN word |-> Char(word[n], 0)]

\* A bug of the kind the check guards against: the new text first, the old range after it.
ReplacementInFront(from, to, word) ==
    CASE word = None -> <<>>
      [] to <= from -> <<Insert(IF from = 0 THEN 1 ELSE from, Plain(word))>>
      [] OTHER -> <<Insert(IF from = 0 THEN 1 ELSE from, Plain(word)), Delete(from, to)>>

\* What modify_doc_text sends; index 0 is the section break before the body.
Replacement(from, to, word) ==
    CASE word = None -> <<>>
      [] to <= from -> <<Insert(IF from = 0 THEN 1 ELSE from, Plain(word))>>
      [] from = 0 -> <<Insert(1, Plain(word)), Delete(1 + Len(word), to + Len(word))>>
      [] OTHER -> <<Delete(from, to), Insert(from, Plain(word))>>
Formatting(from, to, word, on) ==
    LET start == IF from = 0 THEN 1 ELSE from
        end == IF word = None THEN to ELSE from + Len(word)
    IN IF on = None THEN <<>> ELSE <<Format(start, IF end <= start THEN start + 1 ELSE end, on)>>

\* Formatting needs a range.
ModifyDocText(c) ==
    \E from \in 0..Len(body), to \in 0..(Len(body) + 1), word \in Words \cup {None}, on \in {None, 0, 1} :
        /\ word # None \/ on # None
        /\ to = 0 \/ to > from
        /\ on # None => to > from
        /\ Start(c, [Idle EXCEPT !.pc = "send", !.from = from, !.to = to, !.text = word, !.on = on,
                       !.batch = Replacement(from, to, word) \o Formatting(from, to, word, on)])
AppendDocText(c) ==
    \E word \in Words : Start(c, [Idle EXCEPT !.pc = "send", !.op = "append", !.text = word,
                                    !.batch = <<Insert(0, Plain(word))>>])

\* create_table_with_data, first the empty table.
InTable(b, i) == \E p \in 1..(i - 1) : b[p].k = "table" /\ \A q \in p..(i - 1) : b[q].k # "end"
CreateTable(c) ==
    \E data \in Tables, at \in 1..(Len(body) + 1) :
        /\ at \in DOMAIN body => ~InTable(body, at)
        /\ Start(c, [Idle EXCEPT !.pc = "send", !.op = "create", !.from = at, !.text = data, !.on = 1,
                       !.batch = <<InsertTable(at, Len(data), Len(data[1]))>>])

\* The cells of a table, in order: the places of their marks, and the newline that ends one.
CellsOf(b, t) == SelectSeq([p \in DOMAIN b |-> p],
                           LAMBDA p : p > t /\ p < TableEnd(b, t) /\ b[p].k = "cell")
CellEnd(b, p) == CHOOSE e \in (p + 1)..Len(b) :
                    b[e + 1].k \in Marks /\ \A q \in (p + 1)..e : b[q].k \notin Marks
CellAt(b, t, r, k) == CellsOf(b, t)[(r - 1) * b[t].s + k]
TablesOf(b) == SelectSeq([p \in DOMAIN b |-> p], LAMBDA p : b[p].k = "table")

Filled(b, t, data) ==
    {at \in (DOMAIN data) \X (DOMAIN data[1]) :
        /\ data[at[1]][at[2]] # <<>>
        /\ at[1] <= Len(CellsOf(b, t)) \div b[t].s /\ at[2] <= b[t].s}

\* A bug of the kind the check guards against: from the first cell to the last.
OrderForwards(b, t, data) ==
    SetToSortSeq(Filled(b, t, data), LAMBDA u, v : CellAt(b, t, u[1], u[2]) < CellAt(b, t, v[1], v[2]))

\* The last cell first, so that no insertion moves a cell that is still to be filled.
Order(b, t, data) ==
    SetToSortSeq(Filled(b, t, data), LAMBDA u, v : CellAt(b, t, u[1], u[2]) > CellAt(b, t, v[1], v[2]))

Population(b, t, data, bold) ==
    LET order == Order(b, t, data)
    IN FlattenSeq([n \in DOMAIN order |->
        LET i == CellAt(b, t, order[n][1], order[n][2]) + 1
            word == data[order[n][1]][order[n][2]]
        IN <<Insert(i, Plain(word))>>
             \o (IF bold /\ order[n][1] = 1 THEN <<Format(i, i + Len(word), 1)>> ELSE <<>>)])

\* create_and_populate_table reads the tables and takes the one nearest to its index.
Distance(i, j) == IF i > j THEN i - j ELSE j - i
Nearest(b, at) ==
    LET ts == TablesOf(b)
    IN SelectSeq(ts, LAMBDA t : /\ Distance(t, at) <= MaxDistance
                                /\ \A i \in DOMAIN ts : Distance(t, at) <= Distance(ts[i], at))
Populating(c, t) ==
    [call[c] EXCEPT !.pc = "send", !.batch = Population(body, t, call[c].text, call[c].on = 1)]

\* The read may raise; a table that is not found is an error.
FindTable(c) ==
    /\ call[c].pc = "tables"
    /\ LET found == Nearest(body, call[c].from)
       IN \/ call' = [call EXCEPT ![c] = IF found = <<>> THEN Tells(c, "error")
                                         ELSE Populating(c, found[1])]
          \/ call' = [call EXCEPT ![c] = Tells(c, "raised")]
    /\ UNCHANGED <<body, writes>>

\* populate_existing_table appends to what the cells hold.
PopulateExistingTable(c) ==
    \E data \in Tables, n \in DOMAIN TablesOf(body) :
        LET t == TablesOf(body)[n]
            order == Order(body, t, data)
        IN /\ Len(data) <= Len(CellsOf(body, t)) \div body[t].s /\ Len(data[1]) <= body[t].s
           /\ Start(c, [Idle EXCEPT !.pc = "send", !.op = "fill", !.from = t, !.text = data,
                !.batch = [m \in DOMAIN order |->
                    Insert(CellEnd(body, CellAt(body, t, order[m][1], order[m][2])),
                           Plain(data[order[m][1]][order[m][2]]))]])

\* update_paragraph_style with a list: a nested one first reads where the paragraphs of
\* the range begin, those of the body and not those of tables.
Starts(b, from, to) ==
    LET hit == SelectSeq([p \in DOMAIN b |-> p],
                         LAMBDA p : ~InTable(b, p) /\ Touched(b, p, from, to) /\ ParaStart(b, p) = p)
    IN IF hit = <<>> THEN <<from>> ELSE hit
Before(s, i) == Len(SelectSeq(s, LAMBDA p : p < i))
Nesting(starts, from, to, level) ==
    [n \in DOMAIN starts |-> Insert(starts[n] + (n - 1) * level, [m \in 1..level |-> Char(Tab, 0)])]
        \o <<Bullets(from + Before(starts, from) * level, to + Before(starts, to) * level)>>
MakeList(c) ==
    \E from \in 1..Len(body), to \in 2..(Len(body) + 1), level \in 0..MaxLevel :
        /\ to > from
        /\ Start(c, [Idle EXCEPT !.pc = "send", !.op = "nest", !.from = from, !.to = to, !.on = level,
                       !.batch = IF level = 0 THEN <<Bullets(from, to)>>
                                 ELSE Nesting(Starts(body, from, to), from, to, level)])

\* markdown_to_docs_requests: a cursor runs through runs, items and blocks.
EmitRun(acc, run) ==
    [at |-> acc.at + Len(run.word), word |-> acc.word \o run.word,
     style |-> acc.style \o (IF run.bold THEN <<Format(acc.at, acc.at + Len(run.word), 1)>> ELSE <<>>)]
EmitItem(acc, item) ==
    LET all == FoldLeft(EmitRun, [at |-> acc.at, word |-> <<>>, style |-> <<>>], item)
    IN [at |-> all.at + 1,
        batch |-> acc.batch \o <<Insert(acc.at, Plain(all.word) \o <<ParagraphEnd(0)>>)>> \o all.style]
EmitBlock(acc, block) ==
    LET all == FoldLeft(EmitItem, acc, block.items)
    IN [at |-> all.at + 1,
        batch |-> all.batch \o (IF block.list THEN <<Bullets(acc.at, all.at)>> ELSE <<>>)
                    \o <<Insert(all.at, <<ParagraphEnd(0)>>)>>]
Emitted(text, at) == FoldLeft(EmitBlock, [at |-> at, batch |-> <<>>], text).batch

\* populate_from_markdown reads where the body ends, then replaces what it holds or
\* writes before its last newline.
PopulateFromMarkdown(c) ==
    \E text \in Texts, replace \in BOOLEAN :
        LET end == Len(body) + 1
        IN Start(c, [Idle EXCEPT !.pc = "send", !.op = "markdown", !.from = end, !.text = text,
                       !.on = IF replace THEN 1 ELSE 0,
                       !.batch = IF replace
                                 THEN (IF end > 2 THEN <<Delete(1, end - 1)>> ELSE <<>>) \o Emitted(text, 1)
                                 ELSE Emitted(text, IF end > 2 THEN end - 1 ELSE 1)])

\* Somebody else types while a tool is at work, early enough for the tool to go on.
SomebodyTypes ==
    /\ writes + 1 < MaxWrites /\ \E c \in Calls : Busy(c) /\ call[c].fresh
    /\ \E i \in DOMAIN body, word \in Words :
         /\ ~Refused(body, Insert(i, Plain(word))) /\ Len(body) + Len(word) <= MaxLength
         /\ body' = Applied(body, Insert(i, Plain(word)))
    /\ writes' = writes + 1
    /\ call' = [c \in Calls |-> [call[c] EXCEPT !.fresh = @ /\ ~Busy(c)]]

Next ==
    \/ SomebodyTypes
    \/ \E c \in Calls :
        \/ ModifyDocText(c) \/ AppendDocText(c) \/ CreateTable(c) \/ FindTable(c)
        \/ PopulateExistingTable(c) \/ MakeList(c) \/ PopulateFromMarkdown(c) \/ Send(c)
        \/ Return(c)

Spec == Init /\ [][Next]_vars

-----------------------------------------------------------------------------
(* Properties *)

TextOf(b) == [i \in DOMAIN b |-> b[i].x]
Styles(b) == [i \in DOMAIN b |-> b[i].s]

\* A batch of c goes through and changes the body.
Lands(c) == body' # body /\ call[c].pc = "send" /\ call'[c].pc # "send"
FreshLands(c, op) == Lands(c) /\ call[c].fresh /\ call[c].op = op

\* The cells of data in the table at t, as a body.
Shown(data, t, cols, bold) ==
    FlattenSeq([r \in DOMAIN data |-> FlattenSeq([k \in DOMAIN data[r] |->
        <<Mark("cell", 0)>> \o [n \in DOMAIN data[r][k] |-> Char(data[r][k][n], IF bold /\ r = 1 THEN 1 ELSE 0)]
            \o <<ParagraphEnd(0)>>])])
TableWritten(c) ==
    LET data == call[c].text
        t == call[c].from + 1
        size == 2 * Len(data) * Len(data[1])
    IN body' = Spliced(body, t + 1, Shown(data, t, Len(data[1]), TRUE), t + 1 + size)

\* create_table_with_data, when nothing else writes between its requests: the new table
\* holds its data cell by cell, the first row bold, and nothing else has changed.  Its
\* caller hears "SUCCESS" in that step and in no other, so an error or a raise is never told
\* of a table that has its data.
TablesAreWritten ==
    \A c \in Calls :
        /\ FreshLands(c, "create") /\ call[c].made /\ body[call[c].from].s = 0 =>
             TableWritten(c) /\ call'[c].told = "success"
        /\ call'[c].told \in {"error", "raised", "partial"} => ~Lands(c)

TablesHoldTheirData == [][TablesAreWritten]_vars

\* "Once creation has succeeded nothing else raises": a table that is there is not an
\* error, which would invite a retry that makes a second one.
NothingRaisesOnceCreated == \A c \in Calls : call[c].made => call[c].told # "raised"
AMadeTableIsNoError == \A c \in Calls : call[c].made => call[c].told # "error"

\* modify_doc_text: the range and nothing else gives way to the text, and only the text
\* changes its looks; a range that holds only the section break takes in one character.
ReplacementIsExact(c) ==
    LET call_ == call[c]
        from == IF call_.from = 0 THEN 1 ELSE call_.from
        to == IF call_.to > from THEN call_.to ELSE IF call_.text = None THEN from + 1 ELSE from
        end == IF call_.text = None THEN to ELSE from + Len(call_.text)
    IN /\ TextOf(body') = SubSeq(TextOf(body), 1, from - 1)
                            \o (IF call_.text = None THEN SubSeq(TextOf(body), from, to - 1) ELSE call_.text)
                            \o SubSeq(TextOf(body), to, Len(body))
       /\ SubSeq(body', 1, from - 1) = SubSeq(body, 1, from - 1)
       /\ SubSeq(body', end, Len(body')) = SubSeq(body, to, Len(body))
       /\ call_.on # None /\ call_.from > 0 =>
            \A i \in from..(end - 1) : body'[i].k = "char" => body'[i].s = call_.on

\* update_paragraph_style with a list: the paragraphs of the range become items of the
\* level, no text is touched and no tab left behind.
ListIsExact(c) ==
    LET call_ == call[c]
    IN body' = [i \in DOMAIN body |->
                  IF body[i].k = "nl" /\ Touched(body, i, call_.from, call_.to)
                  THEN ParagraphEnd(1 + call_.on) ELSE body[i]]

\* populate_from_markdown in place of what was there: the blocks and a last newline.
MarkdownIsExact(c) ==
    LET base == body[Len(body)].s
    IN body' = FlattenSeq([b \in DOMAIN call[c].text |->
                   LET block == call[c].text[b]
                   IN FlattenSeq([n \in DOMAIN block.items |->
                          FlattenSeq([r \in DOMAIN block.items[n] |->
                              LET run == block.items[n][r]
                              IN [m \in DOMAIN run.word |-> Char(run.word[m], IF run.bold THEN 1 ELSE 0)]])
                            \o <<ParagraphEnd(IF block.list THEN 1 ELSE base)>>]) \o <<ParagraphEnd(base)>>])
               \o <<ParagraphEnd(base)>>

\* What a tool built from the body it read, or from its arguments alone, does what it
\* says when the body is still the one it read.
EditsAreExact ==
    \A c \in Calls :
        /\ Lands(c) /\ call[c].op = "modify" => ReplacementIsExact(c)
        /\ /\ FreshLands(c, "nest")
           /\ \A i \in call[c].from..(call[c].to - 1) : ~InTable(body, i)
           /\ \A i \in DOMAIN body : body[i].x # Tab
           => ListIsExact(c)
        /\ FreshLands(c, "markdown") /\ call[c].on = 1 => MarkdownIsExact(c)

EditsLandAsMeant == [][EditsAreExact]_vars

\* "Text was replaced - format the new text": all of the new text is formatted.
NewTextIsFormatted ==
    [][\A c \in Calls :
          Lands(c) /\ call[c].op = "modify" /\ call[c].text # None /\ call[c].on # None =>
            \A i \in DOMAIN call[c].text :
                body'[(IF call[c].from = 0 THEN 1 ELSE call[c].from) + i - 1].s = call[c].on]_vars
=============================================================================
