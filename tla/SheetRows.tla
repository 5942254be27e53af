------------------------------ MODULE SheetRows ------------------------------
(***************************************************************************)
(* The spreadsheet tools that move, insert and delete rows                 *)
(* (gsheets/sheets_tools.py).  Rows are named by number, so the requests   *)
(* of one batch shift the rows the next ones name, and what a tool has     *)
(* read may have shifted before it writes.                                 *)
(*                                                                         *)
(* A row is abstracted to its content; resize_sheet_dimensions treats      *)
(* columns the way it treats rows, and only rows are modelled.             *)
(***************************************************************************)
EXTENDS Naturals, Sequences, FiniteSets, SequencesExt

CONSTANTS
    Calls,    \* tool calls in flight
    Sheets,   \* the sheets of the spreadsheet
    Sources,  \* bound: the sheets rows are moved from
    Rows,     \* contents of a row
    Blank,    \* the content of an empty row
    MaxRows,   \* bound on the allocated rows of a sheet
    MaxInsert, \* bound on the rows one call inserts
    Places,   \* bound: the rows it inserts them before, 0 for the end
    MaxNamed  \* bound on the rows one call names

VARIABLES
    grid,  \* the allocated rows of each sheet, as Google keeps them
    call   \* the calls in flight

vars == <<grid, call>>

Grids == UNION {[1..n -> Rows \cup {Blank}] : n \in 1..MaxRows}

\* A call of move_sheet_rows: the rows asked for, what it has read of the destination,
\* and whether nobody has written since it began to read.
Idle == [pc |-> "idle", src |-> {}, dst |-> {}, start |-> 0, end |-> 0,
         dst_grid_rows |-> 0, paste_start |-> 0, fresh |-> TRUE]
Call == [pc : {"idle", "source", "destination", "write"},
         src : {{}} \cup {{s} : s \in Sheets}, dst : {{}} \cup {{s} : s \in Sheets},
         start : 0..MaxRows, end : 0..MaxRows, dst_grid_rows : 0..MaxRows,
         paste_start : 0..MaxRows, fresh : BOOLEAN]

TypeOK ==
    /\ grid \in [Sheets -> Grids]
    /\ call \in [Calls -> Call]

\* spreadsheets.create: sheets of one empty row.
Init ==
    /\ grid = [s \in Sheets |-> <<Blank>>]
    /\ call = [c \in Calls |-> Idle]

-----------------------------------------------------------------------------
(* What Google does with the requests of a batch *)

Blanks(n) == [i \in 1..n |-> Blank]

\* values.get leaves out the empty rows at the end.
DataRows(rows) ==
    IF \A i \in DOMAIN rows : rows[i] = Blank THEN 0
    ELSE CHOOSE i \in DOMAIN rows :
           rows[i] # Blank /\ \A j \in DOMAIN rows : j > i => rows[j] = Blank

\* insertDimension before row `at', appendDimension, deleteDimension.
InsertDimension(rows, at, n) == SubSeq(rows, 1, at - 1) \o Blanks(n) \o SubSeq(rows, at, Len(rows))
AppendDimension(rows, n) == rows \o Blanks(n)
DeleteDimension(rows, first, last) == SubSeq(rows, 1, first - 1) \o SubSeq(rows, last + 1, Len(rows))

\* copyPaste of whole rows.
CopyPaste(rows, from, paste_start) ==
    [i \in DOMAIN rows |->
        IF i \in paste_start + 1..paste_start + Len(from) THEN from[i - paste_start] ELSE rows[i]]

\* Every other call has now read something that is no longer so.
Wrote(done) ==
    call' = [c \in Calls |-> IF c \in done THEN Idle
                             ELSE IF call[c] = Idle THEN Idle
                             ELSE [call[c] EXCEPT !.fresh = FALSE]]

-----------------------------------------------------------------------------
(* modify_sheet_values, append_table_rows and create_sheet: one write each.  What      *)
(* append_table_rows and the copy of a sheet read first is an id, which stays.         *)

ModifySheetValues(s) ==
    /\ \E i \in DOMAIN grid[s], row \in Rows \cup {Blank} :
         grid' = [grid EXCEPT ![s][i] = row]
    /\ Wrote({})

\* appendCells: after the last row with data, the grid grows when it has to.
AppendTableRows(s) ==
    /\ LET last == DataRows(grid[s])
       IN \E row \in Rows :
            /\ last < MaxRows
            /\ grid' = [grid EXCEPT ![s] =
                 IF last < Len(@) THEN [@ EXCEPT ![last + 1] = row] ELSE Append(@, row)]
    /\ Wrote({})

\* A new sheet is empty, or the copy of another.
CreateSheet(s) ==
    /\ grid[s] = <<Blank>>
    /\ \E source \in Sheets \ {s} : grid' = [grid EXCEPT ![s] = grid[source]]
    /\ Wrote({})

-----------------------------------------------------------------------------
(* resize_sheet_dimensions *)

\* A bug of the kind the order guards against: rows are deleted as they were given.
DeletionOrderAsGiven(named) == named

\* "process in reverse to keep indices stable": a row named twice is deleted twice.
DeletionOrder(named) == SortSeq(named, LAMBDA i, j : i > j)

DeleteEach(rows, named) ==
    FoldLeft(LAMBDA acc, i : DeleteDimension(acc, i, i), rows, DeletionOrder(named))

\* The batch inserts before it deletes: the numbers to delete count the new rows.
Inserted(rows, at, n) ==
    IF n = 0 THEN rows
    ELSE IF at = 0 THEN AppendDimension(rows, n) ELSE InsertDimension(rows, at, n)

\* insert_rows and insert_rows_at (0: at the end), and either delete_rows or
\* delete_row_range.  Google refuses a batch that leaves the grid, or leaves none of it.
Insertion == {[n |-> 0, at |-> 0]} \cup [n : 1..MaxInsert, at : Places]
Deletions == UNION {[1..k -> 1..MaxRows] : k \in 0..MaxNamed}

Fits(rows, ins) == ins.at <= Len(rows) /\ Len(rows) + ins.n <= MaxRows

ResizeRows(s, ins, named) ==
    LET longer == Len(grid[s]) + ins.n
    IN /\ Fits(grid[s], ins)
       /\ ins.n > 0 \/ named # <<>>
       /\ \A i \in DOMAIN named : named[i] + i <= longer + 1
       /\ \E rows \in {DeleteEach(Inserted(grid[s], ins.at, ins.n), named)} :
            rows \in Grids /\ grid' = [grid EXCEPT ![s] = rows]
       /\ Wrote({})

ResizeRange(s, ins, first, last) ==
    LET longer == Len(grid[s]) + ins.n
    IN /\ Fits(grid[s], ins)
       /\ last <= longer /\ last - first + 1 < longer
       /\ grid' = [grid EXCEPT ![s] = DeleteDimension(Inserted(@, ins.at, ins.n), first, last)]
       /\ Wrote({})

-----------------------------------------------------------------------------
(* move_sheet_rows: three reads and a batch *)

\* The properties of the sheets: how many rows the destination is allocated.
MoveSheetRows(c) ==
    /\ call[c] = Idle
    /\ \E src \in Sources, dst \in Sheets, start, end \in 1..MaxRows :
         /\ start <= end /\ src # dst
         /\ call' = [call EXCEPT ![c] =
              [Idle EXCEPT !.pc = "source", !.src = {src}, !.dst = {dst}, !.start = start,
                           !.end = end, !.dst_grid_rows = Len(grid[dst])]]
    /\ UNCHANGED grid

\* Rows without data are an error.
ReadSource(c) ==
    /\ call[c].pc = "source"
    /\ \E src \in call[c].src :
         call' = [call EXCEPT ![c] =
            IF \E i \in call[c].start..call[c].end :
                 i \in DOMAIN grid[src] /\ grid[src][i] # Blank
            THEN [@ EXCEPT !.pc = "destination"] ELSE Idle]
    /\ UNCHANGED grid

\* A bug of the kind the read guards against: the last row with data is pasted over.
PasteStartOnData(rows) == IF DataRows(rows) = 0 THEN 0 ELSE DataRows(rows) - 1

PasteStart(rows) == DataRows(rows)

ReadDestination(c) ==
    /\ call[c].pc = "destination"
    /\ \E dst \in call[c].dst :
         call' = [call EXCEPT ![c].pc = "write", ![c].paste_start = PasteStart(grid[dst])]
    /\ UNCHANGED grid

\* appendDimension if the rows do not fit the grid as it was read, copyPaste,
\* deleteDimension.
Grown(k, rows) ==
    LET needed == k.paste_start + (k.end - k.start + 1)
    IN IF needed > k.dst_grid_rows THEN AppendDimension(rows, needed - k.dst_grid_rows) ELSE rows

\* The requests are executed one after the other and what a failure leaves is not rolled
\* back: all of the batch lands, or the delete fails, or the copy does, or nothing lands.
MoveWrite(c) ==
    /\ call[c].pc = "write"
    /\ LET k == call[c]
           n == k.end - k.start + 1
       IN \E src \in k.src, dst \in k.dst :
            LET destination == Grown(k, grid[dst])
                pasted == CopyPaste(destination, SubSeq(grid[src], k.start, k.end), k.paste_start)
                copies == k.end <= Len(grid[src]) /\ k.paste_start + n <= Len(destination)
            IN \/ /\ Len(destination) <= MaxRows
                  /\ \/ /\ copies /\ n < Len(grid[src])
                        /\ grid' = [grid EXCEPT ![src] = DeleteDimension(@, k.start, k.end),
                                                ![dst] = pasted]
                     \/ copies /\ grid' = [grid EXCEPT ![dst] = pasted]
                     \/ grid' = [grid EXCEPT ![dst] = destination]
                  /\ Wrote({c})
               \/ /\ call' = [call EXCEPT ![c] = Idle]
                  /\ UNCHANGED grid

-----------------------------------------------------------------------------
Next ==
    \/ \E s \in Sheets : ModifySheetValues(s) \/ AppendTableRows(s) \/ CreateSheet(s)
    \/ \E s \in Sheets, ins \in Insertion, named \in Deletions : ResizeRows(s, ins, named)
    \/ \E s \in Sheets, ins \in Insertion, first \in 1..MaxRows :
         \E last \in first..MaxRows : ResizeRange(s, ins, first, last)
    \/ \E c \in Calls : MoveSheetRows(c) \/ ReadSource(c) \/ ReadDestination(c) \/ MoveWrite(c)

Spec == Init /\ [][Next]_vars

-----------------------------------------------------------------------------
(* Properties *)

Copies(g, row) == Cardinality({p \in Sheets \X (1..MaxRows) : p[2] \in DOMAIN g[p[1]] /\ g[p[1]][p[2]] = row})

\* "Formulas, data types, and formatting are preserved": unless somebody wrote between
\* its first read and its batch, a move loses no row of data, wherever the data of the
\* destination ends, however short its grid is and whichever of its requests fails; and
\* once the rows are gone from their sheet, none is doubled either.
MovesLoseNothing ==
    \A c \in Calls : call[c].pc = "write" /\ call[c].fresh /\ call'[c] = Idle =>
        \A row \in Rows :
            /\ Copies(grid', row) >= Copies(grid, row)
            /\ \A src \in call[c].src :
                 grid'[src] # grid[src] => Copies(grid', row) = Copies(grid, row)

MovesKeepRows == [][MovesLoseNothing]_vars

\* Not so of a move that fails half way, as its tool says: "if the copy succeeds but the delete fails, rows
\* may be duplicated".
MovesDoubleNothing ==
    \A c \in Calls : call[c].pc = "write" /\ call[c].fresh /\ call'[c] = Idle =>
        \A row \in Rows : Copies(grid', row) = Copies(grid, row)

\* "process in reverse to keep indices stable": a call that inserts nothing deletes
\* exactly the rows it names, in whatever order it names them, as long as it names none
\* of them twice.
DeletesWhatItNames ==
    \A s \in Sheets : \A named \in Deletions :
        LET all == DOMAIN grid[s]
            gone == {named[i] : i \in DOMAIN named}
            kept == SetToSortSeq(all \ gone, <)
        IN IsInjective(named) /\ gone \subseteq all =>
             DeleteEach(grid[s], named) = [j \in DOMAIN kept |-> grid[s][kept[j]]]
=============================================================================
