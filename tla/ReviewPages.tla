----------------------------- MODULE ReviewPages -----------------------------
(***************************************************************************)
(* list_document_suggestions, page by page                                 *)
(* (gdocs_preview/curated_tools.py, review_page.py, address.py): a caller  *)
(* sweeps the suggestions of a document with a filter and a page token,    *)
(* each page is made from a read of its own, and the document changes in   *)
(* between.                                                                *)
(***************************************************************************)
EXTENDS Naturals, SequencesExt

CONSTANTS
    Order,     \* the suggestions there may be, in document order
    Unmarked,  \* those that leave no mark in the content: paragraph styles, bullets
    TabOf,     \* the tab a suggestion is in
    SegmentOf, \* its segment there
    AuthorOf,  \* its author
    FirstTab, Body,
    None,      \* not asked for; no token; not known
    PageSize,  \* records of a page
    MaxChanges \* bound on what the others do during a sweep

Cards == {Order[i] : i \in DOMAIN Order}
Tabs == {TabOf[c] : c \in Cards}

VARIABLES
    live,    \* the suggestions pending
    inRange, \* those that overlap the index range asked for, wherever they are
    tabs,    \* the tabs of the document
    created, \* every suggestion there has been
    changes, \* what the others have done
    sweep    \* the caller's sweep, and the last answer

vars == <<live, inRange, tabs, created, changes, sweep>>

Query == [author : {None} \cup {AuthorOf[c] : c \in Cards}, ranged : BOOLEAN,
          tab : {None} \cup Tabs, segment : {None} \cup ({SegmentOf[c] : c \in Cards} \ {Body})]

\* token: the next_page_token.  History: steady, the suggestions that were asked for at
\* every read so far; listed, those that were returned; twice, whether one was returned
\* again; told, whether an answer said that it may skip, or was degraded.
Idle == [pc |-> "idle", query |-> None, token |-> None, steady |-> {}, listed |-> {},
         twice |-> FALSE, told |-> FALSE, answer |-> None]

TypeOK ==
    /\ live \subseteq created /\ created \subseteq Cards /\ inRange \subseteq Cards
    /\ tabs \subseteq Tabs /\ FirstTab \in tabs
    /\ \A c \in live : TabOf[c] \in tabs
    /\ changes \in 0..MaxChanges
    /\ DOMAIN sweep = DOMAIN Idle /\ sweep.pc \in {"idle", "sweep", "done"}
    /\ sweep.query \in Query \cup {None}
    /\ sweep.token # None => sweep.token.ordinal \in 1..Len(Order)

Init ==
    /\ live = Cards \ {Order[Len(Order)]} /\ created = live
    /\ inRange = Cards
    /\ tabs = Tabs
    /\ changes = 0
    /\ sweep = Idle

-----------------------------------------------------------------------------
(* A read and what is kept of it *)

\* extract_suggestions_from_tabs: what has a mark, in document order.  A read that
\* degraded sees the first tab alone, and names neither tab nor author.
Records(degraded) ==
    SelectSeq(Order, LAMBDA c : /\ c \in live \ Unmarked
                                /\ degraded => TabOf[c] = FirstTab)

\* A bug of the kind the list of blocked filters guards against.
BlocksNothing(q) == FALSE

\* What a degraded read cannot be filtered by.
Blocks(q) == q.author # None \/ q.tab # None

\* tab_inventory: a degraded read has no tabs.
Inventory(degraded) == IF degraded THEN {} ELSE tabs

\* resolve_range_scope: a range is read in one segment of one tab, and a tab left out is
\* only resolved when the document has no other.
Unresolved(q, degraded) ==
    q.ranged /\ q.tab = None /\ Cardinality(Inventory(degraded)) > 1

Scope(q, degraded) ==
    IF ~q.ranged THEN None
    ELSE [segment |-> q.segment,
          tab |-> IF q.tab # None THEN q.tab
                  ELSE IF Inventory(degraded) = {} THEN None
                  ELSE CHOOSE t \in Inventory(degraded) : TRUE]

\* in_range_scope and _overlaps; without segment_id a range is one of the body.
InScope(c, scope) ==
    /\ scope.tab \in {None, TabOf[c]}
    /\ SegmentOf[c] = IF scope.segment = None THEN Body ELSE scope.segment

Asked(c, q, scope) ==
    /\ q.author \in {None, AuthorOf[c]}
    /\ q.tab \in {None, TabOf[c]}
    /\ q.segment \in {None, SegmentOf[c]}
    /\ q.ranged => InScope(c, scope) /\ c \in inRange

\* filter_records.
Kept(q, degraded) ==
    SelectSeq(Records(degraded), LAMBDA c : Asked(c, q, Scope(q, degraded)))

-----------------------------------------------------------------------------
(* paginate *)

\* _fingerprint: the query, and the scope its range was resolved to.
Fingerprint(q, degraded) == <<q, Scope(q, degraded)>>

Position(kept, c) == CHOOSE i \in DOMAIN kept : kept[i] = c

Least(a, b) == IF a < b THEN a ELSE b

\* A bug of the kind the anchor guards against: a token is an offset.
StartAtOrdinal(token, kept) == IF token = None THEN 0 ELSE Least(token.ordinal, Len(kept))

\* After the anchor, wherever it is now, or else at the position recorded.
Start(token, kept) ==
    IF token = None THEN 0
    ELSE IF token.anchor \in ToSet(kept) THEN Position(kept, token.anchor)
    ELSE Least(token.ordinal, Len(kept))

\* That the anchor is gone is said.
AnchorGone(token, kept) == token # None /\ token.anchor \notin ToSet(kept)

Window(token, kept) ==
    SubSeq(kept, Start(token, kept) + 1, Least(Start(token, kept) + PageSize, Len(kept)))

\* encode_page_token, when there is more.
NextToken(token, q, degraded, kept) ==
    LET end == Start(token, kept) + Len(Window(token, kept)) IN
    IF end >= Len(kept) THEN None
    ELSE [key |-> Fingerprint(q, degraded), ordinal |-> end, anchor |-> kept[end]]

\* A bug of the kind the comment in attach_unreported guards against: what is on the page
\* is subtracted.
ReportedOnPage(records, window) == ToSet(window)

\* Every suggestion that was modelled is subtracted from the threads.
Reported(records, window) == ToSet(records)

\* unreported_suggestions: pending threads nothing above describes; a degraded read has
\* no threads and says that it does not know.
Unreported(degraded, reported) == IF degraded THEN None ELSE live \ reported

-----------------------------------------------------------------------------
(* A call *)

\* A call that cannot be answered is refused and the sweep stays where it is.
Answerable(q, degraded) ==
    /\ ~(degraded /\ Blocks(q))
    /\ ~Unresolved(q, degraded)
    /\ sweep.token # None => sweep.token.key = Fingerprint(q, degraded)

\* What the caller asks for, of the document as it is.
Wanted(q, scope) == {c \in live \ Unmarked : Asked(c, q, scope)}

\* list_document_suggestions: one read, and everything else from it.
Page(q, degraded) ==
    /\ \/ sweep.pc = "idle"
       \/ sweep.pc = "sweep" /\ q = sweep.query
    /\ Answerable(q, degraded)
    /\ LET kept == Kept(q, degraded)
           window == ToSet(Window(sweep.token, kept))
           next == NextToken(sweep.token, q, degraded, kept)
           wanted == Wanted(q, Scope(q, degraded))
       IN sweep' =
            [pc |-> IF next = None THEN "done" ELSE "sweep",
             query |-> q, token |-> next,
             steady |-> IF sweep.pc = "idle" THEN wanted ELSE sweep.steady \cap wanted,
             listed |-> sweep.listed \cup window,
             twice |-> sweep.twice \/ window \cap sweep.listed # {},
             told |-> sweep.told \/ degraded \/ AnchorGone(sweep.token, kept),
             answer |-> [count |-> ToSet(Records(degraded)), matched |-> ToSet(kept), wanted |-> wanted,
                         unreported |-> Unreported(degraded, Reported(Records(degraded),
                                                                      Window(sweep.token, kept))),
                         pending |-> live, degraded |-> degraded]]
    /\ UNCHANGED <<live, inRange, tabs, created, changes>>

GiveUp == sweep.pc # "idle" /\ sweep' = Idle /\ UNCHANGED <<live, inRange, tabs, created, changes>>

-----------------------------------------------------------------------------
(* The others, and the caller between pages *)

Change == changes < MaxChanges /\ changes' = changes + 1 /\ sweep' = [sweep EXCEPT !.answer = None]

\* A suggestion is accepted or rejected, and may take others with it.
Resolve(gone) ==
    /\ Change
    /\ gone # {} /\ live' = live \ gone
    /\ UNCHANGED <<inRange, tabs, created>>

Suggest(c) ==
    /\ Change
    /\ c \notin created /\ TabOf[c] \in tabs
    /\ live' = live \cup {c} /\ created' = created \cup {c}
    /\ UNCHANGED <<inRange, tabs>>

\* An edit in front of it moves a suggestion into the range or out of it.
Move(c) ==
    /\ Change
    /\ inRange' = IF c \in inRange THEN inRange \ {c} ELSE inRange \cup {c}
    /\ UNCHANGED <<live, tabs, created>>

\* A tab goes, with what is in it, or comes.
Retab(t) ==
    /\ Change
    /\ t # FirstTab
    /\ tabs' = IF t \in tabs THEN tabs \ {t} ELSE tabs \cup {t}
    /\ live' = {c \in live : TabOf[c] \in tabs'}
    /\ UNCHANGED <<inRange, created>>

Next ==
    \/ \E q \in Query : \E degraded \in BOOLEAN : Page(q, degraded)
    \/ GiveUp
    \/ \E gone \in SUBSET live : Resolve(gone)
    \/ \E c \in Cards : Suggest(c) \/ Move(c)
    \/ \E t \in Tabs : Retab(t)

Spec == Init /\ [][Next]_vars

-----------------------------------------------------------------------------
(* Properties *)

\* "A silently skipped suggestion is the worst outcome this product has": when a sweep has
\* come to its last page and no answer said that its anchor was gone or that it was
\* degraded, every suggestion that was asked for at each of its reads was returned, and
\* none twice, whatever was resolved, made or moved between the pages.
SweepsMissNothing ==
    sweep.pc = "done" /\ ~sweep.told => sweep.steady \subseteq sweep.listed /\ ~sweep.twice

\* "Nothing goes missing without the response saying so": what an answer counts, and what
\* it says it does not describe, are together what is pending, each once, unless it says
\* that it cannot tell; and what it says matches an author or a tab is all that does.
AnswersAreComplete ==
    sweep.answer # None =>
        LET a == sweep.answer IN
        /\ ~a.degraded => /\ a.count \cup a.unreported = a.pending
                          /\ a.count \cap a.unreported = {}
        /\ a.degraded => a.unreported = None
        /\ sweep.query.author # None \/ sweep.query.tab # None => a.matched = a.wanted
=============================================================================
