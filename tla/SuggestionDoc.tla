---------------------------- MODULE SuggestionDoc ---------------------------
(***************************************************************************)
(* mockdocs/model.py: the suggesting mode of one document, as the API the  *)
(* tools are tested against implements it.                                 *)
(*                                                                         *)
(* A document has segments (a body, headers, ...), each a sequence of      *)
(* characters, and a document-wide registry of open suggestions.  A        *)
(* character carries the ids of the suggestions that insert it and of      *)
(* those that delete it; nothing else says where a suggestion is.  Every   *)
(* operation of MockDoc is an operator from documents to documents, and    *)
(* every request an action.                                                *)
(*                                                                         *)
(* A character is named by where it comes from, so that two outcomes of a  *)
(* document are equal only if they kept the same characters: this is finer *)
(* than its text.  Colour, style and labels are views and left out.        *)
(***************************************************************************)
EXTENDS Naturals, FiniteSets, Sequences, SequencesExt, FiniteSetsExt, Functions

CONSTANTS
    Authors,
    Base,           \* the number of characters each segment begins with
    Lengths,        \* the lengths of inserted texts
    Kinds,          \* the requests made in this run, a subset of AllKinds
    MaxSuggestions, \* bound: ids ever minted
    MaxLength,      \* bound: characters of one segment
    MaxClock        \* bound: the clock at which the replying stops

AllKinds == {"insert", "delete", "replace", "edit", "resolve", "reply"}

ASSUME DocAssumption ==
    /\ IsFiniteSet(Authors)
    /\ DOMAIN Base # {} /\ \A seg \in DOMAIN Base : Base[seg] \in Nat
    /\ Lengths \subseteq Nat \ {0} /\ Kinds \subseteq AllKinds
    /\ MaxSuggestions \in Nat /\ MaxLength \in Nat /\ MaxClock \in Nat

Segments == DOMAIN Base
Ids == Authors \X (1..MaxSuggestions)       \* sug.{author}.{n}
AuthorOf(s) == s[1]

VARIABLE doc

\* The posts of a thread are represented by their creation times.
InitialDoc ==
    [segments |-> [seg \in Segments |->
        [i \in 1..Base[seg] |-> [cp |-> <<"base", i>>, ins |-> {}, dels |-> {}]]],
     registry |-> [s \in {} |-> [touched |-> 0, thread |-> <<>>]],
     clock |-> 0,
     counters |-> [a \in Authors |-> 0],
     mergeLog |-> {}]

Init == doc = InitialDoc

-----------------------------------------------------------------------------
(* Reading a document. *)

Open(d) == DOMAIN d.registry
Minted(d) == {s \in Ids : s[2] <= d.counters[AuthorOf(s)]}
Marks(c) == c.ins \cup c.dels
Where(chars, s) == {i \in DOMAIN chars : s \in Marks(chars[i])}
MarkedIn(chars) == UNION {Marks(chars[i]) : i \in DOMAIN chars}
Marked(d) == UNION {MarkedIn(d.segments[seg]) : seg \in Segments}

\* The half-open range an id covers in the index space of one segment.
Span(chars, s) == [lo |-> Min(Where(chars, s)) - 1, hi |-> Max(Where(chars, s))]

Gap(a, b) == IF a.hi <= b.lo THEN b.lo - a.hi
             ELSE IF b.hi <= a.lo THEN a.lo - b.hi ELSE 0

\* The n-th of a set of numbers, and what a sequence has at some of its positions, in
\* their order.
Position(where, n) == CHOOSE i \in where : Cardinality({j \in where : j <= i}) = n
Kept(items, where) == [n \in 1..Cardinality(where) |-> items[Position(where, n)]]

-----------------------------------------------------------------------------
(* Bookkeeping: new ids, garbage. *)

\* Mutant: ids are numbered by what is open.
NewSuggestion_Reused(d, a) ==
    LET n == Cardinality({s \in Open(d) : AuthorOf(s) = a}) + 1
    IN [d EXCEPT !.counters[a] = n, !.clock = @ + 1,
                 !.registry = [s \in Open(d) \cup {<<a, n>>} |->
                     IF s = <<a, n>> THEN [touched |-> d.clock + 1, thread |-> <<>>]
                     ELSE d.registry[s]]]

NewSuggestion(d, a) ==
    LET n == d.counters[a] + 1
    IN [d EXCEPT !.counters[a] = n, !.clock = @ + 1,
                 !.registry = [s \in Open(d) \cup {<<a, n>>} |->
                     IF s = <<a, n>> THEN [touched |-> d.clock + 1, thread |-> <<>>]
                     ELSE d.registry[s]]]
Newest(d, a) == <<a, d.counters[a]>>

GC(d) == [d EXCEPT !.registry = Restrict(@, Open(d) \cap Marked(d))]

-----------------------------------------------------------------------------
(* The merge of touching suggestions of one author. *)

\* Mutant: one unchanged character between them does not keep two cards apart.
MergeTolerance_One == 1
MergeTolerance == 0

\* The open suggestions of the same author within the tolerance of s, seen in
\* one segment.
Partners(d, seg, s) ==
    LET chars == d.segments[seg]
    IN IF s \notin MarkedIn(chars) THEN {}
       ELSE {t \in (MarkedIn(chars) \cap Open(d)) \ {s} :
               /\ AuthorOf(t) = AuthorOf(s)
               /\ Gap(Span(chars, s), Span(chars, t)) <= MergeTolerance}

\* Mutant: the thread of the absorbed card is dropped with the card.
JoinedThread_Dropped(survivor, absorbed) == survivor
JoinedThread(survivor, absorbed) ==
    LET posts == ToSet(survivor) \cup ToSet(absorbed)
    IN [n \in 1..Cardinality(posts) |-> Position(posts, n)]

Renamed(c, old, new) ==
    [c EXCEPT !.ins = IF old \in @ THEN (@ \ {old}) \cup {new} ELSE @,
              !.dels = IF old \in @ THEN (@ \ {old}) \cup {new} ELSE @]

Merge(d, survivor, absorbed) ==
    [d EXCEPT
      !.segments = [seg \in Segments |->
          [i \in DOMAIN d.segments[seg] |->
              Renamed(d.segments[seg][i], absorbed, survivor)]],
      !.registry = [s \in Open(d) \ {absorbed} |->
          IF s = survivor
          THEN [touched |-> d.clock + 1,
                thread |-> JoinedThread(d.registry[survivor].thread,
                                        d.registry[absorbed].thread)]
          ELSE d.registry[s]],
      !.clock = @ + 1,
      !.mergeLog = @ \cup {<<survivor, absorbed>>}]

\* Mutant: a single pass, not a fixpoint.
MergeAround_Once(d, seg, s) ==
    LET found == Partners(d, seg, s)
    IN IF found = {} THEN [doc |-> d, sid |-> s]
       ELSE [doc |-> Merge(d, s, CHOOSE t \in found : TRUE), sid |-> s]

Leftmost(chars, cards) ==
    CHOOSE t \in cards : \A u \in cards : Span(chars, t).lo <= Span(chars, u).lo

\* One merge, with the leftmost partner; the survivor is the one touched last.
Absorb(r, seg) ==
    LET now == r.doc
        found == Partners(now, seg, r.sid)
        t == Leftmost(now.segments[seg], found)
        kept == IF now.registry[r.sid].touched >= now.registry[t].touched
                THEN r.sid ELSE t
        gone == IF kept = t THEN r.sid ELSE t
    IN IF found = {} THEN r ELSE [doc |-> Merge(now, kept, gone), sid |-> kept]

\* Absorbs one partner after the other, until none is left.
MergeAround(d, seg, s) ==
    LET merged[k \in 0..Cardinality(Open(d))] ==
          IF k = 0 THEN [doc |-> d, sid |-> s] ELSE Absorb(merged[k - 1], seg)
    IN merged[Cardinality(Open(d))]

Settle(d, seg, s) ==
    [MergeAround(d, seg, s) EXCEPT !.doc = GC(@)]

-----------------------------------------------------------------------------
(* Suggested edits, of characters i+1 .. j or at the cursor i. *)

Splice(chars, i, new) ==
    SubSeq(chars, 1, i) \o new \o SubSeq(chars, i + 1, Len(chars))

\* Mutant: what is typed into a card does not belong to it.
Inherited_None(chars, i) == {}

\* Inside another insertion, both neighbours carry it; struck like the left one.
InheritedIns(chars, i) ==
    IF 0 < i /\ i < Len(chars) THEN chars[i].ins \cap chars[i + 1].ins ELSE {}
InheritedDels(chars, i) == IF i > 0 THEN chars[i].dels ELSE {}

\* Mutant: text typed inside another insertion joins it instead of its own card.
InsMarks_Joined(s, inherited) == IF inherited = {} THEN {s} ELSE inherited
InsMarks(s, inherited) == {s} \cup inherited

Inserted(d, seg, i, n, a) ==
    LET chars == d.segments[seg]
        with == NewSuggestion(d, a)
        s == Newest(with, a)
        new == [cp |-> s, ins |-> InsMarks(s, InheritedIns(chars, i)),
                dels |-> InheritedDels(chars, i)]
    IN [with EXCEPT !.segments[seg] = Splice(chars, i, [k \in 1..n |-> new])]

Deleted(d, seg, i, j, a) ==
    LET chars == d.segments[seg]
        with == NewSuggestion(d, a)
        Struck(c) == [c EXCEPT !.dels = @ \cup {Newest(with, a)}]
    IN [with EXCEPT !.segments[seg] = [k \in DOMAIN chars |->
          IF i < k /\ k <= j THEN Struck(chars[k]) ELSE chars[k]]]

\* Mutant: the edit is not settled.
Insert_Unsettled(d, seg, i, n, a) ==
    [doc |-> Inserted(d, seg, i, n, a), sid |-> Newest(NewSuggestion(d, a), a)]

Insert(d, seg, i, n, a) ==
    LET with == Inserted(d, seg, i, n, a) IN Settle(with, seg, Newest(with, a))

Delete(d, seg, i, j, a) ==
    LET with == Deleted(d, seg, i, j, a) IN Settle(with, seg, Newest(with, a))

\* The deletion settles before the text is inserted where the selection began.
Replace(d, seg, i, j, n, a) == Insert(Delete(d, seg, i, j, a).doc, seg, i, n, a)

-----------------------------------------------------------------------------
(* Decisions and direct edits. *)

\* Mutants: the sets are swapped; the registry is not collected.
Accept_Swapped(d, s) ==
    GC([d EXCEPT !.registry = Restrict(@, Open(d) \ {s}),
                 !.segments = [seg \in Segments |->
          LET chars == d.segments[seg]
              kept == Kept(chars, {i \in DOMAIN chars : s \notin chars[i].ins})
          IN [i \in DOMAIN kept |-> [kept[i] EXCEPT !.dels = @ \ {s}]]]])
Reject_Uncollected(d, s) ==
    [d EXCEPT !.registry = Restrict(@, Open(d) \ {s}),
              !.segments = [seg \in Segments |->
          LET chars == d.segments[seg]
              kept == Kept(chars, {i \in DOMAIN chars : s \notin chars[i].ins})
          IN [i \in DOMAIN kept |-> [kept[i] EXCEPT !.dels = @ \ {s}]]]]

Accept(d, s) ==
    GC([d EXCEPT !.registry = Restrict(@, Open(d) \ {s}),
                 !.segments = [seg \in Segments |->
          LET chars == d.segments[seg]
              kept == Kept(chars, {i \in DOMAIN chars : s \notin chars[i].dels})
          IN [i \in DOMAIN kept |-> [kept[i] EXCEPT !.ins = @ \ {s}]]]])

Reject(d, s) ==
    GC([d EXCEPT !.registry = Restrict(@, Open(d) \ {s}),
                 !.segments = [seg \in Segments |->
          LET chars == d.segments[seg]
              kept == Kept(chars, {i \in DOMAIN chars : s \notin chars[i].ins})
          IN [i \in DOMAIN kept |-> [kept[i] EXCEPT !.dels = @ \ {s}]]]])

EditInsert(d, seg, i, n) ==
    [d EXCEPT !.segments[seg] = Splice(@, i, [k \in 1..n |->
        [cp |-> <<"plain", 0>>, ins |-> {}, dels |-> {}]])]

\* Mutant: a direct edit leaves suggestions that mark nothing.
EditDelete_Uncollected(d, seg, i, j) ==
    [d EXCEPT !.segments[seg] = SubSeq(@, 1, i) \o SubSeq(@, j + 1, Len(@))]

EditDelete(d, seg, i, j) ==
    GC([d EXCEPT !.segments[seg] = SubSeq(@, 1, i) \o SubSeq(@, j + 1, Len(@))])

Reply(d, s) ==
    [d EXCEPT !.clock = @ + 1, !.registry[s].thread = Append(@, d.clock + 1)]

DeleteReply(d, s, p) ==
    [d EXCEPT !.registry[s].thread = Kept(@, {i \in DOMAIN @ : @[i] # p})]

-----------------------------------------------------------------------------
(* The requests. *)

Cursors(seg) == 0..Len(doc.segments[seg])
RoomFor(n) == Cardinality(Minted(doc)) + n <= MaxSuggestions
Fits(seg, n) == Len(doc.segments[seg]) + n <= MaxLength

SuggestInsert == "insert" \in Kinds /\ RoomFor(1) /\
    \E a \in Authors, seg \in Segments, n \in Lengths : Fits(seg, n) /\
      \E i \in Cursors(seg) : doc' = Insert(doc, seg, i, n, a).doc

SuggestDelete == "delete" \in Kinds /\ RoomFor(1) /\
    \E a \in Authors, seg \in Segments : \E i, j \in Cursors(seg) :
      i < j /\ doc' = Delete(doc, seg, i, j, a).doc

SuggestReplace == "replace" \in Kinds /\ RoomFor(2) /\
    \E a \in Authors, seg \in Segments, n \in Lengths : Fits(seg, n) /\
      \E i, j \in Cursors(seg) : i < j /\ doc' = Replace(doc, seg, i, j, n, a).doc

AcceptSuggestion == "resolve" \in Kinds /\ \E s \in Open(doc) : doc' = Accept(doc, s)
RejectSuggestion == "resolve" \in Kinds /\ \E s \in Open(doc) : doc' = Reject(doc, s)

InsertText == "edit" \in Kinds /\
    \E seg \in Segments, n \in Lengths : Fits(seg, n) /\
      \E i \in Cursors(seg) : doc' = EditInsert(doc, seg, i, n)

DeleteText == "edit" \in Kinds /\
    \E seg \in Segments : \E i, j \in Cursors(seg) :
      i < j /\ doc' = EditDelete(doc, seg, i, j)

Posts(d) == UNION {ToSet(d.registry[s].thread) : s \in Open(d)}

AddReply == "reply" \in Kinds /\ doc.clock < MaxClock /\
    \E s \in Open(doc) : doc' = Reply(doc, s)

RemoveReply == "reply" \in Kinds /\
    \E s \in Open(doc) : \E p \in ToSet(doc.registry[s].thread) :
      doc' = DeleteReply(doc, s, p)

Next == \/ SuggestInsert \/ SuggestDelete \/ SuggestReplace
        \/ AcceptSuggestion \/ RejectSuggestion
        \/ InsertText \/ DeleteText
        \/ AddReply \/ RemoveReply

Spec == Init /\ [][Next]_doc

-----------------------------------------------------------------------------
(* Properties. *)

\* Every mark names an open suggestion, every open suggestion marks a character,
\* and the characters it marks are in one segment (I1, I2, I5): through merges,
\* through decisions that take the last character of another card, and through
\* direct edits of the text.
RegistryMatchesMarks ==
    /\ Marked(doc) = Open(doc)
    /\ \A s \in Open(doc) :
         Cardinality({seg \in Segments : s \in MarkedIn(doc.segments[seg])}) = 1

\* No character carries marks of two cards of one author: touching cards have
\* merged, so the partner of a merge is never chosen by the order of a set.
OneCardPerAuthorAndChar ==
    \A seg \in Segments : \A i \in DOMAIN doc.segments[seg] :
      \A s, t \in Marks(doc.segments[seg][i]) : AuthorOf(s) = AuthorOf(t) => s = t

\* What a document becomes when exactly the suggestions in `accepted' are
\* accepted and all others rejected: original() and final() are its extremes.
Survives(c, accepted) == c.ins \subseteq accepted /\ c.dels \cap accepted = {}
Outcome(d, accepted) ==
    [seg \in Segments |->
       LET chars == d.segments[seg]
           kept == Kept(chars, {i \in DOMAIN chars : Survives(chars[i], accepted)})
       IN [i \in DOMAIN kept |-> kept[i].cp]]

\* Accepting or rejecting one suggestion is deciding that one and nothing else:
\* whatever is decided about the others, then or later, the document ends as if
\* all had been decided at once.  Hence the order of decisions does not matter
\* (L3), and accepting or rejecting everything yields final() and original()
\* (L1, L4, L5), although a decision may collect other cards on the way.
DecisionsAreIndependent ==
    \A s \in Open(doc) : \A accepted \in SUBSET (Open(doc) \ {s}) :
      /\ Outcome(Accept(doc, s), accepted) = Outcome(doc, accepted \cup {s})
      /\ Outcome(Reject(doc, s), accepted) = Outcome(doc, accepted)

\* A suggested edit only proposes: with its card rejected, every decision about
\* the other cards that are left has the outcome it had before the edit, however
\* many cards the edit absorbed and whatever marks its text inherited (L7).
SuggestingOnlyProposes ==
    [][doc'.counters # doc.counters =>
         \A accepted \in SUBSET (Open(doc) \cap Open(doc')) :
           Outcome(doc', accepted) = Outcome(doc, accepted)]_doc

\* What is typed into the middle of a card belongs to it: the characters a card
\* inserts are one block, and so are those it strikes, as long as it absorbed no
\* other card and nobody edits the text directly.
Block(chars, Carries(_)) ==
    \A i, k \in DOMAIN chars : Carries(chars[i]) /\ Carries(chars[k]) =>
      \A j \in i..k : Carries(chars[j])
CardsAreBlocks ==
    \A s \in Open(doc), seg \in Segments :
      (\A merge \in doc.mergeLog : merge[1] # s) =>
        /\ Block(doc.segments[seg], LAMBDA c : s \in c.ins)
        /\ Block(doc.segments[seg], LAMBDA c : s \in c.dels)

\* The posts of a thread are in the order they were made, also after two
\* conversations have merged, and no post is in two threads.
ThreadsAreOrdered ==
    /\ \A s \in Open(doc) : LET thread == doc.registry[s].thread IN
         \A i, j \in DOMAIN thread : i < j => thread[i] < thread[j]
    /\ \A s, t \in Open(doc) : s # t =>
         ToSet(doc.registry[s].thread) \cap ToSet(doc.registry[t].thread) = {}

\* A suggested edit loses no post: the threads of the cards it absorbs migrate, each
\* post to one place in the order of the posts.
PostsSurviveEdits ==
    [][doc'.counters # doc.counters =>
         Posts(doc) \subseteq Posts(doc') /\ ThreadsAreOrdered']_doc

\* The reference definition of the merge: the least set of cards that contains
\* the new one and every card of its author that touches the range it covers.
Covered(chars, cards) ==
    [lo |-> Min({Span(chars, s).lo : s \in cards}),
     hi |-> Max({Span(chars, s).hi : s \in cards})]
Closed(chars, cards, own) ==
    \A t \in own : Gap(Covered(chars, cards), Span(chars, t)) = 0 => t \in cards
MergeClass(d, seg, s) ==
    LET chars == d.segments[seg]
        own == {t \in MarkedIn(chars) : AuthorOf(t) = AuthorOf(s)}
        closed == {cards \in SUBSET own : s \in cards /\ Closed(chars, cards, own)}
    IN {t \in own : \A cards \in closed : t \in cards}

\* The merge loop computes that class, whichever edit comes next: the new id
\* survives, every card of the class is absorbed, and no other.
MergeIsClosure ==
    RoomFor(1) =>
      \A a \in Authors, seg \in Segments : \A i, j \in Cursors(seg) :
        LET with == IF i < j THEN Deleted(doc, seg, i, j, a)
                    ELSE Inserted(doc, seg, i, 1, a)
            s == Newest(with, a)
            r == Settle(with, seg, s)
        IN r.sid = s /\ Open(r.doc) = (Open(with) \ MergeClass(with, seg, s)) \cup {s}

-----------------------------------------------------------------------------

Registry == INSTANCE SuggestionRegistry
              WITH pending <- Open(doc), created <- Minted(doc)

\* The document keeps the promise about ids the ledger of a session relies on.
RegistrySpec == Registry!Spec
=============================================================================
