-------------------------- MODULE MockBatchProofs ---------------------------
(***************************************************************************)
(* What the response of a batch tells, for every document, batch and bound *)
(* of MockBatch.                                                           *)
(*                                                                         *)
(* The argument: whatever a request is, it is Applied (it opens no card it *)
(* does not answer with, all under numbers nobody used), and a sweep is as *)
(* many replacements as there are places (SweepApplied).  Merges lead from *)
(* older to newer cards of one author (Logged), so following an id through *)
(* the merges of the batch ends at a card none of them absorbed, and does  *)
(* not lead back to a card the batch found (HeirOf).  BatchInv keeps what  *)
(* an open batch has been answered with newer than all it found.           *)
(***************************************************************************)
EXTENDS MockBatch, SuggestionDocProofs

-----------------------------------------------------------------------------
(* Requests that open no card. *)

\* A decision merges nothing.
LEMMA DecisionLog ==
  ASSUME NEW d, Typed(d), NEW s
  PROVE  Accept(d, s).mergeLog = d.mergeLog /\ Reject(d, s).mergeLog = d.mergeLog
<1>1. ASSUME NEW now PROVE Without(d, s, now).mergeLog = d.mergeLog
  <2> DEFINE left == Restrict(d.registry, Open(d) \ {s})
             with == [d EXCEPT !.registry = left, !.segments = now]
             cards == Restrict(with.registry, Open(with) \cap Marked(with))
  <2>1. d = [field \in Fields |-> d[field]]
    BY DEF Typed
  <2>2. Without(d, s, now) = [with EXCEPT !.registry = cards]
    BY DEF Without, GC
  <2> HIDE DEF left, cards
  <2> QED
    BY <2>1, <2>2 DEF Fields
<1> DEFINE accepted == [seg \in Segments |->
                          LET kept == Kept(d.segments[seg], Unstruck(d.segments[seg], s))
                          IN [i \in DOMAIN kept |-> [kept[i] EXCEPT !.ins = @ \ {s}]]]
           rejected == [seg \in Segments |->
                          LET kept == Kept(d.segments[seg], Uninserted(d.segments[seg], s))
                          IN [i \in DOMAIN kept |-> [kept[i] EXCEPT !.dels = @ \ {s}]]]
<1>2. Accept(d, s) = Without(d, s, accepted)
  BY DEF Accept, Unstruck, Without
<1>3. Reject(d, s) = Without(d, s, rejected)
  BY DEF Reject, Uninserted, Without
<1> HIDE DEF accepted, rejected
<1> QED
  BY <1>1, <1>2, <1>3

\* Nor does a direct edit.
LEMMA EditLog ==
  ASSUME NEW d, Typed(d), NEW seg \in Segments, NEW i, NEW j, NEW n
  PROVE  /\ EditInsert(d, seg, i, n).mergeLog = d.mergeLog
         /\ EditDelete(d, seg, i, j).mergeLog = d.mergeLog
<1> DEFINE spliced == Splice(d.segments[seg], i, Copies(n, Plain))
           cut == Cut(d.segments[seg], i, j)
<1>1. d = [field \in Fields |-> d[field]]
  BY DEF Typed
<1>2. ASSUME NEW chars, NEW e, e = WithText(d, seg, chars)
      PROVE  /\ e = [field \in Fields |-> e[field]] /\ e.mergeLog = d.mergeLog
  BY <1>1, <1>2 DEF WithText, Fields
<1>3. EditInsert(d, seg, i, n) = WithText(d, seg, spliced)
  BY DEF EditInsert, WithText, Copies, Plain
<1> DEFINE with == WithText(d, seg, cut)
<1>4. EditDelete(d, seg, i, j) = GC(with)
  BY DEF EditDelete, WithText, Cut
<1>5. with = [field \in Fields |-> with[field]] /\ with.mergeLog = d.mergeLog
  BY <1>2
<1>6. WithText(d, seg, spliced).mergeLog = d.mergeLog
  BY <1>2
<1> HIDE DEF spliced, cut, with
<1>7. GC(with).mergeLog = with.mergeLog
  <2> DEFINE cards == Restrict(with.registry, Open(with) \cap Marked(with))
  <2>1. GC(with) = [with EXCEPT !.registry = cards]
    BY DEF GC
  <2> HIDE DEF cards
  <2> QED
    BY <1>5, <2>1 DEF Fields
<1> QED
  BY <1>3, <1>4, <1>5, <1>6, <1>7

\* Nor does a reply.
LEMMA ReplyLog ==
  ASSUME NEW d, Typed(d), NEW s \in Open(d)
  PROVE  Reply(d, s).mergeLog = d.mergeLog
<1> DEFINE now == d.clock + 1
           cards == [d.registry EXCEPT ![s].thread = Append(d.registry[s].thread, now)]
<1>1. d = [field \in Fields |-> d[field]]
  BY DEF Typed
<1>2. Reply(d, s) = [d EXCEPT !.clock = now, !.registry = cards]
  BY <1>1 DEF Reply, Fields
<1> HIDE DEF now, cards
<1> QED
  BY <1>1, <1>2 DEF Fields

-----------------------------------------------------------------------------
(* What a request does. *)

\* Merges absorb older cards into newer ones of the same author, for good.
Logged(d) ==
    \A m \in d.mergeLog :
      /\ m \in Minted(d) \X Minted(d) /\ m[2] \notin Open(d)
      /\ AuthorOf(m[1]) = AuthorOf(m[2]) /\ m[2][2] < m[1][2]

\* A request of author a leads from d to e, and is answered with `created'.
Applied(d, e, created, a) ==
    /\ DocInv(e) /\ Logged(e)
    /\ d.mergeLog \subseteq e.mergeLog /\ Minted(d) \subseteq Minted(e)
    /\ Open(e) \subseteq Open(d) \cup created
    /\ created \subseteq Minted(e) \ Minted(d)
    /\ \A s \in created : AuthorOf(s) = a

\* No segment got shorter.
Grown(d, e) == \A g \in Segments : Len(e.segments[g]) >= Len(d.segments[g])

\* Growing twice.
LEMMA GrownTwice ==
  ASSUME NEW d, Typed(d), NEW e, Typed(e), NEW h, Typed(h), Grown(d, e), Grown(e, h)
  PROVE  Grown(d, h)
<1> SUFFICES ASSUME NEW g \in Segments PROVE Len(h.segments[g]) >= Len(d.segments[g])
  BY DEF Grown
<1>1. Len(d.segments[g]) \in Nat /\ Len(e.segments[g]) \in Nat
      /\ Len(h.segments[g]) \in Nat
  BY DEF Typed
<1>2. Len(h.segments[g]) >= Len(e.segments[g])
      /\ Len(e.segments[g]) >= Len(d.segments[g])
  BY DEF Grown
<1> QED
  BY <1>1, <1>2

\* A request that opens no card.
LEMMA QuietlyApplied ==
  ASSUME NEW d, Logged(d), NEW e, DocInv(e), e.counters = d.counters,
         e.mergeLog = d.mergeLog, Open(e) \subseteq Open(d), NEW a
  PROVE  Applied(d, e, {}, a)
<1>1. Minted(e) = Minted(d)
  BY DEF Minted
<1>2. Logged(e)
  BY <1>1 DEF Logged
<1> QED
  BY <1>1, <1>2 DEF Applied

\* One request after the other.
LEMMA AppliedTwice ==
  ASSUME NEW d, NEW e, NEW h, NEW a, NEW first, NEW second,
         Applied(d, e, first, a), Applied(e, h, second, a)
  PROVE  Applied(d, h, first \cup second, a)
  BY DEF Applied

\* The older of two cards of one author has the smaller number.
LEMMA OlderIsSmaller ==
  ASSUME NEW d, Typed(d), NEW s \in Ids \ Minted(d), NEW t \in Minted(d),
         AuthorOf(s) = AuthorOf(t)
  PROVE  t[2] \in Nat /\ s[2] \in Nat /\ t[2] < s[2]
<1>1. AuthorOf(s) \in Authors /\ s[2] \in Nat /\ t[2] \in Nat
  BY DocAssumption DEF Ids, AuthorOf, Minted
<1>2. d.counters[AuthorOf(s)] \in Nat
  BY <1>1, DocAssumption DEF Typed
<1>3. t[2] <= d.counters[AuthorOf(s)] /\ ~(s[2] <= d.counters[AuthorOf(s)])
  BY DEF Minted
<1> QED
  BY <1>1, <1>2, <1>3

\* A suggested edit, which is answered with its card if that is left.
LEMMA SuggestionApplied ==
  ASSUME NEW d, DocInv(d), Logged(d), NEW a \in Authors, NEW s, NEW e,
         Suggested(d, e, a, s)
  PROVE  /\ Applied(d, e, {s} \cap Open(e), a)
         /\ e.counters[a] = d.counters[a] + 1
<1>1. /\ DocInv(e) /\ s \in Minted(e) \ Minted(d) /\ Minted(d) \subseteq Minted(e)
      /\ Open(e) \subseteq Open(d) \cup {s} /\ Merged(d, e, s) /\ AuthorOf(s) = a
  BY DEF Suggested, AuthorOf
<1>2. Typed(d) /\ Open(d) \subseteq Minted(d) /\ s \in Ids
  BY <1>1 DEF DocInv, Minted
<1>3. ASSUME NEW m \in e.mergeLog
      PROVE  /\ m \in Minted(e) \X Minted(e) /\ m[2] \notin Open(e)
             /\ AuthorOf(m[1]) = AuthorOf(m[2]) /\ m[2][2] < m[1][2]
  <2>1. CASE m \in d.mergeLog
    <3>1. /\ m \in Minted(d) \X Minted(d) /\ m[2] \notin Open(d)
          /\ AuthorOf(m[1]) = AuthorOf(m[2]) /\ m[2][2] < m[1][2]
      BY <2>1 DEF Logged
    <3> QED
      BY <1>1, <3>1
  <2>2. CASE m \notin d.mergeLog
    <3>1. PICK t \in Open(d) \ Open(e) :
            m = <<s, t>> /\ t # s /\ AuthorOf(t) = AuthorOf(s)
      BY <1>1, <2>2 DEF Merged
    <3>2. t \in Minted(d) /\ t[2] < s[2]
      BY <1>1, <1>2, <3>1, OlderIsSmaller
    <3> QED
      BY <1>1, <3>1, <3>2
  <2> QED
    BY <2>1, <2>2
<1>4. Logged(e)
  BY <1>3 DEF Logged
<1>5. e.counters[a] = d.counters[a] + 1
  BY <1>2 DEF Suggested, Typed
<1>6. d.mergeLog \subseteq e.mergeLog
  BY <1>1 DEF Merged
<1> QED
  BY <1>1, <1>4, <1>5, <1>6 DEF Applied

\* A replacement is answered with the card of its insertion: the deletion touches the
\* inserted text, so its card is absorbed, and no other card is opened.
LEMMA ReplacementApplied ==
  ASSUME NEW d, DocInv(d), Logged(d), NEW a \in Authors, NEW seg \in Segments,
         NEW i \in Nat, i < Len(d.segments[seg]), NEW n \in Nat \ {0},
         d.counters[a] + 2 <= MaxSuggestions,
         NEW r, r = Replace(d, seg, i, i + 1, n, a)
  PROVE  /\ Applied(d, r.doc, ReportedBy(r), a)
         /\ r.doc.counters[a] = d.counters[a] + 2
         /\ Grown(d, r.doc)
<1> DEFINE s == Newest(NewSuggestion(d, a), a)
           cut == Delete(d, seg, i, i + 1, a)
           e == cut.doc
           t == Newest(NewSuggestion(e, a), a)
           h == r.doc
<1>1. Typed(d) /\ d.counters[a] \in Nat /\ MaxSuggestions \in Nat
      /\ Len(d.segments[seg]) \in Nat /\ i + 1 \in DOMAIN d.segments[seg]
  <2>1. Typed(d) /\ d.segments[seg] \in Seq(Chars)
    BY DEF DocInv, Typed
  <2>2. Len(d.segments[seg]) \in Nat /\ DOMAIN d.segments[seg] = 1..Len(d.segments[seg])
    BY <2>1, CharsOf
  <2>3. d.counters[a] \in Nat /\ MaxSuggestions \in Nat
    BY <2>1, DocAssumption DEF Typed
  <2>4. i + 1 \in DOMAIN d.segments[seg]
    BY <2>2
  <2> QED
    BY <2>1, <2>2, <2>3, <2>4
<1>2. /\ Suggested(d, e, a, s) /\ s \in Marks(e.segments[seg][i + 1])
      /\ \A g \in Segments : Len(e.segments[g]) = Len(d.segments[g])
  <2>1. d.counters[a] < MaxSuggestions
    BY <1>1
  <2>2. /\ Suggested(d, e, a, s)
        /\ \A g \in Segments : Len(e.segments[g]) = Len(d.segments[g])
        /\ \A k \in DOMAIN d.segments[seg] : i < k /\ k <= i + 1 =>
             s \in Marks(e.segments[seg][k])
    BY <2>1, DeleteProposes
  <2>3. i < i + 1 /\ i + 1 <= i + 1
    OBVIOUS
  <2> QED
    BY <1>1, <2>2, <2>3
<1> HIDE DEF e, s
<1>3. DocInv(e) /\ Logged(e) /\ Applied(d, e, {s} \cap Open(e), a)
      /\ e.counters[a] = d.counters[a] + 1 /\ AuthorOf(s) = a
  <2>1. Applied(d, e, {s} \cap Open(e), a) /\ e.counters[a] = d.counters[a] + 1
    BY <1>2, SuggestionApplied
  <2>2. AuthorOf(s) = a
    BY <1>2 DEF Suggested, AuthorOf
  <2> QED
    BY <2>1, <2>2 DEF Applied
<1>4. r = Insert(e, seg, i, n, a)
  BY DEF Replace, e
<1>5. /\ r.sid = t /\ Suggested(e, h, a, t)
      /\ \A g \in Segments : Len(h.segments[g]) >= Len(e.segments[g])
      /\ \A x \in Marks(e.segments[seg][i + 1]) \cap Open(h) : AuthorOf(x) # a
  <2>1. e.counters[a] < MaxSuggestions /\ n # 0 /\ i \in 0..Len(e.segments[seg])
        /\ i < Len(e.segments[seg])
    <3> DEFINE size == Len(d.segments[seg])
    <3>1. Len(e.segments[seg]) = size /\ size \in Nat /\ i < size
      BY <1>1, <1>2
    <3>2. d.counters[a] \in Nat /\ MaxSuggestions \in Nat
          /\ e.counters[a] = d.counters[a] + 1
      BY <1>1, <1>3
    <3> HIDE DEF size
    <3>3. e.counters[a] < MaxSuggestions
      BY <3>2
    <3>4. n # 0 /\ i \in 0..size
      BY <3>1
    <3> QED
      BY <3>1, <3>3, <3>4
  <2> HIDE DEF h
  <2>2. t = Newest(NewSuggestion(e, a), a)
    OBVIOUS
  <2> HIDE DEF t
  <2>3. /\ r.sid = t /\ Suggested(e, r.doc, a, t)
        /\ \A g \in Segments : Len(r.doc.segments[g]) >= Len(e.segments[g])
        /\ n # 0 /\ i < Len(e.segments[seg]) =>
             \A x \in Marks(e.segments[seg][i + 1]) \cap Open(r.doc) : AuthorOf(x) # a
    BY <1>3, <1>4, <2>1, <2>2, InsertProposes
  <2> QED
    BY <2>1, <2>3 DEF h
<1> HIDE DEF t, h
<1>6. Applied(e, h, {t} \cap Open(h), a) /\ h.counters[a] = e.counters[a] + 1
  BY <1>3, <1>5, SuggestionApplied
<1>7. s \notin Open(h)
  BY <1>2, <1>3, <1>5
<1>8. Applied(d, h, {t} \cap Open(h), a)
  <2>1. Applied(d, h, ({s} \cap Open(e)) \cup ({t} \cap Open(h)), a)
    BY <1>3, <1>6, AppliedTwice
  <2>2. Open(h) \subseteq Open(d) \cup ({t} \cap Open(h))
    BY <1>7, <2>1 DEF Applied
  <2> QED
    BY <2>1, <2>2 DEF Applied
<1>9. ReportedBy(r) = {t} \cap Open(h)
  BY <1>5 DEF ReportedBy, h
<1>10. h.counters[a] = d.counters[a] + 2
  BY <1>1, <1>3, <1>6
<1>11. Grown(d, h)
  BY <1>2, <1>5 DEF Grown
<1> QED
  BY <1>8, <1>9, <1>10, <1>11 DEF h

-----------------------------------------------------------------------------
(* Sweeping the document. *)

\* Every segment has its turn.
LEMMA SegmentsInOrder ==
  /\ DOMAIN SegmentOrder \subseteq Nat
  /\ \A seg \in Segments : \E k \in DOMAIN SegmentOrder : SegmentOrder[k] = seg
<1> DEFINE n == Cardinality(Segments)
<1>1. IsFiniteSet(Segments) /\ n \in Nat /\ ExistsBijection(1..n, Segments)
  BY BatchAssumption, FS_CardinalityType
<1>2. PICK g \in Bijection(1..n, Segments) : TRUE
  BY <1>1 DEF ExistsBijection
<1>3. g \in [1..n -> Segments] /\ IsInjective(g)
  BY <1>2 DEF Bijection, Injection, IsInjective
<1>4. SegmentOrder \in [1..n -> Segments] /\ IsInjective(SegmentOrder)
  BY <1>3 DEF SegmentOrder, SetToSeq
<1>5. SegmentOrder \in Injection(1..n, Segments)
  BY <1>4 DEF Injection, IsInjective
<1>6. Cardinality(1..n) = n
  BY <1>1, CountInterval
<1> HIDE DEF n
<1>7. SegmentOrder \in Surjection(1..n, Segments)
  BY <1>1, <1>5, <1>6, FS_Injection DEF n
<1> QED
  BY <1>1, <1>4, <1>7 DEF Surjection

\* The places are in the text of d.
Within(hits, d) ==
    \A hit \in hits : /\ hit = <<hit[1], hit[2]>> /\ hit[1] \in Segments
                      /\ hit[2] \in Nat /\ hit[2] < Len(d.segments[hit[1]])

\* There are finitely many places.
LEMMA PlacesCount ==
  ASSUME NEW d, Typed(d), NEW hits, Within(hits, d)
  PROVE  IsFiniteSet(hits) /\ Cardinality(hits) \in Nat
<1> DEFINE of == [seg \in Segments |-> {seg} \X (0..Len(d.segments[seg]))]
           all == {of[seg] : seg \in Segments}
<1>1. of \in Surjection(Segments, all)
  BY DEF Surjection
<1>2. IsFiniteSet(all)
  BY <1>1, BatchAssumption, FS_Surjection
<1>3. ASSUME NEW seg \in Segments PROVE IsFiniteSet(of[seg])
  <2>1. Len(d.segments[seg]) \in Nat
    BY DEF Typed
  <2>2. IsFiniteSet(0..Len(d.segments[seg])) /\ IsFiniteSet({seg})
    <3>1. 0 \in Int /\ Len(d.segments[seg]) \in Int
      BY <2>1
    <3>2. IsFiniteSet(0..Len(d.segments[seg]))
      BY <3>1, FS_Interval
    <3> QED
      BY <3>2, FS_Singleton
  <2> QED
    BY <2>2, FS_Product
<1>4. IsFiniteSet(UNION all)
  BY <1>2, <1>3, FS_UNION
<1>5. hits \subseteq UNION all
  <2> SUFFICES ASSUME NEW hit \in hits
               PROVE  \E seg \in Segments : hit \in of[seg]
    OBVIOUS
  <2>1. /\ hit = <<hit[1], hit[2]>> /\ hit[1] \in Segments
        /\ hit[2] \in Nat /\ hit[2] < Len(d.segments[hit[1]])
    BY DEF Within
  <2>2. Len(d.segments[hit[1]]) \in Nat
    BY <2>1 DEF Typed
  <2>3. hit[2] \in 0..Len(d.segments[hit[1]])
    BY <2>1, <2>2
  <2> QED
    BY <2>1, <2>3
<1> HIDE DEF all
<1> QED
  BY <1>4, <1>5, Counts

\* As long as a place is left, there is a next one.
LEMMA NextHitIsOne ==
  ASSUME NEW d, Typed(d), NEW hits, Within(hits, d), hits # {}
  PROVE  NextHit(hits) \in hits
<1> DEFINE K == {k \in DOMAIN SegmentOrder : \E hit \in hits : hit[1] = SegmentOrder[k]}
           seg == SegmentOrder[Min(K)]
           I == {hit[2] : hit \in {h \in hits : h[1] = seg}}
<1>1. K \subseteq Nat /\ K # {}
  BY SegmentsInOrder DEF Within
<1>2. \E k \in K : \A j \in K : k <= j
  <2> HIDE DEF K
  <2> QED
    BY <1>1, LeastNumber
<1>3. Min(K) \in K
  <2> HIDE DEF K
  <2> QED
    BY <1>2 DEF Min
<1> HIDE DEF K
<1>4. PICK hit \in hits : hit[1] = seg
  BY <1>3 DEF K
<1>5. seg \in Segments /\ Len(d.segments[seg]) \in Nat
  BY <1>4 DEF Within, Typed
<1>6. I \subseteq 0..Len(d.segments[seg]) /\ I # {}
  BY <1>4, <1>5 DEF Within
<1>7. \E i \in I : \A j \in I : i >= j
  <2> HIDE DEF I, seg
  <2> QED
    BY <1>5, <1>6, GreatestNumber
<1>8. Max(I) \in I
  <2> HIDE DEF I
  <2> QED
    BY <1>7 DEF Max
<1>9. NextHit(hits) = <<seg, Max(I)>>
  BY DEF NextHit, K
<1> HIDE DEF seg
<1>10. PICK h \in hits : h[1] = seg /\ h[2] = Max(I)
  BY <1>8
<1>11. h = <<seg, Max(I)>>
  BY <1>10 DEF Within
<1> QED
  BY <1>9, <1>11

\* Where the sweep of `hits' may be after k of them.
SweptTo(r, d, hits, k, a, suggest) ==
    /\ r = [doc |-> r.doc, hits |-> r.hits, created |-> r.created]
    /\ Applied(d, r.doc, r.created, a)
    /\ r.hits \subseteq hits /\ Cardinality(r.hits) + k = Cardinality(hits)
    /\ IF suggest THEN r.doc.counters[a] = d.counters[a] + 2 * k
       ELSE r.doc.counters = d.counters
    /\ Grown(d, r.doc)

\* What is left of the places is in the text, which only grows.
LEMMA StillWithin ==
  ASSUME NEW d, Typed(d), NEW e, Typed(e), NEW hits, Within(hits, d),
         NEW left, left \subseteq hits, Grown(d, e)
  PROVE  Within(left, e)
<1> SUFFICES ASSUME NEW hit \in left
             PROVE  /\ hit = <<hit[1], hit[2]>> /\ hit[1] \in Segments
                    /\ hit[2] \in Nat /\ hit[2] < Len(e.segments[hit[1]])
  BY DEF Within
<1>1. /\ hit = <<hit[1], hit[2]>> /\ hit[1] \in Segments
      /\ hit[2] \in Nat /\ hit[2] < Len(d.segments[hit[1]])
  BY DEF Within
<1>2. Len(d.segments[hit[1]]) \in Nat /\ Len(e.segments[hit[1]]) \in Nat
      /\ Len(e.segments[hit[1]]) >= Len(d.segments[hit[1]])
  BY <1>1 DEF Typed, Grown
<1> QED
  BY <1>1, <1>2

\* A direct replacement opens no card and leaves no text shorter.
LEMMA DirectlyReplaced ==
  ASSUME NEW d, DocInv(d), Logged(d), NEW seg \in Segments,
         NEW i \in Nat, i < Len(d.segments[seg]), NEW n \in Nat \ {0}, NEW a,
         NEW cut, cut = EditDelete(d, seg, i, i + 1),
         NEW e, e = EditInsert(cut, seg, i, n)
  PROVE  /\ Applied(d, e, {}, a) /\ e.counters = d.counters
         /\ Grown(d, e)
<1>1. Typed(d) /\ Len(d.segments[seg]) \in Nat /\ d.segments[seg] \in Seq(Chars)
  <2>1. Typed(d)
    BY DEF DocInv
  <2>2. d.segments[seg] \in Seq(Chars)
    BY <2>1 DEF Typed
  <2> QED
    BY <2>1, <2>2, LenProperties
<1> DEFINE j == i + 1
<1>2. i \in 0..Len(d.segments[seg]) /\ j \in 0..Len(d.segments[seg])
  BY <1>1
<1>3. /\ DocInv(cut) /\ cut.counters = d.counters /\ Open(cut) \subseteq Open(d)
      /\ cut.segments[seg] = Cut(d.segments[seg], i, j)
      /\ \A g \in Segments \ {seg} : cut.segments[g] = d.segments[g]
  <2>1. cut = EditDelete(d, seg, i, j)
    OBVIOUS
  <2> HIDE DEF j
  <2> QED
    BY <1>2, <2>1, EditDeleteInv
<1>4. cut.mergeLog = d.mergeLog
  BY <1>1, EditLog
<1>5. Typed(cut) /\ Len(cut.segments[seg]) = Len(d.segments[seg]) - 1
      /\ i \in 0..Len(cut.segments[seg])
  <2> DEFINE size == Len(d.segments[seg])
             now == Len(cut.segments[seg])
  <2>1. now = i + (size - j) /\ Typed(cut)
    <3> DEFINE chars == d.segments[seg]
               what == cut.segments[seg]
    <3>1. chars \in Seq(Chars) /\ i \in 0..Len(chars) /\ j \in 0..Len(chars)
          /\ what = Cut(chars, i, j)
      BY <1>1, <1>2, <1>3
    <3> HIDE DEF chars, what, j
    <3>2. Len(what) = i + (Len(chars) - j)
      BY <3>1, CutChars
    <3> QED
      BY <1>3, <3>2 DEF DocInv, chars, what
  <2>2. now = i + (size - (i + 1)) /\ size \in Nat /\ i < size
    BY <1>1, <2>1
  <2> HIDE DEF size, now
  <2>3. now = size - 1 /\ i \in 0..now
    BY <2>2
  <2> QED
    BY <2>1, <2>3 DEF size, now
<1>6. /\ DocInv(e) /\ e.counters = cut.counters /\ Open(e) = Open(cut)
      /\ Len(e.segments[seg]) = Len(cut.segments[seg]) + n
      /\ \A g \in Segments \ {seg} : e.segments[g] = cut.segments[g]
  BY <1>3, <1>5, EditInsertInv
<1>7. e.mergeLog = cut.mergeLog
  BY <1>5, EditLog
<1>8. Applied(d, e, {}, a)
  BY <1>3, <1>4, <1>6, <1>7, QuietlyApplied
<1>9. Grown(d, e)
  <2> SUFFICES ASSUME NEW g \in Segments
               PROVE  Len(e.segments[g]) >= Len(d.segments[g])
    BY DEF Grown
  <2>1. CASE g = seg
    <3>1. Len(e.segments[seg]) = (Len(d.segments[seg]) - 1) + n
      BY <1>5, <1>6
    <3> QED
      BY <1>1, <2>1, <3>1
  <2>2. CASE g # seg
    <3>1. e.segments[g] = d.segments[g]
      BY <1>3, <1>6, <2>2
    <3>2. d.segments[g] \in Seq(Chars)
      BY <1>1 DEF Typed
    <3>3. Len(d.segments[g]) \in Nat
      BY <3>2, LenProperties
    <3> QED
      BY <3>1, <3>3
  <2> QED
    BY <2>1, <2>2
<1> QED
  BY <1>3, <1>6, <1>8, <1>9

\* One place after the other.
LEMMA SweepOne ==
  ASSUME NEW d, DocInv(d), NEW hits, Within(hits, d), NEW k \in Nat,
         k < Cardinality(hits), NEW n \in Nat \ {0}, NEW a \in Authors,
         NEW suggest \in BOOLEAN,
         suggest => d.counters[a] + 2 * Cardinality(hits) <= MaxSuggestions,
         NEW r, SweptTo(r, d, hits, k, a, suggest)
  PROVE  SweptTo(ReplaceHit(r, n, a, suggest), d, hits, k + 1, a, suggest)
<1> DEFINE e == r.doc
           hit == NextHit(r.hits)
           seg == hit[1]
           i == hit[2]
           left == r.hits \ {hit}
           new == ReplaceHit(r, n, a, suggest)
<1>1. /\ DocInv(e) /\ Logged(e) /\ Applied(d, e, r.created, a)
      /\ Typed(d) /\ Typed(e)
      /\ Grown(d, e)
  BY DEF SweptTo, Applied, DocInv
<1>2. Within(r.hits, e)
  <2> HIDE DEF e
  <2>1. r.hits \subseteq hits
    BY DEF SweptTo
  <2> QED
    BY <1>1, <2>1, StillWithin
<1>3. IsFiniteSet(r.hits) /\ Cardinality(r.hits) \in Nat /\ Cardinality(hits) \in Nat
  BY <1>1, <1>2, PlacesCount
<1>4. Cardinality(r.hits) # 0 /\ Cardinality(r.hits) + k = Cardinality(hits)
  BY <1>3 DEF SweptTo
<1>5. hit \in r.hits
  <2>1. r.hits # {}
    BY <1>4, FS_EmptySet
  <2> QED
    BY <1>1, <1>2, <2>1, NextHitIsOne
<1> HIDE DEF hit
<1>6. seg \in Segments /\ i \in Nat /\ i < Len(e.segments[seg])
  BY <1>2, <1>5 DEF Within
<1>7. left \subseteq hits /\ Cardinality(left) + (k + 1) = Cardinality(hits)
  <2>1. IsFiniteSet(left) /\ Cardinality(left) = Cardinality(r.hits) - 1
    BY <1>3, <1>5, FS_RemoveElement
  <2>2. r.hits \subseteq hits
    BY DEF SweptTo
  <2> HIDE DEF left
  <2>3. Cardinality(left) + (k + 1) = Cardinality(hits)
    BY <1>3, <1>4, <2>1
  <2> QED
    BY <2>2, <2>3 DEF left
<1> HIDE DEF left, e
<1>8. CASE suggest
  <2> DEFINE s == Replace(e, seg, i, i + 1, n, a)
             h == s.doc
             created == r.created \cup ReportedBy(s)
  <2>1. new = [doc |-> h, hits |-> left, created |-> created]
    BY <1>8 DEF ReplaceHit, e, hit, left
  <2>2. e.counters[a] = d.counters[a] + 2 * k /\ d.counters[a] \in Nat
        /\ e.counters[a] + 2 <= MaxSuggestions /\ MaxSuggestions \in Nat
    <3>1. e.counters[a] = d.counters[a] + 2 * k
      BY <1>8 DEF SweptTo, e
    <3>2. d.counters[a] \in Nat /\ MaxSuggestions \in Nat
      BY <1>1, DocAssumption DEF Typed
    <3>3. d.counters[a] + 2 * Cardinality(hits) <= MaxSuggestions
      BY <1>8
    <3> QED
      BY <1>3, <3>1, <3>2, <3>3
  <2>3. s = Replace(e, seg, i, i + 1, n, a)
    OBVIOUS
  <2> HIDE DEF s, seg, i
  <2>4. /\ Applied(e, s.doc, ReportedBy(s), a)
        /\ s.doc.counters[a] = e.counters[a] + 2
        /\ Grown(e, s.doc)
    BY <1>1, <1>6, <2>2, <2>3, ReplacementApplied
  <2> HIDE DEF h
  <2>5. Applied(d, h, created, a)
    BY <1>1, <2>4, AppliedTwice DEF h
  <2>6. h.counters[a] = d.counters[a] + 2 * (k + 1)
    BY <2>2, <2>4 DEF h
  <2>7. Grown(d, h)
    <3>1. Typed(h)
      BY <2>5 DEF Applied, DocInv
    <3> QED
      BY <1>1, <2>4, <3>1, GrownTwice DEF h
  <2> HIDE DEF created, new
  <2>8. new.doc = h /\ new.hits = left /\ new.created = created
        /\ new = [doc |-> new.doc, hits |-> new.hits, created |-> new.created]
    BY <2>1
  <2>9. SweptTo(new, d, hits, k + 1, a, suggest)
    BY <1>7, <1>8, <2>5, <2>6, <2>7, <2>8 DEF SweptTo
  <2> QED
    BY <2>9 DEF new
<1>9. CASE ~suggest
  <2> DEFINE cut == EditDelete(e, seg, i, i + 1)
             h == EditInsert(cut, seg, i, n)
  <2>1. new = [doc |-> h, hits |-> left, created |-> r.created]
    BY <1>9 DEF ReplaceHit, e, hit, left
  <2>2. /\ Applied(e, h, {}, a) /\ h.counters = e.counters
        /\ Grown(e, h)
    <3>1. cut = EditDelete(e, seg, i, i + 1)
      OBVIOUS
    <3> HIDE DEF cut, seg, i
    <3> QED
      BY <1>1, <1>6, <3>1, DirectlyReplaced
  <2> HIDE DEF h
  <2>3. Applied(d, h, r.created, a)
    <3>1. Applied(d, h, r.created \cup {}, a)
      BY <1>1, <2>2, AppliedTwice
    <3> QED
      BY <3>1
  <2>4. h.counters = d.counters
    BY <1>9, <2>2 DEF SweptTo, e
  <2>5. Grown(d, h)
    <3>1. Typed(h)
      BY <2>3 DEF Applied, DocInv
    <3> QED
      BY <1>1, <2>2, <3>1, GrownTwice
  <2> HIDE DEF new
  <2>6. new.doc = h /\ new.hits = left /\ new.created = r.created
        /\ new = [doc |-> new.doc, hits |-> new.hits, created |-> new.created]
    BY <2>1
  <2>7. SweptTo(new, d, hits, k + 1, a, suggest)
    BY <1>7, <1>9, <2>3, <2>4, <2>5, <2>6 DEF SweptTo
  <2> QED
    BY <2>7 DEF new
<1> QED
  BY <1>8, <1>9

\* f lists the replacements, from none to the m-th.
Sweeps(f, d, hits, n, a, suggest, m) ==
    f = [k \in 0..m |-> IF k = 0 THEN [doc |-> d, hits |-> hits, created |-> {}]
                        ELSE ReplaceHit(f[k - 1], n, a, suggest)]

\* The sweep goes as far as asked for.
LEMMA SweepsExist ==
  ASSUME NEW d, NEW hits, NEW n, NEW a, NEW suggest, NEW m \in Nat
  PROVE  \E f : Sweeps(f, d, hits, n, a, suggest, m)
<1> DEFINE start == [doc |-> d, hits |-> hits, created |-> {}]
           Some(l) == \E f : Sweeps(f, d, hits, n, a, suggest, l)
           Bad == {l \in Nat : ~Some(l)}
<1>1. SUFFICES ASSUME Bad # {} PROVE FALSE
  OBVIOUS
<1>2. PICK l \in Bad : \A k \in Bad : l <= k
  <2>1. Bad \subseteq Nat
    OBVIOUS
  <2> HIDE DEF Bad
  <2> QED
    BY <1>1, <2>1, LeastNumber
<1>3. l \in Nat /\ ~Some(l)
  OBVIOUS
<1>4. l # 0
  <2> DEFINE f == [k \in 0..0 |-> start]
  <2>1. Sweeps(f, d, hits, n, a, suggest, 0)
    <3>1. \A k \in 0..0 : k = 0
      OBVIOUS
    <3> QED
      BY <3>1 DEF Sweeps
  <2> QED
    BY <1>3, <2>1
<1>5. l - 1 \in Nat /\ l - 1 \notin Bad
  BY <1>2, <1>3, <1>4
<1>6. PICK f : Sweeps(f, d, hits, n, a, suggest, l - 1)
  BY <1>5
<1> DEFINE g == [k \in 0..l |-> IF k = l THEN ReplaceHit(f[l - 1], n, a, suggest)
                                ELSE f[k]]
<1>7. \A k \in 0..l : g[k] = IF k = 0 THEN start ELSE ReplaceHit(g[k - 1], n, a, suggest)
  <2> SUFFICES ASSUME NEW k \in 0..l
               PROVE  g[k] = IF k = 0 THEN start
                             ELSE ReplaceHit(g[k - 1], n, a, suggest)
    OBVIOUS
  <2>0. \A j \in 0..(l - 1) : f[j] = IF j = 0 THEN start
                                    ELSE ReplaceHit(f[j - 1], n, a, suggest)
    BY <1>6 DEF Sweeps
  <2>1. CASE k = l
    <3>1. k # 0 /\ k - 1 \in 0..l /\ k - 1 # l
      BY <1>3, <1>4, <2>1
    <3> QED
      BY <2>1, <3>1
  <2>2. CASE k # l
    <3>1. k \in 0..(l - 1) /\ (k # 0 => k - 1 \in 0..l /\ k - 1 # l)
      BY <1>3, <1>4, <2>2
    <3> QED
      BY <2>0, <2>2, <3>1
  <2> QED
    BY <2>1, <2>2
<1>8. Sweeps(g, d, hits, n, a, suggest, l)
  <2>1. g = [k \in 0..l |-> g[k]]
    OBVIOUS
  <2> HIDE DEF g
  <2> QED
    BY <1>7, <2>1 DEF Sweeps
<1> QED
  BY <1>3, <1>8

\* A sweep opens no card it does not answer for, in whatever order it meets the
\* places and however many of its cards merge.
LEMMA SweepApplied ==
  ASSUME NEW d, DocInv(d), Logged(d), NEW hits, Within(hits, d),
         NEW n \in Nat \ {0}, NEW a \in Authors, NEW suggest \in BOOLEAN,
         suggest => d.counters[a] + 2 * Cardinality(hits) <= MaxSuggestions,
         NEW r, r = ReplaceHits(d, hits, n, a, suggest)
  PROVE  Applied(d, r.doc, r.created, a)
<1> DEFINE m == Cardinality(hits)
           f == CHOOSE f : Sweeps(f, d, hits, n, a, suggest, m)
<1>1. Typed(d) /\ m \in Nat
  <2>1. Typed(d)
    BY DEF DocInv
  <2> QED
    BY <2>1, PlacesCount
<1>2. r = f[m]
  BY DEF ReplaceHits, Sweeps
<1>3. Sweeps(f, d, hits, n, a, suggest, m)
  <2>1. \E h : Sweeps(h, d, hits, n, a, suggest, m)
    BY <1>1, SweepsExist
  <2> QED
    BY <2>1
<1> HIDE DEF f, m
<1>4. /\ f[0] = [doc |-> d, hits |-> hits, created |-> {}]
      /\ \A k \in 0..m : k # 0 => f[k] = ReplaceHit(f[k - 1], n, a, suggest)
  <2> DEFINE start == [doc |-> d, hits |-> hits, created |-> {}]
             Step(k) == ReplaceHit(f[k - 1], n, a, suggest)
  <2>1. f = [k \in 0..m |-> IF k = 0 THEN start ELSE Step(k)]
    BY <1>3 DEF Sweeps
  <2>2. 0 \in 0..m
    BY <1>1
  <2> HIDE DEF start, Step
  <2>3. f[0] = start /\ \A k \in 0..m : k # 0 => f[k] = Step(k)
    BY <2>1, <2>2
  <2> QED
    BY <2>3 DEF start, Step
<1>5. SweptTo(f[0], d, hits, 0, a, suggest)
  <2>1. f[0].doc = d /\ f[0].hits = hits /\ f[0].created = {}
        /\ f[0] = [doc |-> f[0].doc, hits |-> f[0].hits, created |-> f[0].created]
    BY <1>4
  <2>2. Applied(d, d, {}, a)
    BY QuietlyApplied
  <2>3. Cardinality(hits) + 0 = Cardinality(hits)
    BY <1>1 DEF m
  <2>4. d.counters[a] = d.counters[a] + 2 * 0
    <3>1. d.counters[a] \in Nat
      BY <1>1, DocAssumption DEF Typed
    <3> QED
      BY <3>1
  <2>5. Grown(d, d)
    <3>1. \A g \in Segments : Len(d.segments[g]) \in Nat
      BY <1>1 DEF Typed
    <3> QED
      BY <3>1 DEF Grown
  <2> QED
    BY <2>1, <2>2, <2>3, <2>4, <2>5 DEF SweptTo
<1> DEFINE Bad == {k \in 0..m : ~SweptTo(f[k], d, hits, k, a, suggest)}
<1>6. Bad = {}
  <2>1. SUFFICES ASSUME Bad # {} PROVE FALSE
    OBVIOUS
  <2>2. PICK k \in Bad : \A j \in Bad : k <= j
    <3>1. Bad \subseteq Nat
      BY <1>1
    <3> HIDE DEF Bad
    <3> QED
      BY <2>1, <3>1, LeastNumber
  <2>3. k \in 0..m /\ ~SweptTo(f[k], d, hits, k, a, suggest)
    OBVIOUS
  <2>4. k # 0
    BY <1>5, <2>3
  <2>5. k - 1 \in Nat /\ k - 1 \in 0..m /\ k - 1 \notin Bad /\ (k - 1) + 1 = k
        /\ k - 1 < m
    BY <1>1, <2>2, <2>3, <2>4
  <2>6. SweptTo(f[k - 1], d, hits, k - 1, a, suggest)
    BY <2>5
  <2> HIDE DEF Bad
  <2> DEFINE j == k - 1
             q == f[j]
  <2>7. j \in Nat /\ j < Cardinality(hits) /\ SweptTo(q, d, hits, j, a, suggest)
    BY <2>5, <2>6 DEF m
  <2>8. f[k] = ReplaceHit(q, n, a, suggest) /\ j + 1 = k
    BY <1>4, <2>3, <2>4, <2>5
  <2> HIDE DEF j, q
  <2>9. SweptTo(ReplaceHit(q, n, a, suggest), d, hits, j + 1, a, suggest)
    BY <2>7, SweepOne
  <2> QED
    BY <2>3, <2>8, <2>9
<1>7. SweptTo(f[m], d, hits, m, a, suggest)
  BY <1>1, <1>6
<1> QED
  BY <1>2, <1>7 DEF SweptTo

-----------------------------------------------------------------------------
(* The ids the response is rewritten to. *)

\* Who stands for t after one merge.
Successor(renames, t) ==
    IF \E m \in renames : m[2] = t THEN (CHOOSE m \in renames : m[2] = t)[1] ELSE t

\* f lists who stands for s, merge after merge.
Heirs(f, renames, s, n) ==
    f = [k \in 0..n |-> IF k = 0 THEN s ELSE Successor(renames, f[k - 1])]

\* The list is as long as asked for.
LEMMA HeirsExist ==
  ASSUME NEW renames, NEW s, NEW n \in Nat
  PROVE  \E f : Heirs(f, renames, s, n)
<1> DEFINE Some(l) == \E f : Heirs(f, renames, s, l)
           Bad == {l \in Nat : ~Some(l)}
<1>1. SUFFICES ASSUME Bad # {} PROVE FALSE
  OBVIOUS
<1>2. PICK l \in Bad : \A k \in Bad : l <= k
  <2>1. Bad \subseteq Nat
    OBVIOUS
  <2> HIDE DEF Bad
  <2> QED
    BY <1>1, <2>1, LeastNumber
<1>3. l \in Nat /\ ~Some(l)
  OBVIOUS
<1>4. l # 0
  <2> DEFINE f == [k \in 0..0 |-> s]
  <2>1. Heirs(f, renames, s, 0)
    <3>1. \A k \in 0..0 : k = 0
      OBVIOUS
    <3> QED
      BY <3>1 DEF Heirs
  <2> QED
    BY <1>3, <2>1
<1>5. l - 1 \in Nat /\ l - 1 \notin Bad
  BY <1>2, <1>3, <1>4
<1>6. PICK f : Heirs(f, renames, s, l - 1)
  BY <1>5
<1> DEFINE g == [k \in 0..l |-> IF k = l THEN Successor(renames, f[l - 1]) ELSE f[k]]
<1>7. \A k \in 0..l : g[k] = IF k = 0 THEN s ELSE Successor(renames, g[k - 1])
  <2> SUFFICES ASSUME NEW k \in 0..l
               PROVE  g[k] = IF k = 0 THEN s ELSE Successor(renames, g[k - 1])
    OBVIOUS
  <2>0. \A j \in 0..(l - 1) : f[j] = IF j = 0 THEN s ELSE Successor(renames, f[j - 1])
    BY <1>6 DEF Heirs
  <2>1. CASE k = l
    <3>1. k # 0 /\ k - 1 \in 0..l /\ k - 1 # l
      BY <1>3, <1>4, <2>1
    <3> QED
      BY <2>1, <3>1
  <2>2. CASE k # l
    <3>1. k \in 0..(l - 1) /\ (k # 0 => k - 1 \in 0..l /\ k - 1 # l)
      BY <1>3, <1>4, <2>2
    <3> QED
      BY <2>0, <2>2, <3>1
  <2> QED
    BY <2>1, <2>2
<1>8. Heirs(g, renames, s, l)
  <2>1. g = [k \in 0..l |-> g[k]]
    OBVIOUS
  <2> HIDE DEF g
  <2> QED
    BY <1>7, <2>1 DEF Heirs
<1> QED
  BY <1>3, <1>8

\* Merges lead from older to newer cards of one author.
Forward(renames) ==
    \A m \in renames : /\ m[1] \in Ids /\ m[2] \in Ids
                       /\ AuthorOf(m[1]) = AuthorOf(m[2]) /\ m[2][2] < m[1][2]

\* Who stands for t is of the same author, and newer if t was merged away.
LEMMA SuccessorIsNewer ==
  ASSUME NEW renames, Forward(renames), NEW t \in Ids
  PROVE  LET u == Successor(renames, t) IN
         /\ u \in Ids /\ AuthorOf(u) = AuthorOf(t)
         /\ (\E m \in renames : m[2] = t) => t[2] < u[2]
         /\ (\A m \in renames : m[2] # t) => u = t
<1>1. CASE \E m \in renames : m[2] = t
  <2>1. PICK m \in renames : m[2] = t /\ Successor(renames, t) = m[1]
    BY <1>1 DEF Successor
  <2> QED
    BY <1>1, <2>1 DEF Forward
<1>2. CASE \A m \in renames : m[2] # t
  BY <1>2 DEF Successor
<1> QED
  BY <1>1, <1>2

\* The merges a card may still be subject to.
Ahead(renames, t) == {m \in renames : t[2] <= m[2][2]}

\* Who may stand for s after k merges.
StandsFor(t, renames, s, k) ==
    /\ t \in Ids /\ AuthorOf(t) = AuthorOf(s) /\ s[2] <= t[2]
    /\ (\A m \in renames : m[2] # s) => t = s
    /\ (\E m \in renames : m[2] = t) =>
         Cardinality(Ahead(renames, t)) + k <= Cardinality(renames)

\* Every merge that is followed is one less ahead.
LEMMA OneMerge ==
  ASSUME NEW renames, IsFiniteSet(renames), Forward(renames), NEW s \in Ids,
         NEW k \in Nat, NEW t, StandsFor(t, renames, s, k)
  PROVE  StandsFor(Successor(renames, t), renames, s, k + 1)
<1> DEFINE u == Successor(renames, t)
<1>1. t \in Ids /\ AuthorOf(t) = AuthorOf(s) /\ s[2] <= t[2]
      /\ s[2] \in Nat /\ t[2] \in Nat
  BY DEF StandsFor, Ids
<1>2. /\ u \in Ids /\ AuthorOf(u) = AuthorOf(t)
      /\ (\E m \in renames : m[2] = t) => t[2] < u[2]
      /\ (\A m \in renames : m[2] # t) => u = t
  BY <1>1, SuccessorIsNewer
<1> HIDE DEF u
<1>3. CASE \A m \in renames : m[2] # t
  <2>1. u = t
    BY <1>2, <1>3
  <2> QED
    BY <1>3, <2>1 DEF StandsFor, u
<1>4. CASE \E m \in renames : m[2] = t
  <2>1. PICK m \in renames : m[2] = t
    BY <1>4
  <2>2. t[2] < u[2] /\ u[2] \in Nat
    BY <1>2, <1>4 DEF Ids
  <2>3. s[2] <= u[2] /\ u \in Ids /\ AuthorOf(u) = AuthorOf(s)
    BY <1>1, <1>2, <2>2
  <2>4. ~(\A o \in renames : o[2] # s)
    <3>1. CASE t = s
      BY <2>1, <3>1
    <3>2. CASE t # s
      BY <3>2 DEF StandsFor
    <3> QED
      BY <3>1, <3>2
  <2> DEFINE A == Ahead(renames, t)
             B == Ahead(renames, u)
  <2>5. B \subseteq A /\ m \in A /\ m \notin B
    <3>1. \A o \in renames : o[2][2] \in Nat
      BY DEF Forward, Ids
    <3> QED
      BY <1>1, <2>1, <2>2, <3>1 DEF Ahead
  <2>6. IsFiniteSet(A) /\ Cardinality(A) \in Nat /\ Cardinality(renames) \in Nat
    <3>1. A \subseteq renames
      BY DEF Ahead
    <3> QED
      BY <3>1, Counts, FS_CardinalityType
  <2>7. Cardinality(A) + k <= Cardinality(renames)
    BY <1>4 DEF StandsFor
  <2> HIDE DEF A, B
  <2>8. Cardinality(B) \in Nat /\ Cardinality(B) <= Cardinality(A)
        /\ Cardinality(B) # Cardinality(A)
    <3>1. B \in SUBSET A
      BY <2>5
    <3>2. Cardinality(B) \in Nat /\ Cardinality(B) <= Cardinality(A)
      BY <2>5, <2>6, Counts
    <3>3. Cardinality(B) # Cardinality(A)
      BY <2>5, <2>6, <3>1, FS_Subset
    <3> QED
      BY <3>2, <3>3
  <2>9. Cardinality(B) + (k + 1) <= Cardinality(renames)
    BY <2>6, <2>7, <2>8
  <2>10. StandsFor(u, renames, s, k + 1)
    BY <2>3, <2>4, <2>9 DEF StandsFor, B
  <2> QED
    BY <2>10 DEF u
<1> QED
  BY <1>3, <1>4

\* t is who stands for s when all is merged.
Final(t, renames, s) ==
    /\ t \in Ids /\ AuthorOf(t) = AuthorOf(s) /\ s[2] <= t[2]
    /\ (\A m \in renames : m[2] # s) => t = s
    /\ \A m \in renames : m[2] # t

\* The id a response is given stands for the one the request was answered with, and
\* was itself merged away by none of the merges, however many there were and in
\* whatever order they come up.
LEMMA HeirOf ==
  ASSUME NEW renames, IsFiniteSet(renames), Forward(renames), NEW s \in Ids,
         NEW t, t = Heir(renames, s)
  PROVE  Final(t, renames, s)
<1> DEFINE n == Cardinality(renames)
           f == CHOOSE f : Heirs(f, renames, s, n)
<1>1. n \in Nat
  BY FS_CardinalityType
<1>2. t = f[n]
  BY DEF Heir, Heirs, Successor
<1>3. Heirs(f, renames, s, n)
  <2>1. \E h : Heirs(h, renames, s, n)
    BY <1>1, HeirsExist
  <2> QED
    BY <2>1
<1> HIDE DEF f, n
<1>4. f[0] = s /\ \A k \in 0..n : k # 0 => f[k] = Successor(renames, f[k - 1])
  <2>1. 0 \in 0..n
    BY <1>1
  <2> QED
    BY <1>3, <2>1 DEF Heirs
<1>5. StandsFor(f[0], renames, s, 0)
  <2>1. s[2] \in Nat
    BY DEF Ids
  <2>2. Ahead(renames, s) \subseteq renames
    BY DEF Ahead
  <2>3. Cardinality(Ahead(renames, s)) \in Nat
        /\ Cardinality(Ahead(renames, s)) <= Cardinality(renames)
    BY <2>2, Counts
  <2>4. Cardinality(Ahead(renames, s)) + 0 <= Cardinality(renames)
    BY <2>3
  <2> QED
    BY <1>4, <2>1, <2>4 DEF StandsFor
<1> DEFINE Bad == {k \in 0..n : ~StandsFor(f[k], renames, s, k)}
<1>6. Bad = {}
  <2>1. SUFFICES ASSUME Bad # {} PROVE FALSE
    OBVIOUS
  <2>2. PICK k \in Bad : \A j \in Bad : k <= j
    <3>1. Bad \subseteq Nat
      BY <1>1
    <3> HIDE DEF Bad
    <3> QED
      BY <2>1, <3>1, LeastNumber
  <2>3. k \in 0..n /\ ~StandsFor(f[k], renames, s, k)
    OBVIOUS
  <2>4. k # 0
    BY <1>5, <2>3
  <2>5. k - 1 \in Nat /\ k - 1 \in 0..n /\ k - 1 \notin Bad /\ (k - 1) + 1 = k
    BY <1>1, <2>2, <2>3, <2>4
  <2>6. StandsFor(f[k - 1], renames, s, k - 1)
    BY <2>5
  <2>7. f[k] = Successor(renames, f[k - 1])
    BY <1>4, <2>3, <2>4
  <2> HIDE DEF Bad
  <2> DEFINE j == k - 1
             u == f[j]
  <2>8. j \in Nat /\ StandsFor(u, renames, s, j) /\ j + 1 = k
        /\ f[k] = Successor(renames, u)
    BY <2>5, <2>6, <2>7
  <2> HIDE DEF j, u
  <2>9. StandsFor(Successor(renames, u), renames, s, j + 1)
    BY <2>8, OneMerge
  <2> QED
    BY <2>3, <2>8, <2>9
<1>7. StandsFor(t, renames, s, n)
  BY <1>1, <1>2, <1>6
<1>8. \A m \in renames : m[2] # t
  <2> SUFFICES ASSUME NEW m \in renames, m[2] = t PROVE FALSE
    OBVIOUS
  <2>1. Cardinality(Ahead(renames, t)) + n <= n
    BY <1>7 DEF StandsFor, n
  <2>2. Ahead(renames, t) \subseteq renames
    BY DEF Ahead
  <2>3. IsFiniteSet(Ahead(renames, t)) /\ Cardinality(Ahead(renames, t)) \in Nat
    BY <2>2, Counts
  <2>4. Cardinality(Ahead(renames, t)) = 0
    BY <1>1, <2>1, <2>3
  <2>5. Ahead(renames, t) = {}
    BY <2>3, <2>4, FS_EmptySet
  <2>6. t[2] \in Nat
    BY <1>7 DEF StandsFor, Ids
  <2> QED
    BY <2>5, <2>6 DEF Ahead
<1> QED
  BY <1>7, <1>8 DEF StandsFor, Final

-----------------------------------------------------------------------------
(* The steps of a batch. *)

\* What an open batch has been answered so far: cards of its author newer than all it
\* found and all that had been merged away by then, and every card it opened.
BatchOpen(d, b) ==
    /\ b.author \in Authors /\ b.suggest \in BOOLEAN
    /\ b.watermark \subseteq d.mergeLog /\ b.found \subseteq Minted(d)
    /\ \A s \in UNION ToSet(b.responses) :
         /\ s \in Minted(d) /\ AuthorOf(s) = b.author
         /\ \A t \in b.found \cup {m[2] : m \in b.watermark} :
              AuthorOf(t) = AuthorOf(s) => t[2] < s[2]
    /\ Open(d) \ b.found \subseteq UNION ToSet(b.responses)

\* What the answer is to be: the two properties, of a document and a batch.
BatchAnswered(d, b) ==
    /\ \A s \in UNION ToSet(b.responses) :
         /\ AuthorOf(s) = b.author /\ s \notin b.found
         /\ \A merge \in d.mergeLog : merge[2] # s
    /\ Open(d) \ b.found \subseteq UNION ToSet(b.responses)

BatchFields == {"phase", "author", "suggest", "responses", "watermark", "found"}

BatchInv ==
    /\ DocInv(doc) /\ Logged(doc)
    /\ batch = [field \in BatchFields |-> batch[field]]
    /\ batch.responses \in Seq(SUBSET Ids)
    /\ batch.phase = "open" => BatchOpen(doc, batch)
    /\ batch.phase = "answered" => BatchAnswered(doc, batch)

\* A decision, and a reply, open no card.
LEMMA DecisionApplied ==
  ASSUME NEW d, DocInv(d), Logged(d), NEW s \in Open(d), NEW a
  PROVE  /\ Applied(d, Accept(d, s), {}, a) /\ Applied(d, Reject(d, s), {}, a)
         /\ Applied(d, Reply(d, s), {}, a) /\ s \in Open(Reply(d, s))
<1>1. Typed(d) /\ s \in Ids
  BY DEF DocInv, Typed
<1>2. Applied(d, Accept(d, s), {}, a)
  <2> DEFINE e == Accept(d, s)
  <2>1. DocInv(e) /\ e.mergeLog = d.mergeLog
    BY <1>1, DecisionInv, DecisionLog
  <2>2. e.counters = d.counters /\ Open(e) \subseteq Open(d)
    BY <1>1, AcceptFields
  <2> HIDE DEF e
  <2>3. Applied(d, e, {}, a)
    BY <2>1, <2>2, QuietlyApplied
  <2> QED
    BY <2>3 DEF e
<1>3. Applied(d, Reject(d, s), {}, a)
  <2> DEFINE e == Reject(d, s)
  <2>1. DocInv(e) /\ e.mergeLog = d.mergeLog
    BY <1>1, DecisionInv, DecisionLog
  <2>2. e.counters = d.counters /\ Open(e) \subseteq Open(d)
    BY <1>1, RejectFields
  <2> HIDE DEF e
  <2>3. Applied(d, e, {}, a)
    BY <2>1, <2>2, QuietlyApplied
  <2> QED
    BY <2>3 DEF e
<1>4. Applied(d, Reply(d, s), {}, a) /\ s \in Open(Reply(d, s))
  <2> DEFINE e == Reply(d, s)
  <2>1. e.mergeLog = d.mergeLog
    BY <1>1, ReplyLog
  <2>2. e = Reply(d, s)
    OBVIOUS
  <2> HIDE DEF e
  <2>3. DocInv(e) /\ e.counters = d.counters /\ Open(e) = Open(d)
    BY <2>2, ReplyInv
  <2>4. Applied(d, e, {}, a) /\ s \in Open(e)
    BY <2>1, <2>3, QuietlyApplied
  <2> QED
    BY <2>4 DEF e
<1> QED
  BY <1>2, <1>3, <1>4

\* A reply may come with a decision.
LEMMA ReplyApplied ==
  ASSUME NEW d, DocInv(d), Logged(d), NEW s \in Open(d), NEW a
  PROVE  /\ Applied(d, Accept(Reply(d, s), s), {}, a)
         /\ Applied(d, Reject(Reply(d, s), s), {}, a)
<1> DEFINE e == Reply(d, s)
<1>1. Applied(d, e, {}, a) /\ s \in Open(e)
  BY DecisionApplied
<1> HIDE DEF e
<1>2. DocInv(e) /\ Logged(e)
  BY <1>1 DEF Applied
<1>3. Applied(e, Accept(e, s), {}, a) /\ Applied(e, Reject(e, s), {}, a)
  BY <1>1, <1>2, DecisionApplied
<1>4. Applied(d, Accept(e, s), {} \cup {}, a) /\ Applied(d, Reject(e, s), {} \cup {}, a)
  BY <1>1, <1>3, AppliedTwice
<1>5. Applied(d, Accept(e, s), {}, a) /\ Applied(d, Reject(e, s), {}, a)
  BY <1>4
<1> QED
  BY <1>5 DEF e

\* A direct edit opens no card.
LEMMA EditApplied ==
  ASSUME NEW d, DocInv(d), Logged(d), NEW seg \in Segments,
         NEW i \in 0..Len(d.segments[seg]), NEW a
  PROVE  /\ \A n \in Nat : Applied(d, EditInsert(d, seg, i, n), {}, a)
         /\ \A j \in 0..Len(d.segments[seg]) : Applied(d, EditDelete(d, seg, i, j), {}, a)
<1>1. Typed(d)
  BY DEF DocInv
<1>2. ASSUME NEW n \in Nat PROVE Applied(d, EditInsert(d, seg, i, n), {}, a)
  <2> DEFINE e == EditInsert(d, seg, i, n)
  <2>1. DocInv(e) /\ e.counters = d.counters /\ Open(e) = Open(d)
    BY EditInsertInv
  <2>2. e.mergeLog = d.mergeLog
    BY <1>1, EditLog
  <2> HIDE DEF e
  <2>3. Applied(d, e, {}, a)
    BY <2>1, <2>2, QuietlyApplied
  <2> QED
    BY <2>3 DEF e
<1>3. ASSUME NEW j \in 0..Len(d.segments[seg])
      PROVE  Applied(d, EditDelete(d, seg, i, j), {}, a)
  <2> DEFINE e == EditDelete(d, seg, i, j)
  <2>1. e.mergeLog = d.mergeLog
    BY <1>1, EditLog
  <2>2. e = EditDelete(d, seg, i, j)
    OBVIOUS
  <2> HIDE DEF e
  <2>3. DocInv(e) /\ e.counters = d.counters /\ Open(e) \subseteq Open(d)
    BY <2>2, EditDeleteInv
  <2>4. Applied(d, e, {}, a)
    BY <2>1, <2>3, QuietlyApplied
  <2> QED
    BY <2>4 DEF e
<1> QED
  BY <1>2, <1>3

\* A suggested edit is answered with its card, if that is left.
LEMMA ProposalApplied ==
  ASSUME NEW d, DocInv(d), Logged(d), NEW a \in Authors, NEW seg \in Segments,
         Cardinality(Minted(d)) + 1 <= MaxSuggestions
  PROVE  /\ \A i \in 0..Len(d.segments[seg]), n \in Nat :
              LET r == Insert(d, seg, i, n, a) IN Applied(d, r.doc, ReportedBy(r), a)
         /\ \A i, j : LET r == Delete(d, seg, i, j, a)
                      IN Applied(d, r.doc, ReportedBy(r), a)
<1> DEFINE s == Newest(NewSuggestion(d, a), a)
<1>1. d.counters[a] < MaxSuggestions
  <2>1. Typed(d) /\ 1 \in Nat
    BY DEF DocInv
  <2>2. d.counters[a] \in Nat /\ MaxSuggestions \in Nat
        /\ d.counters[a] + 1 <= MaxSuggestions
    BY <2>1, RoomLeft
  <2> QED
    BY <2>2
<1>2. s = Newest(NewSuggestion(d, a), a)
  OBVIOUS
<1> HIDE DEF s
<1>3. ASSUME NEW i \in 0..Len(d.segments[seg]), NEW n \in Nat,
             NEW r, r = Insert(d, seg, i, n, a)
      PROVE  Applied(d, r.doc, ReportedBy(r), a)
  <2>1. r.sid = s /\ Suggested(d, r.doc, a, s)
    BY <1>1, <1>2, <1>3, InsertProposes
  <2>2. Applied(d, r.doc, {s} \cap Open(r.doc), a)
    BY <2>1, SuggestionApplied
  <2> QED
    BY <2>1, <2>2 DEF ReportedBy
<1>4. ASSUME NEW i, NEW j, NEW r, r = Delete(d, seg, i, j, a)
      PROVE  Applied(d, r.doc, ReportedBy(r), a)
  <2>1. r.sid = s /\ Suggested(d, r.doc, a, s)
    BY <1>1, <1>2, <1>4, DeleteProposes
  <2>2. Applied(d, r.doc, {s} \cap Open(r.doc), a)
    BY <2>1, SuggestionApplied
  <2> QED
    BY <2>1, <2>2 DEF ReportedBy
<1> QED
  BY <1>3, <1>4

\* The places of the document are in its text.
LEMMA PlacesWithin ==
  ASSUME Typed(doc), NEW hits \in SUBSET Places
  PROVE  Within(hits, doc)
<1> SUFFICES ASSUME NEW hit \in hits
             PROVE  /\ hit = <<hit[1], hit[2]>> /\ hit[1] \in Segments
                    /\ hit[2] \in Nat /\ hit[2] < Len(doc.segments[hit[1]])
  BY DEF Within
<1>1. PICK seg \in Segments :
        hit \in {seg} \X (Cursors(seg) \ {Len(doc.segments[seg])})
  BY DEF Places
<1>2. hit = <<hit[1], hit[2]>> /\ hit[1] = seg
      /\ hit[2] \in 0..Len(doc.segments[seg]) /\ hit[2] # Len(doc.segments[seg])
  BY <1>1 DEF Cursors
<1>3. Len(doc.segments[seg]) \in Nat
  BY DEF Typed
<1> QED
  BY <1>2, <1>3

\* Every request is applied to the document and answered for.
Answered(created) ==
    /\ Applied(doc, doc', created, batch.author)
    /\ batch' = [batch EXCEPT !.responses = Append(@, created)]

\* A request is recorded with what it is answered with.
LEMMA RecordAnswers ==
  ASSUME NEW d, NEW created, Record(d, created), Applied(doc, d, created, batch.author)
  PROVE  \E new : Answered(new)
  BY DEF Record, Answered

\* Every request is recorded so.
LEMMA RequestAnswered ==
  ASSUME BatchInv, Request
  PROVE  batch.phase = "open" /\ \E created : Answered(created)
<1> DEFINE a == batch.author
<1>1. batch.phase = "open"
  BY DEF Request, InsertTextRequest, DeleteContentRange, ReplaceAllText, AcceptRequest,
         RejectRequest, DeleteSuggestion, AddCommentReply, Requesting
<1>2. DocInv(doc) /\ Logged(doc) /\ Typed(doc) /\ a \in Authors
      /\ batch.suggest \in BOOLEAN
  BY <1>1 DEF BatchInv, BatchOpen, DocInv
<1>3. Lengths \subseteq Nat \ {0} /\ MaxSuggestions \in Nat
  BY DocAssumption
<1>4. CASE InsertTextRequest
  <2>1. PICK seg \in Segments, n \in Lengths : \E i \in Cursors(seg) :
          IF batch.suggest
          THEN RoomFor(1) /\ LET r == Insert(doc, seg, i, n, a)
                             IN Record(r.doc, ReportedBy(r))
          ELSE Record(EditInsert(doc, seg, i, n), {})
    BY <1>4 DEF InsertTextRequest
  <2>2. PICK i \in 0..Len(doc.segments[seg]) :
          IF batch.suggest
          THEN RoomFor(1) /\ LET r == Insert(doc, seg, i, n, a)
                             IN Record(r.doc, ReportedBy(r))
          ELSE Record(EditInsert(doc, seg, i, n), {})
    BY <2>1 DEF Cursors
  <2>3. CASE batch.suggest
    <3> DEFINE r == Insert(doc, seg, i, n, a)
    <3>1. Record(r.doc, ReportedBy(r)) /\ Cardinality(Minted(doc)) + 1 <= MaxSuggestions
      BY <2>2, <2>3 DEF RoomFor
    <3>2. Applied(doc, r.doc, ReportedBy(r), a)
      BY <1>2, <1>3, <3>1, ProposalApplied
    <3> HIDE DEF r
    <3> QED
      BY <1>1, <3>1, <3>2, RecordAnswers
  <2>4. CASE ~batch.suggest
    <3> DEFINE e == EditInsert(doc, seg, i, n)
    <3>1. Record(e, {})
      BY <2>2, <2>4
    <3>2. Applied(doc, e, {}, a)
      BY <1>2, <1>3, EditApplied
    <3> HIDE DEF e
    <3> QED
      BY <1>1, <3>1, <3>2, RecordAnswers
  <2> QED
    BY <1>1, <2>3, <2>4
<1>5. CASE DeleteContentRange
  <2>1. PICK seg \in Segments : \E i, j \in Cursors(seg) : i < j /\
          IF batch.suggest
          THEN RoomFor(1) /\ LET r == Delete(doc, seg, i, j, a)
                             IN Record(r.doc, ReportedBy(r))
          ELSE Record(EditDelete(doc, seg, i, j), {})
    BY <1>5 DEF DeleteContentRange
  <2>2. PICK i \in 0..Len(doc.segments[seg]), j \in 0..Len(doc.segments[seg]) :
          IF batch.suggest
          THEN RoomFor(1) /\ LET r == Delete(doc, seg, i, j, a)
                             IN Record(r.doc, ReportedBy(r))
          ELSE Record(EditDelete(doc, seg, i, j), {})
    BY <2>1 DEF Cursors
  <2>3. CASE batch.suggest
    <3> DEFINE r == Delete(doc, seg, i, j, a)
    <3>1. Record(r.doc, ReportedBy(r)) /\ Cardinality(Minted(doc)) + 1 <= MaxSuggestions
      BY <2>2, <2>3 DEF RoomFor
    <3>2. Applied(doc, r.doc, ReportedBy(r), a)
      BY <1>2, <3>1, ProposalApplied
    <3> HIDE DEF r
    <3> QED
      BY <1>1, <3>1, <3>2, RecordAnswers
  <2>4. CASE ~batch.suggest
    <3> DEFINE e == EditDelete(doc, seg, i, j)
    <3>1. Record(e, {})
      BY <2>2, <2>4
    <3>2. Applied(doc, e, {}, a)
      BY <1>2, EditApplied
    <3> HIDE DEF e
    <3> QED
      BY <1>1, <3>1, <3>2, RecordAnswers
  <2> QED
    BY <1>1, <2>3, <2>4
<1>6. CASE ReplaceAllText
  <2>1. PICK n \in Lengths, hits \in SUBSET Places :
          /\ batch.suggest => RoomFor(2 * Cardinality(hits))
          /\ LET r == ReplaceHits(doc, hits, n, a, batch.suggest)
             IN Record(r.doc, r.created)
    BY <1>6 DEF ReplaceAllText
  <2> DEFINE r == ReplaceHits(doc, hits, n, a, batch.suggest)
             size == 2 * Cardinality(hits)
  <2>2. Within(hits, doc)
    BY <1>2, PlacesWithin
  <2>3. size \in Nat
    <3>1. Cardinality(hits) \in Nat
      BY <1>2, <2>2, PlacesCount
    <3> QED
      BY <3>1
  <2>4. batch.suggest => doc.counters[a] + size <= MaxSuggestions
    <3>1. SUFFICES ASSUME batch.suggest PROVE doc.counters[a] + size <= MaxSuggestions
      OBVIOUS
    <3>2. Cardinality(Minted(doc)) + size <= MaxSuggestions
      BY <2>1, <3>1 DEF RoomFor
    <3> HIDE DEF size
    <3> QED
      BY <1>2, <2>3, <3>2, RoomLeft
  <2>5. Applied(doc, r.doc, r.created, a)
    <3>1. r = ReplaceHits(doc, hits, n, a, batch.suggest) /\ n \in Nat \ {0}
      BY <1>3
    <3> HIDE DEF r
    <3> QED
      BY <1>2, <2>2, <2>4, <3>1, SweepApplied
  <2> QED
    BY <1>1, <2>1, <2>5, RecordAnswers
<1>7. CASE AcceptRequest
  <2>1. PICK s \in Open(doc) : Record(Accept(doc, s), {})
    BY <1>7 DEF AcceptRequest
  <2>2. Applied(doc, Accept(doc, s), {}, a)
    BY <1>2, DecisionApplied
  <2> QED
    BY <1>1, <2>1, <2>2, RecordAnswers
<1>8. CASE RejectRequest \/ DeleteSuggestion
  <2>1. PICK s \in Open(doc) : Record(Reject(doc, s), {})
    BY <1>8 DEF RejectRequest, DeleteSuggestion
  <2>2. Applied(doc, Reject(doc, s), {}, a)
    BY <1>2, DecisionApplied
  <2> QED
    BY <1>1, <2>1, <2>2, RecordAnswers
<1>9. CASE AddCommentReply
  <2>1. PICK s \in Open(doc) : \/ Record(Reply(doc, s), {})
                               \/ Record(Accept(Reply(doc, s), s), {})
                               \/ Record(Reject(Reply(doc, s), s), {})
    BY <1>9 DEF AddCommentReply
  <2>2. /\ Applied(doc, Reply(doc, s), {}, a)
        /\ Applied(doc, Accept(Reply(doc, s), s), {}, a)
        /\ Applied(doc, Reject(Reply(doc, s), s), {}, a)
    BY <1>2, DecisionApplied, ReplyApplied
  <2> QED
    BY <1>1, <2>1, <2>2, RecordAnswers
<1> QED
  BY <1>1, <1>4, <1>5, <1>6, <1>7, <1>8, <1>9 DEF Request

\* What becomes of a batch, with what it is answered.
Continues(b, now, responses) ==
    /\ now.author = b.author /\ now.suggest = b.suggest
    /\ now.watermark = b.watermark /\ now.found = b.found
    /\ now.responses = responses

\* What a request is answered with is as the batch wants it.
LEMMA RequestKeepsOpen ==
  ASSUME NEW d, DocInv(d), Logged(d), NEW b, b.responses \in Seq(SUBSET Ids),
         BatchOpen(d, b), NEW e, NEW created, Applied(d, e, created, b.author),
         NEW more, more = Append(b.responses, created),
         NEW now, Continues(b, now, more)
  PROVE  /\ now.responses \in Seq(SUBSET Ids) /\ BatchOpen(e, now)
<1>1. Typed(d) /\ created \subseteq Ids
      /\ Minted(d) \subseteq Minted(e) /\ d.mergeLog \subseteq e.mergeLog
      /\ created \subseteq Minted(e) \ Minted(d)
      /\ (\A s \in created : AuthorOf(s) = b.author)
      /\ Open(e) \subseteq Open(d) \cup created
  BY DEF Applied, DocInv, Minted
<1>0. /\ now.author = b.author /\ now.suggest = b.suggest
      /\ now.watermark = b.watermark /\ now.found = b.found
      /\ now.responses = Append(b.responses, created)
  BY DEF Continues
<1> DEFINE before == UNION ToSet(b.responses)
           after == UNION ToSet(now.responses)
           old == b.found \cup {m[2] : m \in b.watermark}
<1>2. after = before \cup created /\ now.responses \in Seq(SUBSET Ids)
  <2>1. Len(b.responses) \in Nat /\ DOMAIN b.responses = 1..Len(b.responses)
        /\ now.responses \in Seq(SUBSET Ids)
    BY <1>0, <1>1, AppendProperties, LenProperties
  <2>2. DOMAIN now.responses = 1..(Len(b.responses) + 1)
        /\ now.responses[Len(b.responses) + 1] = created
        /\ \A i \in 1..Len(b.responses) : now.responses[i] = b.responses[i]
    BY <1>0, <1>1, AppendProperties, LenProperties
  <2>3. \A i : i \in DOMAIN now.responses
                 <=> i \in DOMAIN b.responses \/ i = Len(b.responses) + 1
    BY <2>1, <2>2
  <2>4. ToSet(now.responses) = ToSet(b.responses) \cup {created}
    BY <2>1, <2>2, <2>3 DEF ToSet
  <2> QED
    BY <2>1, <2>4
<1>3. BatchOpen(d, b)
  OBVIOUS
<1>4. old \subseteq Minted(d)
  <2>1. b.found \subseteq Minted(d) /\ b.watermark \subseteq d.mergeLog
    BY <1>3 DEF BatchOpen
  <2>2. \A m \in d.mergeLog : m[2] \in Minted(d)
    BY DEF Logged
  <2> QED
    BY <2>1, <2>2
<1>5. ASSUME NEW s \in after
      PROVE  /\ s \in Minted(e) /\ AuthorOf(s) = b.author
             /\ \A t \in old : AuthorOf(t) = AuthorOf(s) => t[2] < s[2]
  <2>1. CASE s \in before
    <3>1. /\ s \in Minted(d) /\ AuthorOf(s) = b.author
          /\ \A t \in old : AuthorOf(t) = AuthorOf(s) => t[2] < s[2]
      BY <1>3, <2>1 DEF BatchOpen
    <3> QED
      BY <1>1, <3>1
  <2>2. CASE s \in created
    <3>1. s \in Ids \ Minted(d)
      BY <1>1, <2>2
    <3>2. \A t \in old : AuthorOf(t) = AuthorOf(s) => t[2] < s[2]
      <4> SUFFICES ASSUME NEW t \in old, AuthorOf(t) = AuthorOf(s) PROVE t[2] < s[2]
        OBVIOUS
      <4> QED
        BY <1>1, <1>4, <3>1, OlderIsSmaller
    <3> QED
      BY <1>1, <2>2, <3>2
  <2> QED
    BY <1>2, <2>1, <2>2
<1>6. Open(e) \ b.found \subseteq after
  BY <1>1, <1>2, <1>3 DEF BatchOpen
<1>7. BatchOpen(e, now)
  <2>1. now.author \in Authors /\ now.suggest \in BOOLEAN
        /\ now.watermark \subseteq e.mergeLog /\ now.found \subseteq Minted(e)
    BY <1>0, <1>1, <1>3 DEF BatchOpen
  <2> QED
    BY <1>0, <1>5, <1>6, <2>1 DEF BatchOpen
<1> QED
  BY <1>2, <1>7

\* There are finitely many merges.
LEMMA LogCount ==
  ASSUME NEW d, Typed(d), Logged(d)
  PROVE  IsFiniteSet(d.mergeLog)
<1>1. IsFiniteSet(Ids)
  <2>1. IsFiniteSet(1..MaxSuggestions)
    BY DocAssumption, CountInterval
  <2> QED
    BY <2>1, DocAssumption, FS_Product DEF Ids
<1>2. IsFiniteSet(Ids \X Ids)
  BY <1>1, FS_Product
<1>3. d.mergeLog \subseteq Ids \X Ids
  BY DEF Logged, Minted
<1> QED
  BY <1>2, <1>3, FS_Subset

\* The response with every id followed through the merges.
Rewritten(responses, renames) ==
    [i \in DOMAIN responses |-> {Heir(renames, s) : s \in responses[i]}]

\* The response names, for every card it was given, the one it is now; none that the
\* batch found or that was merged away, and every one it opened.
LEMMA AnswerKeeps ==
  ASSUME NEW d, DocInv(d), Logged(d), NEW b, b.responses \in Seq(SUBSET Ids),
         BatchOpen(d, b), NEW renames, renames = d.mergeLog \ b.watermark,
         NEW told, told = Rewritten(b.responses, renames),
         NEW now, Continues(b, now, told)
  PROVE  /\ now.responses \in Seq(SUBSET Ids) /\ BatchAnswered(d, now)
<1>0. now.author = b.author /\ now.found = b.found
      /\ now.responses = [i \in DOMAIN b.responses |->
                            {Heir(renames, s) : s \in b.responses[i]}]
  BY DEF Continues, Rewritten
<1>1. Typed(d) /\ IsFiniteSet(renames) /\ Forward(renames)
  <2>1. Typed(d)
    BY DEF DocInv
  <2>2. IsFiniteSet(renames)
    BY <2>1, LogCount, FS_Subset
  <2>3. Forward(renames)
    BY DEF Logged, Forward, Minted
  <2> QED
    BY <2>1, <2>2, <2>3
<1>2. \A s \in Ids : Final(Heir(renames, s), renames, s)
  BY <1>1, HeirOf
<1> DEFINE before == UNION ToSet(b.responses)
           after == UNION ToSet(now.responses)
<1>3. Len(b.responses) \in Nat /\ DOMAIN b.responses = 1..Len(b.responses)
      /\ \A i \in DOMAIN b.responses : b.responses[i] \subseteq Ids
  BY LenProperties, ElementOfSeq
<1>4. now.responses \in Seq(SUBSET Ids)
  <2>1. \A i \in DOMAIN b.responses :
          {Heir(renames, s) : s \in b.responses[i]} \subseteq Ids
    <3>1. \A s \in Ids : Heir(renames, s) \in Ids
      BY <1>2 DEF Final
    <3> QED
      BY <1>3, <3>1
  <2>2. now.responses \in [1..Len(b.responses) -> SUBSET Ids]
    BY <1>0, <1>3, <2>1
  <2> QED
    BY <1>3, <2>2, SeqDef
<1>5. \A t : t \in after <=> \E s \in before : t = Heir(renames, s)
  <2> DEFINE From(i) == {Heir(renames, s) : s \in b.responses[i]}
  <2>1. DOMAIN now.responses = DOMAIN b.responses
        /\ \A i \in DOMAIN b.responses : now.responses[i] = From(i)
    BY <1>0
  <2>2. \A t : t \in after <=> \E i \in DOMAIN b.responses : t \in From(i)
    BY <2>1 DEF ToSet
  <2>3. \A s : s \in before <=> \E i \in DOMAIN b.responses : s \in b.responses[i]
    BY DEF ToSet
  <2> HIDE DEF after, before
  <2> QED
    BY <2>2, <2>3
<1>6. before \subseteq Ids
  BY <1>3 DEF ToSet
<1>7. ASSUME NEW t \in after
      PROVE  /\ AuthorOf(t) = b.author /\ t \notin b.found
             /\ \A m \in d.mergeLog : m[2] # t
  <2>1. PICK s \in before : t = Heir(renames, s)
    BY <1>5
  <2>2. s \in Ids /\ t \in Ids /\ AuthorOf(t) = AuthorOf(s) /\ s[2] <= t[2]
        /\ \A m \in renames : m[2] # t
    BY <1>2, <1>6, <2>1 DEF Final
  <2>3. AuthorOf(s) = b.author
        /\ \A o \in b.found \cup {m[2] : m \in b.watermark} :
             AuthorOf(o) = AuthorOf(s) => o[2] < s[2]
    BY DEF BatchOpen
  <2>4. s[2] \in Nat /\ t[2] \in Nat /\ ~(t[2] < s[2])
    BY <2>2 DEF Ids
  <2>5. t \notin b.found /\ \A m \in b.watermark : m[2] # t
    BY <2>2, <2>3, <2>4
  <2>6. \A m \in d.mergeLog : m \in renames \/ m \in b.watermark
    OBVIOUS
  <2> QED
    BY <2>2, <2>3, <2>5, <2>6
<1>8. Open(d) \ b.found \subseteq after
  <2> SUFFICES ASSUME NEW s \in Open(d) \ b.found PROVE s \in after
    OBVIOUS
  <2>1. s \in before
    BY DEF BatchOpen
  <2>2. \A m \in renames : m[2] # s
    BY DEF Logged
  <2>3. s = Heir(renames, s)
    BY <1>2, <1>6, <2>1, <2>2 DEF Final
  <2> QED
    BY <1>5, <2>1, <2>3
<1>9. BatchAnswered(d, now)
  BY <1>0, <1>7, <1>8 DEF BatchAnswered
<1> QED
  BY <1>4, <1>9

-----------------------------------------------------------------------------
(* The theorems. *)

\* Every step of a batch leads to such a state, and applies what it answers with.
LEMMA BatchSteps ==
  ASSUME BatchInv, BatchNext
  PROVE  /\ BatchInv'
         /\ doc' = doc \/ \E created : Answered(created)
<1>1. /\ DocInv(doc) /\ Logged(doc) /\ batch.responses \in Seq(SUBSET Ids)
      /\ batch = [field \in BatchFields |-> batch[field]]
  BY DEF BatchInv
<1>2. CASE Begin
  <2>1. PICK a \in Authors, suggest \in BOOLEAN :
          batch' = [phase |-> "open", author |-> a, suggest |-> suggest,
                    responses |-> <<>>, watermark |-> doc.mergeLog, found |-> Open(doc)]
    BY <1>2 DEF Begin
  <2>2. doc' = doc
    BY <1>2 DEF Begin
  <2>3. batch'.phase = "open" /\ batch'.author = a /\ batch'.suggest = suggest
        /\ batch'.responses = <<>> /\ batch'.watermark = doc.mergeLog
        /\ batch'.found = Open(doc)
        /\ batch' = [field \in BatchFields |-> batch'[field]]
    BY <2>1 DEF BatchFields
  <2>4. batch'.responses \in Seq(SUBSET Ids) /\ UNION ToSet(batch'.responses) = {}
    BY <2>3 DEF ToSet
  <2>5. Open(doc) \subseteq Minted(doc)
    BY <1>1 DEF DocInv
  <2>6. BatchOpen(doc, batch')
    BY <2>3, <2>4, <2>5 DEF BatchOpen
  <2> QED
    BY <1>1, <2>2, <2>3, <2>4, <2>6 DEF BatchInv
<1>3. CASE Request
  <2>1. PICK created : Answered(created)
    BY <1>3, RequestAnswered
  <2>2. batch.phase = "open" /\ BatchOpen(doc, batch)
    BY <1>3, RequestAnswered DEF BatchInv
  <2>3. Applied(doc, doc', created, batch.author)
        /\ batch' = [batch EXCEPT !.responses = Append(batch.responses, created)]
    BY <2>1 DEF Answered
  <2> DEFINE more == Append(batch.responses, created)
  <2> HIDE DEF more
  <2>4. batch' = [batch EXCEPT !.responses = more]
    BY <2>3 DEF more
  <2>5. batch'.phase = "open" /\ batch'.author = batch.author
        /\ batch'.suggest = batch.suggest /\ batch'.responses = more
        /\ batch'.watermark = batch.watermark /\ batch'.found = batch.found
        /\ batch' = [field \in BatchFields |-> batch'[field]]
    BY <1>1, <2>2, <2>4 DEF BatchFields
  <2>6. batch'.responses \in Seq(SUBSET Ids) /\ BatchOpen(doc', batch')
    <3>1. Continues(batch, batch', more)
      BY <2>5 DEF Continues
    <3>2. more = Append(batch.responses, created)
      BY DEF more
    <3> QED
      BY <1>1, <2>2, <2>3, <3>1, <3>2, RequestKeepsOpen
  <2>7. DocInv(doc') /\ Logged(doc')
    BY <2>3 DEF Applied
  <2> QED
    BY <2>1, <2>5, <2>6, <2>7 DEF BatchInv
<1>4. CASE RefuseRequest
  <2>1. batch' = [batch EXCEPT !.phase = "refused", !.responses = <<>>] /\ doc' = doc
    BY <1>4 DEF RefuseRequest
  <2>2. batch'.phase = "refused" /\ batch'.responses = <<>>
        /\ batch' = [field \in BatchFields |-> batch'[field]]
    BY <1>1, <2>1 DEF BatchFields
  <2>3. batch'.responses \in Seq(SUBSET Ids)
    BY <2>2
  <2> QED
    BY <1>1, <2>1, <2>2, <2>3 DEF BatchInv
<1>5. CASE Answer
  <2> DEFINE renames == doc.mergeLog \ batch.watermark
             told == [i \in DOMAIN batch.responses |->
                        {Heir(renames, s) : s \in batch.responses[i]}]
  <2>1. batch' = [batch EXCEPT !.phase = "answered", !.responses = told]
        /\ doc' = doc /\ batch.phase = "open"
    BY <1>5 DEF Answer
  <2>2. BatchOpen(doc, batch)
    BY <2>1 DEF BatchInv
  <2> HIDE DEF told
  <2>3. batch'.phase = "answered"
        /\ Continues(batch, batch', told)
        /\ batch' = [field \in BatchFields |-> batch'[field]]
    BY <1>1, <2>1 DEF BatchFields, Continues
  <2>4. batch'.responses \in Seq(SUBSET Ids) /\ BatchAnswered(doc, batch')
    <3>1. told = Rewritten(batch.responses, renames)
      BY DEF told, Rewritten
    <3>2. renames = doc.mergeLog \ batch.watermark
      OBVIOUS
    <3> HIDE DEF renames
    <3> QED
      BY <1>1, <2>2, <2>3, <3>1, <3>2, AnswerKeeps
  <2> QED
    BY <1>1, <2>1, <2>3, <2>4 DEF BatchInv
<1> QED
  BY <1>2, <1>3, <1>4, <1>5 DEF BatchNext

\* A batch begins on a document that is well-formed and logs nothing.
LEMMA BatchBegins ==
  ASSUME BatchInit
  PROVE  BatchInv
<1>1. DocInv(doc) /\ doc.mergeLog = {}
  BY InitInv DEF BatchInit, Init, InitialDoc
<1>2. batch.phase = "none" /\ batch.responses = <<>>
      /\ batch = [field \in BatchFields |-> batch[field]]
  BY DEF BatchInit, NoBatch, BatchFields
<1>3. batch.responses \in Seq(SUBSET Ids)
  BY <1>2
<1> QED
  BY <1>1, <1>2, <1>3 DEF BatchInv, Logged

\* Whatever batches come one after the other, however many requests each has: the
\* document is well-formed and its merges lead from older to newer cards, and a batch
\* that is open has been answered with the cards it opened and with no other.
THEOREM BatchInvHolds == BatchSpec => []BatchInv
<1>1. BatchInit => BatchInv
  BY BatchBegins
<1>2. BatchInv /\ [BatchNext]_<<doc, batch>> => BatchInv'
  <2> SUFFICES ASSUME BatchInv, [BatchNext]_<<doc, batch>> PROVE BatchInv'
    OBVIOUS
  <2>1. CASE BatchNext
    BY <2>1, BatchSteps
  <2>2. CASE UNCHANGED <<doc, batch>>
    BY <2>2 DEF BatchInv
  <2> QED
    BY <2>1, <2>2
<1> QED
  BY <1>1, <1>2, PTL DEF BatchSpec

\* No id a batch is answered with was merged away, by whichever of its requests and
\* however often; each is a card of the caller, and none that the batch found.
THEOREM CreatedIdsHold == BatchSpec => []CreatedIdsSurviveMerges
<1>1. BatchInv => CreatedIdsSurviveMerges
  BY DEF BatchInv, BatchAnswered, CreatedIdsSurviveMerges, Reported
<1> QED
  BY <1>1, BatchInvHolds, PTL

\* Every card a batch opened and left open is in its response.
THEOREM NewCardsHold == BatchSpec => []NewCardsAreReported
<1>1. BatchInv => NewCardsAreReported
  BY DEF BatchInv, BatchAnswered, NewCardsAreReported, Reported
<1> QED
  BY <1>1, BatchInvHolds, PTL

\* Seen through its batches, the document still implements the registry of ids: what
\* a request opens has an id never used before, in whichever sweep it was given.
THEOREM BatchesImplementRegistry == BatchSpec => RegistrySpec
<1>1. BatchInit => Registry!Init
  <2> SUFFICES ASSUME BatchInit PROVE Open(doc) = {} /\ Minted(doc) = {}
    BY DEF Registry!Init
  <2>1. /\ doc.counters = [a \in Authors |-> 0]
        /\ doc.registry = [s \in {} |-> [touched |-> 0, thread |-> <<>>]]
    BY DEF BatchInit, Init, InitialDoc
  <2>2. Open(doc) = {}
    BY <2>1 DEF Open
  <2>3. \A s \in Ids : ~(s[2] <= doc.counters[AuthorOf(s)])
    BY <2>1, DocAssumption DEF Ids, AuthorOf
  <2> QED
    BY <2>2, <2>3 DEF Minted
<1>2. BatchInv /\ [BatchNext]_<<doc, batch>> => [Registry!Next]_(Registry!vars)
  <2> SUFFICES ASSUME BatchInv, [BatchNext]_<<doc, batch>>
               PROVE  [Registry!Next]_(Registry!vars)
    OBVIOUS
  <2>1. CASE doc' = doc
    BY <2>1 DEF Registry!vars, Open, Minted
  <2>2. CASE \E created : Answered(created)
    <3>1. PICK created : Applied(doc, doc', created, batch.author)
      BY <2>2 DEF Answered
    <3>2. Minted(doc) \subseteq Minted(doc') /\ Minted(doc') \subseteq Ids
          /\ Open(doc') \subseteq Open(doc) \cup created
          /\ created \subseteq Minted(doc') \ Minted(doc)
      BY <3>1 DEF Applied, Minted
    <3>3. CASE Minted(doc') # Minted(doc)
      <4>1. Registry!Propose
        BY <3>2, <3>3 DEF Registry!Propose
      <4> QED
        BY <4>1 DEF Registry!Next
    <3>4. CASE Minted(doc') = Minted(doc)
      <4>1. Open(doc') \subseteq Open(doc)
        BY <3>2, <3>4
      <4> QED
        BY <3>4, <4>1 DEF Registry!Next, Registry!Close, Registry!vars
    <3> QED
      BY <3>3, <3>4
  <2> QED
    BY <2>1, <2>2, BatchSteps
<1> QED
  BY <1>1, <1>2, BatchInvHolds, PTL DEF BatchSpec, RegistrySpec, Registry!Spec
=============================================================================
