------------------------- MODULE InterferenceProofs -------------------------
(***************************************************************************)
(* Theorems about the scripted second editor of InterferenceEngine.        *)
(*                                                                         *)
(* The operations of the editor are those SuggestionDocProofs is about.    *)
(***************************************************************************)
EXTENDS InterferenceEngine, SuggestionDocProofs

-----------------------------------------------------------------------------
(* Deciding everything. *)

\* An outcome depends on the decisions about cards that mark something.
LEMMA OutcomeOfMarked ==
  ASSUME NEW d, NEW A, NEW B, A \cap Marked(d) = B \cap Marked(d)
  PROVE  Outcome(d, A) = Outcome(d, B)
<1>1. ASSUME NEW seg \in Segments
      PROVE  Surviving(d.segments[seg], A) = Surviving(d.segments[seg], B)
  <2>1. \A i \in DOMAIN d.segments[seg] :
          Marks(d.segments[seg][i]) \subseteq Marked(d)
    BY DEF Marked, MarkedIn
  <2>2. \A i \in DOMAIN d.segments[seg] :
          Survives(d.segments[seg][i], A) <=> Survives(d.segments[seg][i], B)
    BY <2>1 DEF Survives, Marks
  <2> QED
    BY <2>2 DEF Surviving
<1> QED
  BY <1>1, OutcomeIsText DEF Text

\* All positions, by their rank.
LEMMA AllPositions ==
  ASSUME NEW n \in Nat, NEW i \in 1..n
  PROVE  Position(1..n, i) = i
<1> DEFINE A == 1..n
<1>1. IsFiniteSet(A) /\ A \subseteq Nat /\ i \in A
  BY CountInterval
<1>2. {j \in A : j <= i} = 1..i /\ i \in Nat
  OBVIOUS
<1>3. Cardinality({j \in A : j <= i}) = i
  BY <1>2, CountInterval
<1> HIDE DEF A
<1>4. Position(A, i) = i
  BY <1>1, <1>3, PositionOf
<1> QED
  BY <1>4 DEF A

\* A document without marks shows its outcome, whatever is decided.
LEMMA UnmarkedOutcome ==
  ASSUME NEW d, Typed(d), Marked(d) = {}, NEW A
  PROVE  Shown(d) = Outcome(d, A)
<1>1. ASSUME NEW seg \in Segments
      PROVE  Text(d.segments[seg], A)
               = [i \in DOMAIN d.segments[seg] |-> d.segments[seg][i].cp]
  <2> DEFINE chars == d.segments[seg]
             n == Len(chars)
  <2>1. chars \in Seq(Chars) /\ n \in Nat /\ DOMAIN chars = 1..n
    BY CharsOf DEF Typed
  <2>2. \A i \in DOMAIN chars : Marks(chars[i]) = {}
    BY DEF Marked, MarkedIn
  <2>3. Surviving(chars, A) = 1..n
    BY <2>1, <2>2 DEF Surviving, Survives, Marks
  <2> HIDE DEF chars, n
  <2>4. Text(chars, A) = [i \in 1..n |-> chars[Position(1..n, i)].cp]
    BY <2>1, <2>3, CountInterval DEF Text
  <2>5. \A i \in 1..n : Position(1..n, i) = i
    BY <2>1, AllPositions
  <2>6. Text(chars, A) = [i \in DOMAIN chars |-> chars[i].cp]
    BY <2>1, <2>4, <2>5
  <2> QED
    BY <2>6 DEF chars
<1> QED
  BY <1>1, OutcomeIsText DEF Shown

\* The open cards in some order, each once.
LEMMA IdsListed ==
  ASSUME NEW d, Typed(d), NEW ids, ids = SetToSeq(Open(d))
  PROVE  /\ Len(ids) \in Nat /\ DOMAIN ids = 1..Len(ids)
         /\ \A i \in 1..Len(ids) : ids[i] \in Open(d)
         /\ \A i, j \in 1..Len(ids) : ids[i] = ids[j] => i = j
         /\ \A s \in Open(d) : \E i \in 1..Len(ids) : ids[i] = s
<1> DEFINE n == Cardinality(Open(d))
<1>1. IsFiniteSet(Open(d)) /\ n \in Nat
  BY OpenCount
<1>2. PICK f \in Bijection(1..n, Open(d)) : TRUE
  BY <1>1, FS_CountingElements, FS_NatBijection DEF ExistsBijection
<1>3. f \in [1..n -> Open(d)] /\ IsInjective(f)
  BY <1>2 DEF Bijection, Injection, IsInjective
<1>4. ids \in [1..n -> Open(d)] /\ IsInjective(ids)
  BY <1>3 DEF SetToSeq
<1> HIDE DEF n
<1>5. Len(ids) = n /\ DOMAIN ids = 1..n
  BY <1>1, <1>4
<1>6. ids \in Injection(1..n, Open(d))
  BY <1>4 DEF Injection
<1>7. ids \in Surjection(1..n, Open(d))
  <2>1. IsFiniteSet(1..n) /\ Cardinality(1..n) = n
    BY <1>1, CountInterval
  <2> QED
    BY <1>1, <1>6, <2>1, FS_Injection DEF n
<1>8. \A s \in Open(d) : \E i \in 1..n : ids[i] = s
  BY <1>7 DEF Surjection
<1> QED
  BY <1>1, <1>4, <1>5, <1>8 DEF IsInjective

\* The documents on the way, from the first decision to the n-th.
Decision(d, s, accepted) == IF s \in accepted THEN Accept(d, s) ELSE Reject(d, s)
Decisions(f, d, ids, accepted, n) ==
    f = [k \in 0..n |-> IF k = 0 THEN d ELSE Decision(f[k - 1], ids[k], accepted)]

\* There are as many decisions as asked for.
LEMMA DecisionsExist ==
  ASSUME NEW d, NEW ids, NEW accepted, NEW n \in Nat
  PROVE  \E f : Decisions(f, d, ids, accepted, n)
<1> DEFINE Bad == {m \in Nat : ~ \E f : Decisions(f, d, ids, accepted, m)}
<1>1. SUFFICES ASSUME Bad # {} PROVE FALSE
  OBVIOUS
<1>2. PICK m \in Bad : \A k \in Bad : m <= k
  <2>1. Bad \subseteq Nat
    OBVIOUS
  <2> HIDE DEF Bad
  <2> QED
    BY <1>1, <2>1, LeastNumber
<1>3. m \in Nat /\ ~ \E f : Decisions(f, d, ids, accepted, m)
  OBVIOUS
<1>4. m # 0
  <2> DEFINE f == [k \in 0..0 |-> d]
  <2>1. Decisions(f, d, ids, accepted, 0)
    <3>1. \A k \in 0..0 : k = 0
      OBVIOUS
    <3> QED
      BY <3>1 DEF Decisions
  <2> QED
    BY <1>3, <2>1
<1>5. m - 1 \in Nat /\ m - 1 \notin Bad
  BY <1>2, <1>3, <1>4
<1>6. PICK f : Decisions(f, d, ids, accepted, m - 1)
  BY <1>5
<1> DEFINE g == [k \in 0..m |-> IF k = m THEN Decision(f[m - 1], ids[m], accepted)
                                ELSE f[k]]
<1>7. ASSUME NEW k \in 0..m
      PROVE  g[k] = IF k = 0 THEN d ELSE Decision(g[k - 1], ids[k], accepted)
  <2>0. \A j \in 0..(m - 1) : f[j] = IF j = 0 THEN d
                                    ELSE Decision(f[j - 1], ids[j], accepted)
    BY <1>6 DEF Decisions
  <2>1. CASE k = m
    <3>1. k # 0 /\ k - 1 \in 0..m /\ k - 1 # m
      BY <1>3, <1>4, <2>1
    <3> QED
      BY <2>1, <3>1
  <2>2. CASE k # m
    <3>1. k \in 0..(m - 1) /\ (k # 0 => k - 1 \in 0..m /\ k - 1 # m)
      BY <1>3, <1>4, <2>2
    <3> QED
      BY <2>0, <2>2, <3>1
  <2> QED
    BY <2>1, <2>2
<1>8. Decisions(g, d, ids, accepted, m)
  <2>1. g = [k \in 0..m |-> g[k]]
    OBVIOUS
  <2> HIDE DEF g
  <2> QED
    BY <1>7, <2>1 DEF Decisions
<1> QED
  BY <1>3, <1>8

\* What deciding all comes to is the last of them.
LEMMA DecideAllTurns ==
  ASSUME NEW d, NEW accepted, NEW ids, ids = SetToSeq(Open(d)), Len(ids) \in Nat
  PROVE  \E f : Decisions(f, d, ids, accepted, Len(ids))
                /\ DecideAll(d, accepted) = f[Len(ids)]
<1> DEFINE n == Len(ids)
           f == CHOOSE f : Decisions(f, d, ids, accepted, n)
<1>1. DecideAll(d, accepted) = f[n]
  BY DEF DecideAll, Decisions, Decision
<1>2. Decisions(f, d, ids, accepted, n)
  <2>1. \E h : Decisions(h, d, ids, accepted, n)
    BY DecisionsExist
  <2> QED
    BY <2>1
<1> QED
  BY <1>1, <1>2

\* One decision of many: e is what the first of them have left of d.
Decides(d, e, left, accepted) ==
    /\ DocInv(e) /\ Open(e) \subseteq left
    /\ Outcome(e, accepted \cap left) = Outcome(d, accepted)

\* A decision leaves one card less to decide about.
LEMMA OneDecision ==
  ASSUME NEW d, NEW e, NEW left \in SUBSET Ids, NEW accepted, NEW s \in left,
         Decides(d, e, left, accepted)
  PROVE  Decides(d, Decision(e, s, accepted), left \ {s}, accepted)
<1> DEFINE h == Decision(e, s, accepted)
           A == accepted \cap (left \ {s})
<1>1. Typed(e) /\ DocInv(e) /\ s \in Ids /\ s \notin A
  BY DEF Decides, DocInv
<1>2. DocInv(h)
  BY <1>1, DecisionInv DEF Decision
<1>3. Open(h) \subseteq Open(e) \ {s}
  BY <1>1, AcceptFields, RejectFields DEF Decision
<1>4. Outcome(h, A) = Outcome(e, accepted \cap left)
  <2>1. CASE s \in accepted
    <3>1. A \cup {s} = accepted \cap left
      BY <2>1
    <3> HIDE DEF A
    <3> QED
      BY <1>1, <2>1, <3>1, DecisionsCommute DEF Decision
  <2>2. CASE s \notin accepted
    <3>1. A = accepted \cap left
      BY <2>2
    <3> HIDE DEF A
    <3> QED
      BY <1>1, <2>2, <3>1, DecisionsCommute DEF Decision
  <2> QED
    BY <2>1, <2>2
<1> QED
  BY <1>2, <1>3, <1>4 DEF Decides

\* Deciding all, one after the other, is deciding all at once, and leaves no card.
LEMMA AllDecided ==
  ASSUME NEW d, DocInv(d), NEW accepted
  PROVE  /\ Shown(DecideAll(d, accepted)) = Outcome(d, accepted)
         /\ Open(DecideAll(d, accepted)) = {}
<1> DEFINE ids == SetToSeq(Open(d))
           n == Len(ids)
           Left(k) == {s \in Open(d) : \A i \in 1..k : ids[i] # s}
<1>1. /\ Typed(d) /\ Open(d) \subseteq Ids /\ Marked(d) = Open(d)
      /\ n \in Nat /\ \A i \in 1..n : ids[i] \in Open(d)
      /\ \A i, j \in 1..n : ids[i] = ids[j] => i = j
      /\ \A s \in Open(d) : \E i \in 1..n : ids[i] = s
  <2>1. Typed(d) /\ Open(d) \subseteq Ids /\ Marked(d) = Open(d)
    BY DEF DocInv, Typed
  <2>2. ids = SetToSeq(Open(d))
    OBVIOUS
  <2> HIDE DEF ids
  <2> QED
    BY <2>1, <2>2, IdsListed
<1>2. PICK f : Decisions(f, d, ids, accepted, n) /\ DecideAll(d, accepted) = f[n]
  BY <1>1, DecideAllTurns
<1> HIDE DEF ids, n
<1>3. f[0] = d /\ \A k \in 1..n : f[k] = Decision(f[k - 1], ids[k], accepted)
  BY <1>1, <1>2 DEF Decisions
<1> DEFINE Bad == {k \in 0..n : ~ Decides(d, f[k], Left(k), accepted)}
<1>4. Bad = {}
  <2>1. SUFFICES ASSUME Bad # {} PROVE FALSE
    OBVIOUS
  <2>2. PICK m \in Bad : \A k \in Bad : m <= k
    <3>1. Bad \subseteq Nat
      BY <1>1
    <3> HIDE DEF Bad
    <3> QED
      BY <2>1, <3>1, LeastNumber
  <2>3. m # 0
    <3>1. Left(0) = Open(d)
      OBVIOUS
    <3>2. Outcome(d, accepted \cap Open(d)) = Outcome(d, accepted)
      BY <1>1, OutcomeOfMarked
    <3>3. Decides(d, d, Open(d), accepted)
      BY <3>2 DEF Decides
    <3> QED
      BY <1>3, <3>1, <3>3
  <2>4. m \in 1..n /\ m - 1 \in 0..n /\ m - 1 \notin Bad
    <3>1. m \in 0..n
      OBVIOUS
    <3> HIDE DEF Bad
    <3> QED
      BY <1>1, <2>2, <2>3, <3>1
  <2>5. Decides(d, f[m - 1], Left(m - 1), accepted)
    BY <2>4
  <2>6. ids[m] \in Left(m - 1) /\ Left(m) = Left(m - 1) \ {ids[m]}
    <3>1. \A i \in 1..(m - 1) : i \in 1..n /\ i # m
      BY <1>1, <2>4
    <3>2. \A i \in 1..m : i \in 1..(m - 1) \/ i = m
      BY <1>1, <2>4
    <3>3. m \in 1..m /\ \A i \in 1..(m - 1) : i \in 1..m
      BY <1>1, <2>4
    <3> QED
      BY <1>1, <2>4, <3>1, <3>2, <3>3
  <2>7. Left(m - 1) \in SUBSET Ids
    BY <1>1
  <2> HIDE DEF Left
  <2>8. Decides(d, f[m], Left(m), accepted)
    BY <1>3, <2>4, <2>5, <2>6, <2>7, OneDecision
  <2> QED
    BY <2>2, <2>8
<1>5. Decides(d, f[n], Left(n), accepted)
  <2>1. n \in 0..n
    BY <1>1
  <2> QED
    BY <1>4, <2>1
<1>6. Left(n) = {}
  BY <1>1
<1>7. /\ DocInv(f[n]) /\ Open(f[n]) = {} /\ Outcome(f[n], {}) = Outcome(d, accepted)
  BY <1>5, <1>6 DEF Decides
<1>8. Shown(f[n]) = Outcome(f[n], {})
  BY <1>7, UnmarkedOutcome DEF DocInv
<1> QED
  BY <1>2, <1>7, <1>8

-----------------------------------------------------------------------------
(* Places. *)

\* A set of positions has a first one.
LEMMA FirstOf ==
  ASSUME NEW S, S \subseteq Nat, S # {}
  PROVE  Min(S) \in S
<1>1. \E m \in S : \A y \in S : m <= y
  BY LeastNumber
<1> QED
  BY <1>1 DEF Min

\* A place is a cursor of its segment.
LEMMA AnchorsFit ==
  ASSUME NEW chars \in Seq(Chars), NEW at, at.how \in {"at", "end", "before", "after"}
  PROVE  Anchors(chars, at) \subseteq 0..Len(chars)
<1> DEFINE hits == {i \in DOMAIN chars : chars[i].cp = at.cp}
           L == Len(chars)
<1>1. L \in Nat /\ hits \subseteq 1..L
  BY CharsOf
<1>2. hits # {} => Min(hits) \in 1..L
  <2>1. hits \subseteq Nat
    BY <1>1
  <2> HIDE DEF hits, L
  <2> QED
    BY <1>1, <2>1, FirstOf
<1>3. Anchors(chars, at) = CASE at.how = "at"     -> {at.n} \cap 0..L
                             [] at.how = "end"    -> {L}
                             [] at.how = "before" -> {Min(hits) - 1 : i \in hits}
                             [] at.how = "after"  -> {Min(hits) : i \in hits}
  BY DEF Anchors
<1> HIDE DEF hits, L
<1>4. CASE at.how = "at"
  BY <1>3, <1>4 DEF L
<1>5. CASE at.how = "end"
  <2>1. Anchors(chars, at) = {L}
    BY <1>3, <1>5
  <2> QED
    BY <1>1, <2>1 DEF L
<1>6. CASE at.how = "before"
  <2>1. Anchors(chars, at) = {Min(hits) - 1 : i \in hits}
    BY <1>3, <1>6
  <2>2. hits # {} => Min(hits) - 1 \in 0..L
    BY <1>1, <1>2
  <2> QED
    BY <2>1, <2>2 DEF L
<1>7. CASE at.how = "after"
  <2>1. Anchors(chars, at) = {Min(hits) : i \in hits}
    BY <1>3, <1>7
  <2>2. hits # {} => Min(hits) \in 0..L
    BY <1>1, <1>2
  <2> QED
    BY <2>1, <2>2 DEF L
<1> QED
  BY <1>4, <1>5, <1>6, <1>7

\* What an operation edits is a place of its segment, or a character of it.
LEMMA PlacesFit ==
  ASSUME NEW d, Typed(d), NEW op, WellFormed(op), op.kind \in EditKinds,
         NEW chars, chars = d.segments[op.seg]
  PROVE  /\ op.by \in Authors /\ op.seg \in Segments
         /\ Anchors(chars, op.at) # {} => Min(Anchors(chars, op.at)) \in 0..Len(chars)
         /\ Spans(chars, op.at) # {} =>
              LET i == Min(Spans(chars, op.at))
              IN i \in 0..Len(chars) /\ i + 1 \in 0..Len(chars) /\ i < i + 1
<1>1. /\ op.by \in Authors /\ op.seg \in Segments
      /\ op.at.how \in {"at", "end", "before", "after"}
  BY DEF WellFormed
<1>2. chars \in Seq(Chars) /\ Len(chars) \in Nat
  BY <1>1, CharsOf DEF Typed
<1> DEFINE A == Anchors(chars, op.at)
           S == Spans(chars, op.at)
           L == Len(chars)
<1>3. A \subseteq 0..L /\ S \subseteq A /\ \A i \in S : i < L
  BY <1>1, <1>2, AnchorsFit DEF Spans
<1> HIDE DEF A, S, L
<1>4. L \in Nat /\ 0..L \subseteq Nat
  BY <1>2 DEF L
<1>5. A \subseteq Nat /\ S \subseteq Nat
  BY <1>3, <1>4
<1>6. A # {} => Min(A) \in 0..L
  <2>1. A # {} => Min(A) \in A
    BY <1>5, FirstOf
  <2> QED
    BY <1>3, <2>1
<1>7. S # {} => LET i == Min(S) IN i \in 0..L /\ i + 1 \in 0..L /\ i < i + 1
  <2>1. S # {} => Min(S) \in S
    BY <1>5, FirstOf
  <2>2. S # {} => Min(S) \in 0..L /\ Min(S) < L
    BY <1>3, <2>1
  <2> QED
    BY <1>4, <2>2
<1> QED
  BY <1>1, <1>6, <1>7 DEF A, S, L

-----------------------------------------------------------------------------
(* What an operation does. *)

IsWorld(w) == w = [doc |-> w.doc, threads |-> w.threads]
HasRoom(d, n) == Cardinality(Minted(d)) + n <= MaxSuggestions

\* e has the extremes of d that must not move.
KeepsTo(d, e, keeps) ==
    /\ keeps \subseteq {"original", "final"}
    /\ "original" \in keeps => Original(e) = Original(d)
    /\ "final" \in keeps => Final(e) = Final(d)

\* A document that may follow d, as far as ids go.
Grows(d, e) ==
    DocInv(e) /\ Cardinality(Minted(e)) <= Cardinality(Minted(d)) + PerOp

\* What the handler of an operation promises of the world it leaves behind.
Behaves(w, r) ==
    /\ IsWorld(r.world) /\ Grows(w.doc, r.world.doc) /\ r.ok \in BOOLEAN
    /\ KeepsTo(w.doc, r.world.doc, r.keeps)

LEMMA DoneBehaves ==
  ASSUME NEW w, IsWorld(w), NEW e, Grows(w.doc, e), NEW keeps, KeepsTo(w.doc, e, keeps)
  PROVE  Behaves(w, Done(w, e, keeps))
<1> DEFINE next == [w EXCEPT !.doc = e]
<1>1. IsWorld(next) /\ next.doc = e
  BY DEF IsWorld
<1> HIDE DEF next
<1> QED
  BY <1>1 DEF Done, Behaves, next

\* Without new ids, a document grows in no way.
LEMMA SameIds ==
  ASSUME NEW d, DocInv(d), NEW e, DocInv(e), e.counters = d.counters
  PROVE  Grows(d, e)
<1>1. Minted(e) = Minted(d)
  BY DEF Minted
<1>2. Cardinality(Minted(d)) \in Nat
  BY MintedCount DEF DocInv
<1> QED
  BY <1>1, <1>2 DEF Grows, PerOp

\* An operation that fails changes nothing.
LEMMA RefusedBehaves ==
  ASSUME NEW w, IsWorld(w), DocInv(w.doc)
  PROVE  Behaves(w, Refused(w))
<1>1. Grows(w.doc, w.doc)
  BY SameIds
<1> QED
  BY <1>1 DEF Refused, Behaves, KeepsTo

\* A suggested edit proposes only.
LEMMA EditedBehaves ==
  ASSUME NEW w, IsWorld(w), NEW e, Edited(w.doc, e)
  PROVE  Behaves(w, Done(w, e, {"original"}))
<1>1. Grows(w.doc, e)
  BY DEF Edited, Grows, PerOp
<1>2. Original(e) = Original(w.doc)
  BY DEF Edited, Original
<1>3. KeepsTo(w.doc, e, {"original"})
  BY <1>2 DEF KeepsTo
<1> QED
  BY <1>1, <1>3, DoneBehaves

\* What accepting a card keeps, and what rejecting it keeps.
LEMMA DecisionBehaves ==
  ASSUME NEW w, IsWorld(w), DocInv(w.doc), NEW s \in Open(w.doc)
  PROVE  /\ Behaves(w, Done(w, Accept(w.doc, s), {"final"}))
         /\ Behaves(w, Done(w, Reject(w.doc, s), {"original"}))
<1> DEFINE d == w.doc
           e == Accept(d, s)
           h == Reject(d, s)
<1>1. Typed(d) /\ s \in Ids /\ Marked(d) = Open(d)
  BY DEF DocInv, Typed
<1>2. DocInv(e) /\ DocInv(h)
  BY <1>1, DecisionInv
<1>3. /\ e.counters = d.counters /\ h.counters = d.counters
      /\ Open(e) = (Open(d) \ {s}) \cap Marked(e)
  BY <1>1, AcceptFields, RejectFields
<1>4. Grows(d, e) /\ Grows(d, h)
  BY <1>2, <1>3, SameIds
<1>5. Outcome(e, Open(d) \ {s}) = Outcome(d, Open(d))
  <2>1. (Open(d) \ {s}) \cup {s} = Open(d)
    OBVIOUS
  <2> QED
    BY <1>1, <2>1, DecisionsCommute
<1>6. Outcome(e, Open(e)) = Outcome(e, Open(d) \ {s})
  BY <1>3, OutcomeOfMarked
<1>7. Outcome(h, {}) = Outcome(d, {})
  BY <1>1, DecisionsCommute
<1> HIDE DEF d, e, h
<1>8. KeepsTo(d, e, {"final"}) /\ KeepsTo(d, h, {"original"})
  BY <1>5, <1>6, <1>7 DEF KeepsTo, Original, Final
<1> QED
  BY <1>4, <1>8, DoneBehaves DEF d, e, h

\* What leaves the document alone moves no extreme.
LEMMA SameDocBehaves ==
  ASSUME NEW w, DocInv(w.doc), NEW r, IsWorld(r.world), r.world.doc = w.doc,
         r.ok \in BOOLEAN, r.keeps \subseteq {"original", "final"}
  PROVE  Behaves(w, r)
<1>1. Grows(w.doc, w.doc)
  BY SameIds
<1> QED
  BY <1>1 DEF Behaves, KeepsTo

\* A card decided, unless it is gone already.
LEMMA ResolveBehaves ==
  ASSUME NEW w, IsWorld(w), DocInv(w.doc), NEW op
  PROVE  Behaves(w, ResolveUnderAgent(w, op))
<1> DEFINE d == w.doc
<1>1. CASE op.sid \notin Open(d)
  <2>1. ResolveUnderAgent(w, op) = Done(w, d, DecisionKeeps(op.action))
    BY <1>1 DEF ResolveUnderAgent
  <2>2. KeepsTo(d, d, DecisionKeeps(op.action))
    BY DEF KeepsTo, DecisionKeeps
  <2>3. Grows(d, d)
    BY SameIds
  <2> QED
    BY <2>1, <2>2, <2>3, DoneBehaves
<1>2. CASE op.sid \in Open(d) /\ op.action = "accept"
  <2>1. ResolveUnderAgent(w, op) = Done(w, Accept(d, op.sid), {"final"})
    BY <1>2 DEF ResolveUnderAgent, DecisionKeeps
  <2> QED
    BY <1>2, <2>1, DecisionBehaves
<1>3. CASE op.sid \in Open(d) /\ op.action # "accept"
  <2>1. ResolveUnderAgent(w, op) = Done(w, Reject(d, op.sid), {"original"})
    BY <1>3 DEF ResolveUnderAgent, DecisionKeeps
  <2> QED
    BY <1>3, <2>1, DecisionBehaves
<1> QED
  BY <1>1, <1>2, <1>3

\* A direct edit promises nothing of the extremes.
LEMMA DirectBehaves ==
  ASSUME NEW w, IsWorld(w), DocInv(w.doc), NEW e, DocInv(e),
         e.counters = w.doc.counters
  PROVE  Behaves(w, Done(w, e, {}))
<1>1. Grows(w.doc, e) /\ KeepsTo(w.doc, e, {})
  BY SameIds DEF KeepsTo
<1> QED
  BY <1>1, DoneBehaves

\* Text that shifts what is behind it.
LEMMA ShiftInsertBehaves ==
  ASSUME NEW w, IsWorld(w), DocInv(w.doc), HasRoom(w.doc, PerOp), NEW op,
         WellFormed(op), op.kind = "shift_insert"
  PROVE  Behaves(w, ShiftInsert(w, op))
<1> DEFINE d == w.doc
           chars == d.segments[op.seg]
           places == Anchors(chars, op.at)
           i == Min(places)
<1>1. Typed(d) /\ op.kind \in EditKinds /\ Cardinality(Minted(d)) + 1 <= MaxSuggestions
  <2>1. Typed(d)
    BY DEF DocInv
  <2>2. Cardinality(Minted(d)) \in Nat
    BY <2>1, MintedCount
  <2> QED
    BY <2>1, <2>2, DocAssumption DEF HasRoom, PerOp, EditKinds
<1>2. /\ op.by \in Authors /\ op.seg \in Segments
      /\ places # {} => i \in 0..Len(chars)
  BY <1>1, PlacesFit
<1>3. CASE places = {}
  BY <1>3, RefusedBehaves DEF ShiftInsert
<1>4. CASE places # {} /\ op.suggest
  <2>1. Edited(d, Insert(d, op.seg, i, 1, op.by).doc)
    <3> HIDE DEF i
    <3> QED
      BY <1>1, <1>2, <1>4, InsertEdits
  <2>2. ShiftInsert(w, op) = Done(w, Insert(d, op.seg, i, 1, op.by).doc, {"original"})
    BY <1>4 DEF ShiftInsert
  <2> QED
    BY <2>1, <2>2, EditedBehaves
<1>5. CASE places # {} /\ ~op.suggest
  <2>1. DocInv(EditInsert(d, op.seg, i, 1))
        /\ EditInsert(d, op.seg, i, 1).counters = d.counters
    <3> HIDE DEF i
    <3> QED
      BY <1>1, <1>2, <1>5, EditInsertInv
  <2>2. ShiftInsert(w, op) = Done(w, EditInsert(d, op.seg, i, 1), {})
    BY <1>5 DEF ShiftInsert
  <2> QED
    BY <2>1, <2>2, DirectBehaves
<1> QED
  BY <1>3, <1>4, <1>5

\* Text taken away, with the cards that marked nothing else.
LEMMA ShiftDeleteBehaves ==
  ASSUME NEW w, IsWorld(w), DocInv(w.doc), HasRoom(w.doc, PerOp), NEW op,
         WellFormed(op), op.kind = "shift_delete"
  PROVE  Behaves(w, ShiftDelete(w, op))
<1> DEFINE d == w.doc
           chars == d.segments[op.seg]
           places == Spans(chars, op.at)
           i == Min(places)
<1>1. Typed(d) /\ op.kind \in EditKinds /\ Cardinality(Minted(d)) + 1 <= MaxSuggestions
  <2>1. Typed(d)
    BY DEF DocInv
  <2>2. Cardinality(Minted(d)) \in Nat
    BY <2>1, MintedCount
  <2> QED
    BY <2>1, <2>2, DocAssumption DEF HasRoom, PerOp, EditKinds
<1>2. /\ op.by \in Authors /\ op.seg \in Segments
      /\ places # {} => i \in 0..Len(chars) /\ i + 1 \in 0..Len(chars) /\ i < i + 1
  BY <1>1, PlacesFit
<1>3. CASE places = {}
  BY <1>3, RefusedBehaves DEF ShiftDelete
<1>4. CASE places # {} /\ op.suggest
  <2>1. Edited(d, Delete(d, op.seg, i, i + 1, op.by).doc)
    <3> HIDE DEF i
    <3> QED
      BY <1>1, <1>2, <1>4, DeleteEdits
  <2>2. ShiftDelete(w, op)
          = Done(w, Delete(d, op.seg, i, i + 1, op.by).doc, {"original"})
    BY <1>4 DEF ShiftDelete
  <2> QED
    BY <2>1, <2>2, EditedBehaves
<1>5. CASE places # {} /\ ~op.suggest
  <2>1. DocInv(EditDelete(d, op.seg, i, i + 1))
        /\ EditDelete(d, op.seg, i, i + 1).counters = d.counters
    <3> HIDE DEF i
    <3> QED
      BY <1>1, <1>2, <1>5, EditDeleteInv
  <2>2. ShiftDelete(w, op) = Done(w, EditDelete(d, op.seg, i, i + 1), {})
    BY <1>5 DEF ShiftDelete
  <2> QED
    BY <2>1, <2>2, DirectBehaves
<1> QED
  BY <1>3, <1>4, <1>5

\* A suggestion across those of the other editor.
LEMMA OverlappingBehaves ==
  ASSUME NEW w, IsWorld(w), DocInv(w.doc), HasRoom(w.doc, PerOp), NEW op,
         WellFormed(op), op.kind = "overlapping_suggestion"
  PROVE  Behaves(w, OverlappingSuggestion(w, op))
<1> DEFINE d == w.doc
           chars == d.segments[op.seg]
           cursors == Anchors(chars, op.at)
           spans == Spans(chars, op.at)
<1>1. /\ Typed(d) /\ op.kind \in EditKinds
      /\ Cardinality(Minted(d)) + 1 <= MaxSuggestions
      /\ Cardinality(Minted(d)) + 2 <= MaxSuggestions
  <2>1. Typed(d)
    BY DEF DocInv
  <2>2. Cardinality(Minted(d)) \in Nat
    BY <2>1, MintedCount
  <2> QED
    BY <2>1, <2>2, DocAssumption DEF HasRoom, PerOp, EditKinds
<1>2. /\ op.by \in Authors /\ op.seg \in Segments
      /\ cursors # {} => Min(cursors) \in 0..Len(chars)
      /\ spans # {} => /\ Min(spans) \in 0..Len(chars)
                       /\ Min(spans) + 1 \in 0..Len(chars)
                       /\ Min(spans) < Min(spans) + 1
  BY <1>1, PlacesFit
<1>3. op.mode \in {"insertion", "replacement", "deletion"}
  BY DEF WellFormed
<1> HIDE DEF cursors, spans
<1>4. CASE op.mode = "insertion"
  <2> DEFINE i == Min(cursors)
             e == Insert(d, op.seg, i, 1, op.by).doc
  <2>1. cursors = {} => OverlappingSuggestion(w, op) = Refused(w)
    BY <1>4 DEF OverlappingSuggestion, cursors
  <2>2. cursors # {} => OverlappingSuggestion(w, op) = Done(w, e, {"original"})
    BY <1>4 DEF OverlappingSuggestion, cursors
  <2>3. cursors # {} => Edited(d, e)
    <3> HIDE DEF i
    <3> QED
      BY <1>1, <1>2, InsertEdits DEF i
  <2> QED
    BY <2>1, <2>2, <2>3, RefusedBehaves, EditedBehaves
<1>5. CASE op.mode = "replacement"
  <2> DEFINE i == Min(spans)
             e == Replace(d, op.seg, i, i + 1, 1, op.by).doc
  <2>1. spans = {} => OverlappingSuggestion(w, op) = Refused(w)
    BY <1>5 DEF OverlappingSuggestion, spans
  <2>2. spans # {} => OverlappingSuggestion(w, op) = Done(w, e, {"original"})
    BY <1>5 DEF OverlappingSuggestion, spans
  <2>3. spans # {} => Edited(d, e)
    BY <1>1, <1>2, ReplaceEdits
  <2> QED
    BY <2>1, <2>2, <2>3, RefusedBehaves, EditedBehaves
<1>6. CASE op.mode = "deletion"
  <2> DEFINE i == Min(spans)
             e == Delete(d, op.seg, i, i + 1, op.by).doc
  <2>1. spans = {} => OverlappingSuggestion(w, op) = Refused(w)
    BY <1>6 DEF OverlappingSuggestion, spans
  <2>2. spans # {} => OverlappingSuggestion(w, op) = Done(w, e, {"original"})
    BY <1>6 DEF OverlappingSuggestion, spans
  <2>3. spans # {} => Edited(d, e)
    BY <1>1, <1>2, DeleteEdits
  <2> QED
    BY <2>1, <2>2, <2>3, RefusedBehaves, EditedBehaves
<1> QED
  BY <1>3, <1>4, <1>5, <1>6

\* Text typed at the end of the account's own card.
LEMMA AbsorbBehaves ==
  ASSUME NEW w, IsWorld(w), DocInv(w.doc), HasRoom(w.doc, PerOp), NEW op
  PROVE  Behaves(w, MergeAbsorb(w, op))
<1> DEFINE d == w.doc
           latest == Latest(d, Me)
           s == CHOOSE s \in latest : TRUE
           seg == HomeOf(d, s)
           end == Span(d.segments[seg], s).hi
<1>1. CASE latest = {}
  BY <1>1, RefusedBehaves DEF MergeAbsorb
<1>2. CASE latest # {}
  <2>1. Typed(d) /\ Marked(d) = Open(d) /\ s \in Open(d)
    <3>1. latest \subseteq Open(d)
      BY DEF Latest
    <3>2. s \in latest
      BY <1>2
    <3> QED
      BY <3>1, <3>2 DEF DocInv
  <2>2. Cardinality(Minted(d)) + 1 <= MaxSuggestions
    <3>1. Cardinality(Minted(d)) \in Nat
      BY <2>1, MintedCount
    <3> QED
      BY <3>1, DocAssumption DEF HasRoom, PerOp
  <2>3. MergeAbsorb(w, op) = Done(w, Insert(d, seg, end, 1, Me).doc, {"original"})
    BY <1>2 DEF MergeAbsorb
  <2> HIDE DEF s, latest
  <2>4. seg \in Segments /\ s \in MarkedIn(d.segments[seg])
    <3>1. \E g \in Segments : s \in MarkedIn(d.segments[g])
      BY <2>1 DEF Marked
    <3> QED
      BY <3>1 DEF HomeOf
  <2> HIDE DEF seg
  <2> DEFINE chars == d.segments[seg]
  <2>5. chars \in Seq(Chars) /\ Len(chars) \in Nat
    BY <2>1, <2>4, CharsOf DEF Typed
  <2>6. Where(chars, s) # {}
    BY <2>4 DEF MarkedIn, Where
  <2> HIDE DEF chars
  <2>7. Bounds(Span(chars, s), Where(chars, s)) /\ Where(chars, s) \subseteq 1..Len(chars)
    BY <2>5, <2>6, SpanBounds
  <2>8. end \in 0..Len(chars)
    <3>1. end = Span(chars, s).hi
      BY DEF chars
    <3> HIDE DEF end
    <3>2. end \in Where(chars, s)
      BY <2>7, <3>1 DEF Bounds
    <3> QED
      BY <2>5, <2>7, <3>2
  <2> HIDE DEF end
  <2>9. Me \in Authors
    BY EngineAssumption
  <2>10. Edited(d, Insert(d, seg, end, 1, Me).doc)
    BY <2>2, <2>4, <2>8, <2>9, InsertEdits DEF chars
  <2> QED
    BY <2>3, <2>10, EditedBehaves
<1> QED
  BY <1>1, <1>2

\* A post moves no text.
LEMMA ReplyBehaves ==
  ASSUME NEW w, IsWorld(w), DocInv(w.doc), NEW op
  PROVE  Behaves(w, ReplyThread(w, op))
<1> DEFINE d == w.doc
           both == {"original", "final"}
<1>1. CASE op.on = "suggestion" /\ op.sid \in Open(d)
  <2> DEFINE e == Reply(d, op.sid)
  <2>1. /\ DocInv(e) /\ e.counters = d.counters /\ Open(e) = Open(d)
        /\ e.segments = d.segments
    BY <1>1, ReplyInv
  <2>2. ReplyThread(w, op) = Done(w, e, both)
    BY <1>1 DEF ReplyThread
  <2> HIDE DEF e
  <2>3. \A A : Outcome(e, A) = Outcome(d, A)
    BY <2>1 DEF Outcome
  <2>4. KeepsTo(d, e, both)
    BY <2>1, <2>3 DEF KeepsTo, Original, Final
  <2>5. Grows(d, e)
    BY <2>1, SameIds
  <2> QED
    BY <2>2, <2>4, <2>5, DoneBehaves
<1>2. CASE op.on = "suggestion" /\ op.sid \notin Open(d)
  BY <1>2, RefusedBehaves DEF ReplyThread
<1>3. CASE op.on # "suggestion" /\ op.comment \notin DOMAIN w.threads
  BY <1>3, RefusedBehaves DEF ReplyThread
<1>4. CASE op.on # "suggestion" /\ op.comment \in DOMAIN w.threads
  <2> DEFINE next == [w EXCEPT !.threads[op.comment].posts = Append(@, op.by)]
  <2>1. IsWorld(next) /\ next.doc = w.doc
    BY DEF IsWorld
  <2>2. ReplyThread(w, op) = [world |-> next, ok |-> TRUE, keeps |-> both]
    BY <1>4 DEF ReplyThread
  <2> HIDE DEF next
  <2>3. /\ ReplyThread(w, op).world = next /\ ReplyThread(w, op).ok \in BOOLEAN
        /\ ReplyThread(w, op).keeps \subseteq both
    BY <2>2
  <2> QED
    BY <2>1, <2>3, SameDocBehaves
<1> QED
  BY <1>1, <1>2, <1>3, <1>4

\* Comment threads are no part of the document.
LEMMA ThreadBehaves ==
  ASSUME NEW w, IsWorld(w), DocInv(w.doc), NEW op
  PROVE  Behaves(w, ResolveThread(w, op)) /\ Behaves(w, CommentThread(w, op))
<1>1. /\ IsWorld(ResolveThread(w, op).world)
      /\ ResolveThread(w, op).world.doc = w.doc
      /\ ResolveThread(w, op).ok \in BOOLEAN
      /\ ResolveThread(w, op).keeps = {"original", "final"}
  BY DEF ResolveThread, IsWorld
<1>2. /\ IsWorld(CommentThread(w, op).world)
      /\ CommentThread(w, op).world.doc = w.doc
      /\ CommentThread(w, op).ok \in BOOLEAN
      /\ CommentThread(w, op).keeps = {"original", "final"}
  BY DEF CommentThread, IsWorld
<1> QED
  BY <1>1, <1>2, SameDocBehaves

\* Every operation of the catalogue keeps what it promises.
LEMMA HandledBehaves ==
  ASSUME NEW w, IsWorld(w), DocInv(w.doc), HasRoom(w.doc, PerOp), NEW op,
         WellFormed(op)
  PROVE  Behaves(w, Handled(w, op))
<1>1. CASE op.kind = "resolve_under_agent"
  BY <1>1, ResolveBehaves DEF Handled
<1>2. CASE op.kind = "shift_insert"
  BY <1>2, ShiftInsertBehaves DEF Handled
<1>3. CASE op.kind = "shift_delete"
  BY <1>3, ShiftDeleteBehaves DEF Handled
<1>4. CASE op.kind = "resolve_thread"
  BY <1>4, ThreadBehaves DEF Handled
<1>5. CASE op.kind = "overlapping_suggestion"
  BY <1>5, OverlappingBehaves DEF Handled
<1>6. CASE op.kind = "merge_absorb"
  BY <1>6, AbsorbBehaves DEF Handled
<1>7. CASE op.kind = "reply_thread"
  BY <1>7, ReplyBehaves DEF Handled
<1>8. CASE op.kind = "comment"
  BY <1>8, ThreadBehaves DEF Handled
<1>9. CASE op.kind = "none"
  <2>1. DocInv(w.doc) /\ w.doc.counters = w.doc.counters
    OBVIOUS
  <2>2. Handled(w, op) = Done(w, w.doc, {})
    BY <1>9 DEF Handled
  <2> QED
    BY <2>1, <2>2, DirectBehaves
<1> QED
  BY <1>1, <1>2, <1>3, <1>4, <1>5, <1>6, <1>7, <1>8, <1>9 DEF WellFormed, OpKinds

\* What behaves breaks no rule.
LEMMA CheckModelHolds ==
  ASSUME NEW w, NEW r, Behaves(w, r)
  PROVE  CheckModel(w.doc, r.world.doc, r.keeps) = {}
<1> DEFINE d == w.doc
           e == r.world.doc
           rules == {"I1 I2", "L1 accepted", "L1 rejected", "L5"}
<1>1. DocInv(e) /\ Marked(e) = Open(e) /\ KeepsTo(d, e, r.keeps)
  BY DEF Behaves, Grows, DocInv
<1> HIDE DEF e, d
<1>2. \A accepted : /\ Shown(DecideAll(e, accepted)) = Outcome(e, accepted)
                    /\ Open(DecideAll(e, accepted)) = {}
  BY <1>1, AllDecided
<1>3. \A rule \in rules : ~ Broken(rule, d, e)
  BY <1>1, <1>2 DEF Broken
<1>4. \A rule \in r.keeps : ~ Broken(rule, d, e)
  BY <1>1 DEF Broken, KeepsTo
<1> QED
  BY <1>3, <1>4 DEF CheckModel, d, e

-----------------------------------------------------------------------------
(* The operations the backend is seeded with. *)

\* The worlds on the way.
Playing(f, w, ops, n) ==
    f = [k \in 0..n |-> IF k = 0 THEN w ELSE Handled(f[k - 1], ops[k]).world]

\* Any number of operations can be played.
LEMMA PlayingsExist ==
  ASSUME NEW w, NEW ops, NEW n \in Nat
  PROVE  \E f : Playing(f, w, ops, n)
<1> DEFINE Bad == {m \in Nat : ~ \E f : Playing(f, w, ops, m)}
<1>1. SUFFICES ASSUME Bad # {} PROVE FALSE
  OBVIOUS
<1>2. PICK m \in Bad : \A k \in Bad : m <= k
  <2>1. Bad \subseteq Nat
    OBVIOUS
  <2> HIDE DEF Bad
  <2> QED
    BY <1>1, <2>1, LeastNumber
<1>3. m \in Nat /\ ~ \E f : Playing(f, w, ops, m)
  OBVIOUS
<1>4. m # 0
  <2> DEFINE f == [k \in 0..0 |-> w]
  <2>1. Playing(f, w, ops, 0)
    <3>1. \A k \in 0..0 : k = 0
      OBVIOUS
    <3> QED
      BY <3>1 DEF Playing
  <2> QED
    BY <1>3, <2>1
<1>5. m - 1 \in Nat /\ m - 1 \notin Bad
  BY <1>2, <1>3, <1>4
<1>6. PICK f : Playing(f, w, ops, m - 1)
  BY <1>5
<1> DEFINE g == [k \in 0..m |-> IF k = m THEN Handled(f[m - 1], ops[m]).world
                                ELSE f[k]]
<1>7. ASSUME NEW k \in 0..m
      PROVE  g[k] = IF k = 0 THEN w ELSE Handled(g[k - 1], ops[k]).world
  <2>0. \A j \in 0..(m - 1) : f[j] = IF j = 0 THEN w ELSE Handled(f[j - 1], ops[j]).world
    BY <1>6 DEF Playing
  <2>1. CASE k = m
    <3>1. k # 0 /\ k - 1 \in 0..m /\ k - 1 # m
      BY <1>3, <1>4, <2>1
    <3> QED
      BY <2>1, <3>1
  <2>2. CASE k # m
    <3>1. k \in 0..(m - 1) /\ (k # 0 => k - 1 \in 0..m /\ k - 1 # m)
      BY <1>3, <1>4, <2>2
    <3> QED
      BY <2>0, <2>2, <3>1
  <2> QED
    BY <2>1, <2>2
<1>8. Playing(g, w, ops, m)
  <2>1. g = [k \in 0..m |-> g[k]]
    OBVIOUS
  <2> HIDE DEF g
  <2> QED
    BY <1>7, <2>1 DEF Playing
<1> QED
  BY <1>3, <1>8

LEMMA PlayedTurns ==
  ASSUME NEW w, NEW ops, Len(ops) \in Nat
  PROVE  \E f : Playing(f, w, ops, Len(ops)) /\ Played(w, ops) = f[Len(ops)]
<1> DEFINE n == Len(ops)
           f == CHOOSE f : Playing(f, w, ops, n)
<1>1. Played(w, ops) = f[n]
  BY DEF Played, Playing
<1>2. Playing(f, w, ops, n)
  <2>1. \E h : Playing(h, w, ops, n)
    BY PlayingsExist
  <2> QED
    BY <2>1
<1> QED
  BY <1>1, <1>2

\* Where playing leads, ids permitting.
Leads(w, n, r) ==
    /\ IsWorld(r) /\ DocInv(r.doc)
    /\ Cardinality(Minted(r.doc)) <= Cardinality(Minted(w.doc)) + PerOp * n

LEMMA PlayedLeads ==
  ASSUME NEW w, IsWorld(w), DocInv(w.doc), NEW ops, Len(ops) \in Nat,
         \A k \in 1..Len(ops) : WellFormed(ops[k]), HasRoom(w.doc, PerOp * Len(ops))
  PROVE  Leads(w, Len(ops), Played(w, ops))
<1> DEFINE n == Len(ops)
           c == Cardinality(Minted(w.doc))
<1>1. PICK f : Playing(f, w, ops, n) /\ Played(w, ops) = f[n]
  BY PlayedTurns
<1>2. f[0] = w /\ \A k \in 1..n : f[k] = Handled(f[k - 1], ops[k]).world
  BY <1>1 DEF Playing
<1>3. c \in Nat
  BY MintedCount DEF DocInv
<1>4. Leads(w, 0, w)
  BY <1>3 DEF Leads, PerOp
<1> DEFINE Bad == {k \in 0..n : ~ Leads(w, k, f[k])}
<1>5. Bad = {}
  <2>1. SUFFICES ASSUME Bad # {} PROVE FALSE
    OBVIOUS
  <2>2. PICK m \in Bad : \A k \in Bad : m <= k
    <3>1. Bad \subseteq Nat
      OBVIOUS
    <3> HIDE DEF Bad
    <3> QED
      BY <2>1, <3>1, LeastNumber
  <2>3. m \in 0..n /\ m # 0
    BY <1>2, <1>4
  <2>4. m \in 1..n /\ m - 1 \in 0..n /\ m - 1 \notin Bad
    <3> HIDE DEF Bad
    <3> QED
      BY <2>2, <2>3
  <2> DEFINE e == f[m - 1]
             r == Handled(e, ops[m])
             b == Cardinality(Minted(e.doc))
             a == Cardinality(Minted(r.world.doc))
  <2>5. IsWorld(e) /\ DocInv(e.doc) /\ b <= c + PerOp * (m - 1)
    BY <2>4 DEF Leads
  <2>6. b \in Nat
    BY <2>5, MintedCount DEF DocInv
  <2>7. HasRoom(e.doc, PerOp)
    <3>1. c + PerOp * n <= MaxSuggestions
      BY DEF HasRoom
    <3> HIDE DEF b, c, e
    <3>2. b + PerOp <= MaxSuggestions
      BY <1>3, <2>4, <2>5, <2>6, <3>1, DocAssumption DEF PerOp
    <3> QED
      BY <3>2 DEF HasRoom, b
  <2>8. WellFormed(ops[m])
    BY <2>4
  <2>9. Behaves(e, r)
    <3> HIDE DEF e
    <3> QED
      BY <2>5, <2>7, <2>8, HandledBehaves
  <2>10. r.world = f[m]
    BY <1>2, <2>4
  <2> HIDE DEF e, r
  <2>11. IsWorld(r.world) /\ DocInv(r.world.doc) /\ a <= b + PerOp
    BY <2>9 DEF Behaves, Grows
  <2>12. a \in Nat
    BY <2>11, MintedCount DEF DocInv
  <2>13. a <= c + PerOp * m
    <3> HIDE DEF a, b, c
    <3> QED
      BY <1>3, <2>3, <2>5, <2>6, <2>11, <2>12 DEF PerOp
  <2>14. Leads(w, m, f[m])
    BY <2>10, <2>11, <2>13 DEF Leads
  <2> QED
    BY <2>2, <2>14
<1>6. n \in 0..n
  OBVIOUS
<1> QED
  BY <1>1, <1>5, <1>6

\* The seeded document is one the rules hold of.
LEMMA SeededWell ==
  IsWorld(Seeded) /\ DocInv(Seeded.doc)
<1> DEFINE w == [doc |-> InitialDoc, threads |-> <<>>]
           n == Len(Seed)
<1>1. IsWorld(w) /\ w.doc = InitialDoc
  BY DEF IsWorld
<1>2. DocInv(w.doc)
  BY InitInv
<1>3. n \in Nat /\ DOMAIN Seed = 1..n
  <2> DEFINE S == ToSet(Seed)
  <2>1. Seed \in Seq(S)
    BY EngineAssumption
  <2> HIDE DEF S
  <2> QED
    BY <2>1
<1>4. Cardinality(Minted(w.doc)) = 0
  <2>1. \A s \in Ids : s[1] \in Authors /\ s[2] \in 1..MaxSuggestions
    BY DEF Ids
  <2>2. \A s \in Ids : ~(s[2] <= 0)
    BY <2>1, DocAssumption
  <2>3. w.doc.counters = [a \in Authors |-> 0]
    BY DEF InitialDoc
  <2>4. Minted(w.doc) = {}
    BY <2>1, <2>2, <2>3 DEF Minted, AuthorOf
  <2> QED
    BY <2>4, FS_EmptySet
<1>5. HasRoom(w.doc, PerOp * n)
  <2>1. PerOp * n \in Nat
    BY <1>3 DEF PerOp
  <2> QED
    BY <1>4, <2>1, EngineAssumption DEF HasRoom
<1>6. \A k \in 1..n : WellFormed(Seed[k])
  BY <1>3, EngineAssumption
<1> HIDE DEF w
<1>7. Leads(w, n, Played(w, Seed))
  BY <1>1, <1>2, <1>3, <1>5, <1>6, PlayedLeads
<1> QED
  BY <1>7 DEF Leads, Seeded, w

-----------------------------------------------------------------------------
(* What the record tells: playing operations one after the other. *)

\* Playing one operation more.
LEMMA PlayedMore ==
  ASSUME NEW w, NEW ops, Len(ops) \in Nat, NEW more, Len(more) = Len(ops) + 1,
         \A k \in 1..Len(ops) : more[k] = ops[k]
  PROVE  Played(w, more) = Handled(Played(w, ops), more[Len(ops) + 1]).world
<1> DEFINE n == Len(ops)
<1>1. n \in Nat /\ Len(more) = n + 1 /\ \A k \in 1..n : more[k] = ops[k]
  OBVIOUS
<1>2. PICK f : Playing(f, w, ops, n) /\ Played(w, ops) = f[n]
  BY PlayedTurns
<1>3. PICK g : Playing(g, w, more, n + 1) /\ Played(w, more) = g[n + 1]
  BY <1>1, PlayedTurns
<1> HIDE DEF n
<1>4. f[0] = w /\ \A k \in 1..n : f[k] = Handled(f[k - 1], ops[k]).world
  BY <1>1, <1>2 DEF Playing
<1>5. g[0] = w /\ \A k \in 1..(n + 1) : g[k] = Handled(g[k - 1], more[k]).world
  BY <1>1, <1>3 DEF Playing
<1> DEFINE Bad == {k \in 0..n : f[k] # g[k]}
<1>6. Bad = {}
  <2>1. SUFFICES ASSUME Bad # {} PROVE FALSE
    OBVIOUS
  <2>2. PICK m \in Bad : \A k \in Bad : m <= k
    <3>1. Bad \subseteq Nat
      BY <1>1
    <3> HIDE DEF Bad
    <3> QED
      BY <2>1, <3>1, LeastNumber
  <2>3. m \in 0..n /\ m # 0
    BY <1>4, <1>5
  <2>4. m \in 1..n /\ m \in 1..(n + 1) /\ m - 1 \in 0..n /\ m - 1 \notin Bad
    <3> HIDE DEF Bad
    <3> QED
      BY <1>1, <2>2, <2>3
  <2>5. f[m - 1] = g[m - 1]
    BY <2>4
  <2>6. f[m] = g[m]
    BY <1>1, <1>4, <1>5, <2>4, <2>5
  <2> QED
    BY <2>2, <2>6
<1>7. n \in 0..n /\ n + 1 \in 1..(n + 1) /\ (n + 1) - 1 = n
  BY <1>1
<1>8. f[n] = g[n]
  BY <1>6, <1>7
<1>9. g[n + 1] = Handled(g[n], more[n + 1]).world
  BY <1>5, <1>7
<1> QED
  BY <1>2, <1>3, <1>8, <1>9 DEF n

\* Playing nothing, and playing one.
LEMMA PlayedFew ==
  ASSUME NEW w, NEW op
  PROVE  Played(w, <<>>) = w /\ Played(w, <<op>>) = Handled(w, op).world
<1>1. Played(w, <<>>) = w
  <2>1. Len(<<>>) = 0
    OBVIOUS
  <2>2. PICK f : Playing(f, w, <<>>, 0) /\ Played(w, <<>>) = f[0]
    BY <2>1, PlayedTurns
  <2> QED
    BY <2>2 DEF Playing
<1>2. /\ Len(<<>>) = 0 /\ Len(<<op>>) = 1 /\ <<op>>[1] = op
      /\ \A k \in 1..0 : <<op>>[k] = <<>>[k]
  OBVIOUS
<1>3. Played(w, <<op>>) = Handled(Played(w, <<>>), <<op>>[Len(<<>>) + 1]).world
  <2> DEFINE ops == <<>>
             more == <<op>>
  <2>1. /\ Len(ops) = 0 /\ Len(more) = Len(ops) + 1
        /\ \A k \in 1..Len(ops) : more[k] = ops[k]
    BY <1>2
  <2> HIDE DEF ops, more
  <2>2. Len(ops) \in Nat
    BY <2>1
  <2>3. Played(w, more) = Handled(Played(w, ops), more[Len(ops) + 1]).world
    BY <2>1, <2>2, PlayedMore
  <2> QED
    BY <2>3 DEF ops, more
<1> QED
  BY <1>1, <1>2, <1>3

\* A number behind a set takes the last position.
LEMMA LastPosition ==
  ASSUME NEW A, IsFiniteSet(A), A \subseteq Nat, NEW n \in Nat, \A i \in A : i < n
  PROVE  /\ Cardinality(A) \in Nat /\ Cardinality(A \cup {n}) = Cardinality(A) + 1
         /\ \A k \in 1..Cardinality(A) : Position(A \cup {n}, k) = Position(A, k)
         /\ Position(A \cup {n}, Cardinality(A) + 1) = n
<1> DEFINE T == A \cup {n}
<1>1. n \notin A /\ Cardinality(A) \in Nat
  BY FS_CardinalityType
<1>2. IsFiniteSet(T) /\ Cardinality(T) = Cardinality(A) + 1
  BY <1>1, FS_AddElement
<1>3. T \subseteq Nat /\ A \subseteq T /\ n \in T
  OBVIOUS
<1>4. {j \in T : j <= n} = T
  <2>1. \A j \in T : j <= n
    BY <1>1
  <2> QED
    BY <2>1
<1>5. ASSUME NEW i \in A
      PROVE  {j \in T : j <= i} = {j \in A : j <= i}
  <2>1. ~(n <= i)
    BY <1>5
  <2> QED
    BY <2>1
<1> HIDE DEF T
<1>6. \A i \in T : Position(T, Cardinality({j \in T : j <= i})) = i
  BY <1>2, <1>3, PositionOf
<1>7. Position(T, Cardinality(T)) = n
  BY <1>3, <1>4, <1>6
<1>8. ASSUME NEW k \in 1..Cardinality(A)
      PROVE  Position(T, k) = Position(A, k)
  <2>1. /\ Position(A, k) \in A
        /\ Cardinality({j \in A : j <= Position(A, k)}) = k
    BY PositionOf
  <2>2. Cardinality({j \in T : j <= Position(A, k)}) = k
    BY <1>5, <2>1
  <2> QED
    BY <1>3, <1>6, <2>1, <2>2
<1> QED
  BY <1>1, <1>2, <1>7, <1>8 DEF T

\* What is kept of a list is a list.
LEMMA KeptLength ==
  ASSUME NEW items, NEW A, IsFiniteSet(A), NEW kept, kept = Kept(items, A)
  PROVE  /\ Len(kept) = Cardinality(A) /\ Len(kept) \in Nat
         /\ \A k \in 1..Cardinality(A) : kept[k] = items[Position(A, k)]
<1> DEFINE c == Cardinality(A)
           S == {items[Position(A, k)] : k \in 1..c}
<1>1. c \in Nat
  BY FS_CardinalityType
<1>2. kept = [k \in 1..c |-> items[Position(A, k)]]
  BY DEF Kept
<1>3. kept \in [1..c -> S]
  BY <1>2
<1> HIDE DEF c, S
<1>4. kept \in Seq(S) /\ Len(kept) = c
  BY <1>1, <1>3
<1>5. \A k \in 1..c : kept[k] = items[Position(A, k)]
  BY <1>2
<1> QED
  BY <1>1, <1>4, <1>5 DEF c

\* The entries of a record that tell of a phase of a call.
Telling(fired, phase, n) ==
    {k \in DOMAIN fired : fired[k].at = n /\ fired[k].when = phase /\ fired[k].ok}
Tells(entry, phase, n) == entry.at = n /\ entry.when = phase /\ entry.ok

\* A record that tells of one operation more is played with that one more.
LEMMA ToldMore ==
  ASSUME NEW rec, NEW E, rec.fired \in Seq(E), NEW entry \in E,
         NEW now, now.fired = Append(rec.fired, entry), NEW phase, NEW n
  PROVE  /\ ~Tells(entry, phase, n) =>
              OpsIn(script, now, phase, n) = OpsIn(script, rec, phase, n)
         /\ Tells(entry, phase, n) => \A w :
              Played(w, OpsIn(script, now, phase, n))
                = Handled(Played(w, OpsIn(script, rec, phase, n)),
                          OpOf(script, entry.name)).world
<1> DEFINE fired == rec.fired
           more == now.fired
           L == Len(fired)
           A == Telling(fired, phase, n)
           B == Telling(more, phase, n)
           Ops(f) == [k \in DOMAIN f |-> OpOf(script, f[k].name)]
           items == Ops(fired)
           longer == Ops(more)
<1>1. /\ L \in Nat /\ DOMAIN fired = 1..L /\ DOMAIN more = 1..(L + 1)
      /\ more[L + 1] = entry /\ \A k \in 1..L : more[k] = fired[k]
  OBVIOUS
<1>2. /\ OpsIn(script, rec, phase, n) = Kept(items, A)
      /\ OpsIn(script, now, phase, n) = Kept(longer, B)
  BY DEF OpsIn, Telling
<1> HIDE DEF fired, more, L
<1>3. /\ \A k \in 1..(L + 1) : k \in 1..L \/ k = L + 1
      /\ \A k \in 1..L : k \in 1..(L + 1) /\ k < L + 1 /\ k \in Nat
      /\ L + 1 \in 1..(L + 1) /\ L + 1 \in Nat
  BY <1>1
<1>4. A \subseteq 1..L /\ A \subseteq Nat /\ \A k \in A : k < L + 1
  BY <1>1, <1>3 DEF Telling
<1>5. IsFiniteSet(A)
  <2>1. IsFiniteSet(1..L)
    BY <1>1, CountInterval
  <2> QED
    BY <1>4, <2>1, FS_Subset
<1>6. B = IF Tells(entry, phase, n) THEN A \cup {L + 1} ELSE A
  BY <1>1, <1>3 DEF Telling, Tells
<1>7. /\ \A k \in 1..L : longer[k] = items[k]
      /\ longer[L + 1] = OpOf(script, entry.name)
  BY <1>1, <1>3
<1> HIDE DEF A, B, items, longer
<1>8. ASSUME ~Tells(entry, phase, n)
      PROVE  Kept(longer, B) = Kept(items, A)
  <2>1. B = A
    BY <1>6, <1>8
  <2>2. \A k \in 1..Cardinality(A) : Position(A, k) \in 1..L
    BY <1>4, <1>5, PositionOf
  <2> QED
    BY <1>7, <2>1, <2>2 DEF Kept
<1>9. ASSUME Tells(entry, phase, n), NEW w
      PROVE  Played(w, Kept(longer, B))
               = Handled(Played(w, Kept(items, A)), OpOf(script, entry.name)).world
  <2> DEFINE c == Cardinality(A)
             ops == Kept(items, A)
             next == Kept(longer, B)
  <2>1. /\ c \in Nat /\ Cardinality(B) = c + 1
        /\ \A k \in 1..c : Position(B, k) = Position(A, k)
        /\ Position(B, c + 1) = L + 1
    BY <1>3, <1>4, <1>5, <1>6, <1>9, LastPosition
  <2>2. IsFiniteSet(B)
    BY <1>5, <1>6, <1>9, FS_AddElement
  <2>3. /\ Len(ops) = c /\ \A k \in 1..c : ops[k] = items[Position(A, k)]
    BY <1>5, KeptLength
  <2>4. /\ Len(next) = Cardinality(B)
        /\ \A k \in 1..Cardinality(B) : next[k] = longer[Position(B, k)]
    BY <2>2, KeptLength
  <2>5. \A k \in 1..c : Position(A, k) \in 1..L
    BY <1>4, <1>5, PositionOf
  <2> HIDE DEF c, ops, next
  <2>6. /\ c + 1 \in 1..(c + 1) /\ \A k \in 1..c : k \in 1..(c + 1)
    BY <2>1
  <2>7. /\ \A k \in 1..c : next[k] = ops[k]
        /\ next[c + 1] = OpOf(script, entry.name)
    BY <1>7, <2>1, <2>3, <2>4, <2>5, <2>6
  <2>8. Played(w, next) = Handled(Played(w, ops), next[Len(ops) + 1]).world
    <3>1. /\ Len(ops) \in Nat /\ Len(next) = Len(ops) + 1
          /\ \A k \in 1..Len(ops) : next[k] = ops[k]
      BY <2>1, <2>3, <2>4, <2>7
    <3> QED
      BY <3>1, PlayedMore
  <2>9. Played(w, next) = Handled(Played(w, ops), OpOf(script, entry.name)).world
    BY <2>3, <2>7, <2>8
  <2> QED
    BY <2>9 DEF ops, next
<1> QED
  BY <1>2, <1>8, <1>9

\* Nothing is told of a phase of which no entry tells.
LEMMA ToldNothing ==
  ASSUME NEW rec, NEW phase, NEW n, Telling(rec.fired, phase, n) = {}
  PROVE  OpsIn(script, rec, phase, n) = <<>>
<1> DEFINE items == [k \in DOMAIN rec.fired |-> OpOf(script, rec.fired[k].name)]
<1>1. OpsIn(script, rec, phase, n) = Kept(items, {})
  BY DEF OpsIn, Telling
<1>2. Cardinality({}) = 0
  BY FS_EmptySet
<1> HIDE DEF items
<1>3. Kept(items, {}) = [k \in 1..0 |-> items[Position({}, k)]]
  BY <1>2 DEF Kept
<1>4. [k \in 1..0 |-> items[Position({}, k)]] = <<>>
  OBVIOUS
<1> QED
  BY <1>1, <1>3, <1>4

\* An operation that cannot be applied leaves the world alone.
LEMMA NotApplied ==
  ASSUME NEW w, NEW op, op.kind \in OpKinds, ~Handled(w, op).ok
  PROVE  Handled(w, op).world = w
<1>1. CASE op.kind = "resolve_under_agent"
  BY <1>1 DEF Handled, ResolveUnderAgent, Done
<1>2. CASE op.kind = "shift_insert"
  BY <1>2 DEF Handled, ShiftInsert, Done, Refused
<1>3. CASE op.kind = "shift_delete"
  BY <1>3 DEF Handled, ShiftDelete, Done, Refused
<1>4. CASE op.kind = "resolve_thread"
  BY <1>4 DEF Handled, ResolveThread
<1>5. CASE op.kind = "overlapping_suggestion"
  <2> DEFINE chars == w.doc.segments[op.seg]
             places == IF op.mode = "insertion" THEN Anchors(chars, op.at)
                       ELSE Spans(chars, op.at)
  <2>1. CASE places = {}
    BY <1>5, <2>1 DEF Handled, OverlappingSuggestion, Refused
  <2>2. CASE places # {}
    BY <1>5, <2>2 DEF Handled, OverlappingSuggestion, Done
  <2> QED
    BY <2>1, <2>2
<1>6. CASE op.kind = "merge_absorb"
  BY <1>6 DEF Handled, MergeAbsorb, Done, Refused
<1>7. CASE op.kind = "reply_thread"
  BY <1>7 DEF Handled, ReplyThread, Done, Refused
<1>8. CASE op.kind = "comment"
  BY <1>8 DEF Handled, CommentThread
<1>9. CASE op.kind = "none"
  BY <1>9 DEF Handled, Done
<1> QED
  BY <1>1, <1>2, <1>3, <1>4, <1>5, <1>6, <1>7, <1>8, <1>9 DEF OpKinds

-----------------------------------------------------------------------------
(* Counting calls. *)

\* The k-th of a set of numbers, or none.
Nth(S, k) == {n \in S : Cardinality({m \in S : m <= n}) = k}

\* What comes last is the k-th if it makes k of them, and moves no other.
LEMMA NthStays ==
  ASSUME NEW S, S \subseteq Nat, IsFiniteSet(S), NEW n \in Nat, \A m \in S : m < n,
         NEW k \in Nat \ {0}
  PROVE  /\ Cardinality(S) \in Nat /\ IsFiniteSet(S \cup {n})
         /\ Cardinality(S \cup {n}) = Cardinality(S) + 1
         /\ Nth(S, k) # {} => Nth(S \cup {n}, k) = Nth(S, k)
         /\ Cardinality(S) + 1 = k => Nth(S \cup {n}, k) = {n}
<1> DEFINE T == S \cup {n}
<1>1. n \notin S /\ Cardinality(S) \in Nat
  BY FS_CardinalityType
<1>2. IsFiniteSet(T) /\ Cardinality(T) = Cardinality(S) + 1
  BY <1>1, FS_AddElement
<1>3. {m \in T : m <= n} = T
  <2>1. \A m \in T : m <= n
    BY <1>1
  <2> QED
    BY <2>1
<1>4. ASSUME NEW m \in S
      PROVE  /\ {j \in T : j <= m} = {j \in S : j <= m}
             /\ Cardinality({j \in S : j <= m}) <= Cardinality(S)
             /\ Cardinality({j \in S : j <= m}) \in Nat
  <2>1. {j \in T : j <= m} = {j \in S : j <= m}
    <3>1. ~(n <= m)
      BY <1>4
    <3> QED
      BY <3>1
  <2>2. {j \in S : j <= m} \subseteq S
    OBVIOUS
  <2> QED
    BY <2>1, <2>2, FS_Subset, FS_CardinalityType
<1> HIDE DEF T
<1>5. Nth(S, k) # {} => Nth(T, k) = Nth(S, k)
  <2>1. SUFFICES ASSUME NEW m \in Nth(S, k) PROVE Nth(T, k) = Nth(S, k)
    OBVIOUS
  <2>2. m \in S /\ k = Cardinality({j \in S : j <= m})
    BY <2>1 DEF Nth
  <2>3. k # Cardinality(T)
    BY <1>1, <1>2, <1>4, <2>2
  <2>4. \A j \in T : Cardinality({i \in T : i <= j}) = k
          <=> j \in S /\ Cardinality({i \in S : i <= j}) = k
    BY <1>3, <1>4, <2>3 DEF T
  <2>5. S \subseteq T
    BY DEF T
  <2> QED
    BY <2>4, <2>5 DEF Nth
<1>6. Cardinality(S) + 1 = k => Nth(T, k) = {n}
  <2>1. SUFFICES ASSUME Cardinality(S) + 1 = k PROVE Nth(T, k) = {n}
    OBVIOUS
  <2>2. ASSUME NEW j \in S
        PROVE  Cardinality({i \in T : i <= j}) # k
    <3>1. /\ Cardinality({i \in T : i <= j}) <= Cardinality(S)
          /\ Cardinality({i \in T : i <= j}) \in Nat
      BY <1>4
    <3> QED
      BY <1>1, <2>1, <3>1
  <2>3. Cardinality({i \in T : i <= n}) = k /\ n \in T
    BY <1>2, <1>3, <2>1 DEF T
  <2>4. \A j \in T : j \in S \/ j = n
    BY DEF T
  <2> QED
    BY <2>2, <2>3, <2>4 DEF Nth
<1> QED
  BY <1>1, <1>2, <1>5, <1>6 DEF T

\* Fewer than k numbers have no k-th.
LEMMA NthMissing ==
  ASSUME NEW S, IsFiniteSet(S), NEW k \in Nat, Cardinality(S) < k
  PROVE  Nth(S, k) = {}
<1>1. ASSUME NEW n \in S
      PROVE  Cardinality({m \in S : m <= n}) # k
  <2>1. {m \in S : m <= n} \subseteq S
    OBVIOUS
  <2>2. /\ Cardinality({m \in S : m <= n}) <= Cardinality(S)
        /\ Cardinality({m \in S : m <= n}) \in Nat /\ Cardinality(S) \in Nat
    BY <2>1, FS_Subset, FS_CardinalityType
  <2> QED
    BY <2>2
<1> QED
  BY <1>1 DEF Nth

-----------------------------------------------------------------------------
(* The engine between two interferences. *)

Names == {script[i].name : i \in DOMAIN script}
Phases == {"before", "after"}
Answers == {"none", "ok", "error"}
Calls == [tool : {c.tool : c \in CallMenu}, op : {c.op : c \in CallMenu},
          answer : Answers]
Rules == {"I1 I2", "L1 accepted", "L1 rejected", "L5", "original", "final",
          "failed to apply"}
Entries == [name : Names, when : Phases, at : Nat, ok : BOOLEAN,
            violations : SUBSET Rules]

\* What fired at a call of the run, and broke nothing if it could be applied.
Sound(calls, entry) ==
    entry.at \in DOMAIN calls /\ (entry.ok => entry.violations = {})

EngineOk(e) ==
    /\ e = [world |-> e.world, rec |-> e.rec, names |-> e.names, counts |-> e.counts]
    /\ IsWorld(e.world) /\ DocInv(e.world.doc)
    /\ e.rec = [calls |-> e.rec.calls, fired |-> e.rec.fired]
    /\ e.rec.calls \in Seq(Calls) /\ e.rec.fired \in Seq(Entries)
    /\ \A k \in DOMAIN e.rec.fired : Sound(e.rec.calls, e.rec.fired[k])
    /\ e.names \subseteq Names /\ e.counts \in [Names -> Nat]

\* The calls at which a name has fired.
FiredAt(fired, name) ==
    {fired[k].at : k \in {k \in DOMAIN fired : fired[k].name = name}}

\* What the engine holds about an interference agrees with the calls it has seen.
Told(x, S, e) ==
    /\ x.name \in e.names =>
         /\ FiredAt(e.rec.fired, x.name) = Nth(S, x.trigger.nth)
         /\ Nth(S, x.trigger.nth) # {}
         /\ e.counts[x.name] <= Cardinality(S)
    /\ x.name \notin e.names =>
         /\ FiredAt(e.rec.fired, x.name) = {}
         /\ e.counts[x.name] = Cardinality(S)
         /\ Cardinality(S) < x.trigger.nth

\* A script the engine was given.
LEMMA ScriptParsed ==
  ASSUME script \in Scripts
  PROVE  /\ Len(script) \in Nat /\ DOMAIN script = 1..Len(script)
         /\ \A i \in DOMAIN script :
              /\ script[i].name \in Names /\ script[i].trigger.nth \in Nat \ {0}
              /\ script[i].trigger.when \in Phases /\ WellFormed(script[i].op)
         /\ \A i, j \in DOMAIN script : script[i].name = script[j].name => i = j
<1>1. script \in Seq(ToSet(script)) /\ Parsed(script)
  BY EngineAssumption
<1>2. Len(script) \in Nat /\ DOMAIN script = 1..Len(script)
  <2> DEFINE S == ToSet(script)
  <2>1. script \in Seq(S)
    BY <1>1
  <2> HIDE DEF S
  <2> QED
    BY <2>1
<1> QED
  BY <1>1, <1>2 DEF Parsed, Names, Phases

\* An interference is found by its name.
LEMMA OpByName ==
  ASSUME script \in Scripts, NEW i \in DOMAIN script
  PROVE  OpOf(script, script[i].name) = script[i].op
<1>1. \A j \in DOMAIN script : script[j].name = script[i].name => j = i
  BY ScriptParsed
<1> QED
  BY <1>1 DEF OpOf

\* A longer record of what fired.
LEMMA FiredMore ==
  ASSUME NEW E, NEW fired \in Seq(E), NEW entry \in E
  PROVE  /\ Append(fired, entry) \in Seq(E)
         /\ \A name : FiredAt(Append(fired, entry), name)
              = IF entry.name = name THEN FiredAt(fired, name) \cup {entry.at}
                ELSE FiredAt(fired, name)
         /\ \A k \in DOMAIN Append(fired, entry) :
              \/ k \in DOMAIN fired /\ Append(fired, entry)[k] = fired[k]
              \/ Append(fired, entry)[k] = entry
<1> DEFINE more == Append(fired, entry)
           n == Len(fired)
<1>1. /\ n \in Nat /\ DOMAIN fired = 1..n /\ more \in Seq(E)
      /\ DOMAIN more = 1..(n + 1) /\ more[n + 1] = entry
      /\ \A k \in 1..n : more[k] = fired[k]
  OBVIOUS
<1> HIDE DEF more, n
<1>2. /\ \A k \in DOMAIN more : k \in 1..n \/ k = n + 1
      /\ n + 1 \in DOMAIN more /\ \A k \in 1..n : k \in DOMAIN more
  BY <1>1
<1>3. ASSUME NEW name
      PROVE  FiredAt(more, name)
               = IF entry.name = name THEN FiredAt(fired, name) \cup {entry.at}
                 ELSE FiredAt(fired, name)
  BY <1>1, <1>2 DEF FiredAt
<1> QED
  BY <1>1, <1>2, <1>3 DEF more

\* What an interference did, in the world and in the record.
Fires(e, x, phase, call, r) ==
    /\ r.world = Handled(e.world, x.op).world
    /\ \E entry \in Entries :
         /\ r.rec.fired = Append(e.rec.fired, entry)
         /\ entry.name = x.name /\ entry.at = call /\ entry.when = phase
         /\ entry.ok = Handled(e.world, x.op).ok

\* Applying an interference marks it and records it.
Applied(e, x, phase, call, r) ==
    /\ Fires(e, x, phase, call, r) /\ EngineOk(r)
    /\ r.rec.calls = e.rec.calls /\ r.counts = e.counts
    /\ r.names = e.names \cup {x.name}
    /\ \A name : FiredAt(r.rec.fired, name)
         = IF x.name = name THEN FiredAt(e.rec.fired, name) \cup {call}
           ELSE FiredAt(e.rec.fired, name)
    /\ Cardinality(Minted(r.world.doc)) <= Cardinality(Minted(e.world.doc)) + PerOp

LEMMA ApplyMarks ==
  ASSUME script \in Scripts, NEW i \in DOMAIN script, NEW e, EngineOk(e),
         HasRoom(e.world.doc, PerOp), NEW phase \in Phases,
         NEW call \in DOMAIN e.rec.calls
  PROVE  Applied(e, script[i], phase, call, Apply(e, script[i], phase, call))
<1> DEFINE x == script[i]
           h == Handled(e.world, x.op)
           entry == [name |-> x.name, when |-> phase, at |-> call, ok |-> h.ok,
                     violations |-> IF h.ok
                                    THEN CheckModel(e.world.doc, h.world.doc, h.keeps)
                                    ELSE {"failed to apply"}]
           rec == [calls |-> e.rec.calls, fired |-> Append(e.rec.fired, entry)]
           r == Apply(e, x, phase, call)
<1>1. x.name \in Names /\ WellFormed(x.op)
  BY ScriptParsed
<1>2. Behaves(e.world, h)
  BY <1>1, HandledBehaves DEF EngineOk
<1>3. CheckModel(e.world.doc, h.world.doc, h.keeps) = {}
  BY <1>2, CheckModelHolds
<1>4. call \in Nat
  <2>1. e.rec.calls \in Seq(Calls)
    BY DEF EngineOk
  <2>2. Len(e.rec.calls) \in Nat /\ DOMAIN e.rec.calls = 1..Len(e.rec.calls)
    BY <2>1
  <2> QED
    BY <2>2
<1>5. r = [world |-> h.world, rec |-> rec, names |-> e.names \cup {x.name},
           counts |-> e.counts]
  <2>1. e = [world |-> e.world, rec |-> e.rec, names |-> e.names,
             counts |-> e.counts]
    BY DEF EngineOk
  <2> HIDE DEF x, h
  <2>2. r = [e EXCEPT !.world = h.world, !.names = @ \cup {x.name},
                      !.rec = [calls |-> @.calls, fired |-> Append(@.fired, entry)]]
    BY DEF Apply, Recorded, entry, h
  <2> HIDE DEF entry, r
  <2> QED
    BY <2>1, <2>2
<1> HIDE DEF r
<1>6. h.ok \in BOOLEAN /\ IsWorld(h.world) /\ Grows(e.world.doc, h.world.doc)
  BY <1>2 DEF Behaves
<1> HIDE DEF h, x
<1>7. entry \in Entries /\ Sound(e.rec.calls, entry)
  BY <1>1, <1>3, <1>4, <1>6 DEF Entries, Sound, Rules
<1>8. entry.name = x.name /\ entry.at = call
  OBVIOUS
<1> HIDE DEF entry
<1>9. e.rec.fired \in Seq(Entries)
      /\ \A k \in DOMAIN e.rec.fired : Sound(e.rec.calls, e.rec.fired[k])
  BY DEF EngineOk
<1> DEFINE more == Append(e.rec.fired, entry)
<1>10. /\ more \in Seq(Entries)
       /\ \A name : FiredAt(more, name)
            = IF x.name = name THEN FiredAt(e.rec.fired, name) \cup {call}
              ELSE FiredAt(e.rec.fired, name)
       /\ \A k \in DOMAIN more : Sound(e.rec.calls, more[k])
  <2> DEFINE fired == e.rec.fired
  <2>1. fired \in Seq(Entries) /\ entry \in Entries
    BY <1>7, <1>9
  <2>2. \A k \in DOMAIN fired : Sound(e.rec.calls, fired[k])
    BY <1>9
  <2> HIDE DEF fired
  <2>3. /\ Append(fired, entry) \in Seq(Entries)
        /\ \A name : FiredAt(Append(fired, entry), name)
             = IF entry.name = name THEN FiredAt(fired, name) \cup {entry.at}
               ELSE FiredAt(fired, name)
        /\ \A k \in DOMAIN Append(fired, entry) :
             \/ k \in DOMAIN fired /\ Append(fired, entry)[k] = fired[k]
             \/ Append(fired, entry)[k] = entry
    BY <2>1, FiredMore
  <2>4. \A k \in DOMAIN Append(fired, entry) :
          Sound(e.rec.calls, Append(fired, entry)[k])
    BY <1>7, <2>2, <2>3
  <2> QED
    BY <1>8, <2>3, <2>4 DEF fired
<1> HIDE DEF more
<1>11. r.rec.fired = more /\ r.rec.calls = e.rec.calls /\ r.counts = e.counts
       /\ r.names = e.names \cup {x.name} /\ r.world = h.world
       /\ r = [world |-> r.world, rec |-> r.rec, names |-> r.names,
               counts |-> r.counts]
       /\ r.rec = [calls |-> r.rec.calls, fired |-> r.rec.fired]
  BY <1>5 DEF more
<1>12. EngineOk(r)
  BY <1>1, <1>6, <1>10, <1>11 DEF EngineOk, Grows
<1>13. Fires(e, x, phase, call, r)
  <2>1. r.rec.fired = Append(e.rec.fired, entry) /\ r.world = Handled(e.world, x.op).world
    BY <1>11 DEF more, h, x
  <2>2. entry.when = phase /\ entry.ok = Handled(e.world, x.op).ok
    BY DEF entry, h, x
  <2> QED
    BY <1>7, <1>8, <2>1, <2>2 DEF Fires
<1> QED
  BY <1>6, <1>10, <1>11, <1>12, <1>13 DEF Applied, Grows, r, x

\* A call concerns an interference if it is of its phase and matches.
Concerns(x, phase, tool) == x.trigger.when = phase /\ Matches(x.trigger, tool)

\* The calls an interference has seen when it has seen this one.
SeenNow(x, S, phase, call, tool) ==
    IF Concerns(x, phase, tool) THEN S \cup {call} ELSE S

\* The calls seen before this one.
Earlier(x, S, phase, call, tool) ==
    /\ S \subseteq Nat /\ IsFiniteSet(S)
    /\ Concerns(x, phase, tool) => \A m \in S : m < call

\* What one interference makes of a call.
Takes(e, i, phase, call, r) ==
    /\ EngineOk(r) /\ r.rec.calls = e.rec.calls
    /\ \/ r.world = e.world /\ r.rec.fired = e.rec.fired
       \/ Fires(e, script[i], phase, call, r)
    /\ Cardinality(Minted(r.world.doc)) <= Cardinality(Minted(e.world.doc)) + PerOp
    /\ \A j \in DOMAIN script \ {i} : \A S :
         Told(script[j], S, e) => Told(script[j], S, r)
    /\ \A S : LET tool == e.rec.calls[call].tool
              IN Told(script[i], S, e) /\ Earlier(script[i], S, phase, call, tool)
                   => Told(script[i], SeenNow(script[i], S, phase, call, tool), r)

\* An interference the call does not concern, or that has fired.
LEMMA NotDue ==
  ASSUME script \in Scripts, NEW i \in DOMAIN script, NEW e, EngineOk(e),
         NEW phase \in Phases, NEW call \in DOMAIN e.rec.calls, call \in Nat,
         ~Due(e, script[i], phase, call)
  PROVE  Takes(e, i, phase, call, e)
<1> DEFINE x == script[i]
           tool == e.rec.calls[call].tool
<1>1. Cardinality(Minted(e.world.doc)) \in Nat
  BY MintedCount DEF EngineOk, DocInv
<1>2. x.trigger.nth \in Nat \ {0} /\ x.name \in Names
  BY ScriptParsed
<1>3. ASSUME NEW S, Told(x, S, e), Earlier(x, S, phase, call, tool)
      PROVE  Told(x, SeenNow(x, S, phase, call, tool), e)
  <2>1. CASE ~Concerns(x, phase, tool)
    BY <1>3, <2>1 DEF SeenNow
  <2>2. CASE Concerns(x, phase, tool)
    <3>1. x.name \in e.names
      BY <2>2 DEF Due, Concerns
    <3> DEFINE k == x.trigger.nth
               c == e.counts[x.name]
               T == S \cup {call}
    <3>2. /\ Cardinality(S) \in Nat /\ Cardinality(T) = Cardinality(S) + 1
          /\ Nth(S, k) # {} => Nth(T, k) = Nth(S, k)
      <4>1. /\ S \subseteq Nat /\ IsFiniteSet(S) /\ \A m \in S : m < call
            /\ k \in Nat \ {0}
        BY <1>2, <1>3, <2>2 DEF Earlier
      <4> HIDE DEF k, T
      <4>2. T = S \cup {call} /\ call \in Nat
        BY DEF T
      <4> QED
        BY <4>1, <4>2, NthStays
    <3>3. c \in Nat
      BY <1>2 DEF EngineOk
    <3>4. FiredAt(e.rec.fired, x.name) = Nth(S, k) /\ Nth(S, k) # {}
          /\ c <= Cardinality(S)
      BY <1>3, <3>1 DEF Told
    <3>5. c <= Cardinality(T)
      BY <3>2, <3>3, <3>4
    <3>6. Told(x, T, e)
      BY <3>1, <3>2, <3>4, <3>5 DEF Told
    <3> QED
      BY <2>2, <3>6 DEF SeenNow
  <2> QED
    BY <2>1, <2>2
<1> QED
  BY <1>1, <1>3 DEF Takes, PerOp

\* An interference the call concerns counts it, and fires at its own.
LEMMA WhenDue ==
  ASSUME script \in Scripts, NEW i \in DOMAIN script, NEW e, EngineOk(e),
         HasRoom(e.world.doc, PerOp), NEW phase \in Phases,
         NEW call \in DOMAIN e.rec.calls, call \in Nat,
         Due(e, script[i], phase, call)
  PROVE  Takes(e, i, phase, call, Counted(e, script[i], phase, call))
<1> DEFINE x == script[i]
           tool == e.rec.calls[call].tool
           n == e.counts[x.name] + 1
           counted == [e EXCEPT !.counts[x.name] = n]
           r == Counted(e, x, phase, call)
<1>1. Cardinality(Minted(e.world.doc)) \in Nat
  BY MintedCount DEF EngineOk, DocInv
<1>2. /\ x.trigger.nth \in Nat \ {0} /\ x.name \in Names
      /\ \A j \in DOMAIN script \ {i} : script[j].name # x.name
  BY ScriptParsed
<1>3. Concerns(x, phase, tool) /\ x.name \notin e.names
  BY DEF Due, Concerns
<1>4. /\ counted = [world |-> e.world, rec |-> e.rec, names |-> e.names,
                    counts |-> [e.counts EXCEPT ![x.name] = n]]
      /\ e.counts \in [Names -> Nat]
  <2>1. /\ e = [world |-> e.world, rec |-> e.rec, names |-> e.names,
                counts |-> e.counts]
        /\ e.counts \in [Names -> Nat]
    BY DEF EngineOk
  <2> HIDE DEF n, x
  <2> QED
    BY <2>1
<1>5. r = IF n = x.trigger.nth THEN Apply(counted, x, phase, call) ELSE counted
  BY DEF Counted
<1>6. n \in Nat
  BY <1>2, <1>4
<1> HIDE DEF n, r, counted
<1>7. /\ counted.world = e.world /\ counted.rec = e.rec /\ counted.names = e.names
      /\ counted.counts[x.name] = n /\ counted.counts \in [Names -> Nat]
      /\ \A name \in Names \ {x.name} : counted.counts[name] = e.counts[name]
  <2> HIDE DEF x
  <2> QED
    BY <1>2, <1>4, <1>6
<1>8. EngineOk(counted)
  BY <1>4, <1>7 DEF EngineOk
<1>9. \A j \in DOMAIN script \ {i} : script[j].name \in Names \ {x.name}
  BY <1>2 DEF Names
<1>10. ASSUME NEW S, Told(x, S, e), Earlier(x, S, phase, call, tool)
       PROVE  /\ Cardinality(S) \in Nat /\ n = Cardinality(S) + 1
              /\ Cardinality(S) < x.trigger.nth /\ FiredAt(e.rec.fired, x.name) = {}
              /\ Cardinality(S \cup {call}) = n
              /\ n = x.trigger.nth => Nth(S \cup {call}, x.trigger.nth) = {call}
              /\ SeenNow(x, S, phase, call, tool) = S \cup {call}
  <2>1. /\ e.counts[x.name] = Cardinality(S) /\ Cardinality(S) < x.trigger.nth
        /\ FiredAt(e.rec.fired, x.name) = {}
    BY <1>3, <1>10 DEF Told
  <2> DEFINE k == x.trigger.nth
  <2>2. /\ Cardinality(S) \in Nat /\ Cardinality(S \cup {call}) = Cardinality(S) + 1
        /\ Cardinality(S) + 1 = k => Nth(S \cup {call}, k) = {call}
    <3>1. /\ S \subseteq Nat /\ IsFiniteSet(S) /\ \A m \in S : m < call
          /\ k \in Nat \ {0}
      BY <1>2, <1>3, <1>10 DEF Earlier
    <3> HIDE DEF k
    <3> QED
      BY <3>1, NthStays
  <2>3. SeenNow(x, S, phase, call, tool) = S \cup {call}
    BY <1>3 DEF SeenNow
  <2> QED
    BY <2>1, <2>2, <2>3 DEF n
<1>11. CASE n # x.trigger.nth
  <2>1. r = counted
    BY <1>5, <1>11
  <2>2. \A j \in DOMAIN script \ {i} : \A S :
          Told(script[j], S, e) => Told(script[j], S, counted)
    <3> HIDE DEF x
    <3> QED
      BY <1>7, <1>9 DEF Told
  <2>3. ASSUME NEW S, Told(x, S, e), Earlier(x, S, phase, call, tool)
        PROVE  Told(x, SeenNow(x, S, phase, call, tool), counted)
    <3>1. /\ Cardinality(S) \in Nat /\ n = Cardinality(S) + 1
          /\ Cardinality(S) < x.trigger.nth /\ FiredAt(e.rec.fired, x.name) = {}
          /\ Cardinality(S \cup {call}) = n
          /\ SeenNow(x, S, phase, call, tool) = S \cup {call}
      BY <1>10, <2>3
    <3>2. n < x.trigger.nth
      BY <1>2, <1>11, <3>1
    <3> QED
      BY <1>3, <1>7, <3>1, <3>2 DEF Told
  <2> QED
    BY <1>1, <1>7, <1>8, <2>1, <2>2, <2>3 DEF Takes, PerOp, r
<1>12. CASE n = x.trigger.nth
  <2>1. r = Apply(counted, x, phase, call)
    BY <1>5, <1>12
  <2>2. Applied(counted, x, phase, call, r)
    BY <1>7, <1>8, <2>1, ApplyMarks
  <2>3. /\ EngineOk(r) /\ r.rec.calls = e.rec.calls /\ r.counts = counted.counts
        /\ r.names = e.names \cup {x.name}
        /\ \A name : FiredAt(r.rec.fired, name)
             = IF x.name = name THEN FiredAt(e.rec.fired, name) \cup {call}
               ELSE FiredAt(e.rec.fired, name)
        /\ Cardinality(Minted(r.world.doc)) <= Cardinality(Minted(e.world.doc)) + PerOp
    BY <1>7, <2>2 DEF Applied
  <2>6. Fires(e, x, phase, call, r)
    BY <1>7, <2>2 DEF Applied, Fires
  <2>4. \A j \in DOMAIN script \ {i} : \A S :
          Told(script[j], S, e) => Told(script[j], S, r)
    <3>1. ASSUME NEW j \in DOMAIN script \ {i}, NEW S, Told(script[j], S, e)
          PROVE  Told(script[j], S, r)
      <4>1. /\ script[j].name \in r.names <=> script[j].name \in e.names
            /\ FiredAt(r.rec.fired, script[j].name)
                 = FiredAt(e.rec.fired, script[j].name)
            /\ r.counts[script[j].name] = e.counts[script[j].name]
        BY <1>7, <1>9, <2>3
      <4> QED
        BY <3>1, <4>1 DEF Told
    <3> QED
      BY <3>1
  <2>5. ASSUME NEW S, Told(x, S, e), Earlier(x, S, phase, call, tool)
        PROVE  Told(x, SeenNow(x, S, phase, call, tool), r)
    <3> DEFINE T == S \cup {call}
               k == x.trigger.nth
    <3>1. /\ FiredAt(e.rec.fired, x.name) = {} /\ Cardinality(T) = n
          /\ Nth(T, k) = {call} /\ SeenNow(x, S, phase, call, tool) = T
      BY <1>10, <1>12, <2>5
    <3> HIDE DEF T
    <3>2. FiredAt(r.rec.fired, x.name) = {call} /\ x.name \in r.names
          /\ r.counts[x.name] = n
      BY <1>7, <2>3, <3>1
    <3>3. r.counts[x.name] <= Cardinality(T)
      BY <1>6, <3>1, <3>2
    <3> QED
      BY <3>1, <3>2, <3>3 DEF Told
  <2> QED
    BY <2>3, <2>4, <2>5, <2>6 DEF Takes, r
<1> QED
  BY <1>11, <1>12 DEF r

LEMMA CountedTells ==
  ASSUME script \in Scripts, NEW i \in DOMAIN script, NEW e, EngineOk(e),
         HasRoom(e.world.doc, PerOp), NEW phase \in Phases,
         NEW call \in DOMAIN e.rec.calls, call \in Nat
  PROVE  Takes(e, i, phase, call, Counted(e, script[i], phase, call))
<1>1. CASE Due(e, script[i], phase, call)
  BY <1>1, WhenDue
<1>2. CASE ~Due(e, script[i], phase, call)
  <2>1. Counted(e, script[i], phase, call) = e
    BY <1>2 DEF Counted
  <2>2. Takes(e, i, phase, call, e)
    BY <1>2, NotDue
  <2> QED
    BY <2>1, <2>2
<1> QED
  BY <1>1, <1>2

-----------------------------------------------------------------------------
(* A call, against the whole script. *)

\* The engine on the way, after each interference.
Firing(f, e, phase, call, n) ==
    f = [k \in 0..n |-> IF k = 0 THEN e ELSE Counted(f[k - 1], script[k], phase, call)]

\* There is a way through scripts of any length.
LEMMA FiringsExist ==
  ASSUME NEW e, NEW phase, NEW call, NEW n \in Nat
  PROVE  \E f : Firing(f, e, phase, call, n)
<1> DEFINE Bad == {m \in Nat : ~ \E f : Firing(f, e, phase, call, m)}
<1>1. SUFFICES ASSUME Bad # {} PROVE FALSE
  OBVIOUS
<1>2. PICK m \in Bad : \A k \in Bad : m <= k
  <2>1. Bad \subseteq Nat
    OBVIOUS
  <2> HIDE DEF Bad
  <2> QED
    BY <1>1, <2>1, LeastNumber
<1>3. m \in Nat /\ ~ \E f : Firing(f, e, phase, call, m)
  OBVIOUS
<1>4. m # 0
  <2> DEFINE f == [k \in 0..0 |-> e]
  <2>1. Firing(f, e, phase, call, 0)
    <3>1. \A k \in 0..0 : k = 0
      OBVIOUS
    <3> QED
      BY <3>1 DEF Firing
  <2> QED
    BY <1>3, <2>1
<1>5. m - 1 \in Nat /\ m - 1 \notin Bad
  BY <1>2, <1>3, <1>4
<1>6. PICK f : Firing(f, e, phase, call, m - 1)
  BY <1>5
<1> DEFINE g == [k \in 0..m |-> IF k = m THEN Counted(f[m - 1], script[m], phase, call)
                                ELSE f[k]]
<1>7. ASSUME NEW k \in 0..m
      PROVE  g[k] = IF k = 0 THEN e ELSE Counted(g[k - 1], script[k], phase, call)
  <2>0. \A j \in 0..(m - 1) : f[j] = IF j = 0 THEN e
                                    ELSE Counted(f[j - 1], script[j], phase, call)
    BY <1>6 DEF Firing
  <2>1. CASE k = m
    <3>1. k # 0 /\ k - 1 \in 0..m /\ k - 1 # m
      BY <1>3, <1>4, <2>1
    <3> QED
      BY <2>1, <3>1
  <2>2. CASE k # m
    <3>1. k \in 0..(m - 1) /\ (k # 0 => k - 1 \in 0..m /\ k - 1 # m)
      BY <1>3, <1>4, <2>2
    <3> QED
      BY <2>0, <2>2, <3>1
  <2> QED
    BY <2>1, <2>2
<1>8. Firing(g, e, phase, call, m)
  <2>1. g = [k \in 0..m |-> g[k]]
    OBVIOUS
  <2> HIDE DEF g
  <2> QED
    BY <1>7, <2>1 DEF Firing
<1> QED
  BY <1>3, <1>8

\* Firing is to come to the end of the script.
LEMMA FireTurns ==
  ASSUME NEW e, NEW phase, NEW call, Len(script) \in Nat
  PROVE  \E f : /\ Firing(f, e, phase, call, Len(script))
                /\ Fire(e, phase, call) = f[Len(script)]
<1> DEFINE n == Len(script)
           f == CHOOSE f : Firing(f, e, phase, call, n)
<1>1. Fire(e, phase, call) = f[n]
  BY DEF Fire, Firing
<1>2. Firing(f, e, phase, call, n)
  <2>1. \E h : Firing(h, e, phase, call, n)
    BY FiringsExist
  <2> QED
    BY <2>1
<1> QED
  BY <1>1, <1>2

\* Every interference has been told about the calls it saw.
Briefed(seen, e) == \A i \in DOMAIN script : Told(script[i], seen[i], e)

\* The record tells what became of the world since e.
Tracks(e, r, phase, call) ==
    /\ r.world = Played(e.world, OpsIn(script, r.rec, phase, call))
    /\ \A p, m : ~(p = phase /\ m = call) =>
         OpsIn(script, r.rec, p, m) = OpsIn(script, e.rec, p, m)
    /\ \A k \in DOMAIN r.rec.fired :
         \/ \E j \in DOMAIN e.rec.fired : r.rec.fired[k] = e.rec.fired[j]
         \/ r.rec.fired[k].at = call /\ r.rec.fired[k].when = phase

\* A record that tells nothing of this phase yet.
LEMMA StartTracks ==
  ASSUME NEW e, NEW phase, NEW call, Telling(e.rec.fired, phase, call) = {}
  PROVE  Tracks(e, e, phase, call)
<1>1. OpsIn(script, e.rec, phase, call) = <<>>
  BY ToldNothing
<1>2. Played(e.world, <<>>) = e.world
  BY PlayedFew
<1> QED
  BY <1>1, <1>2 DEF Tracks

\* What an interference does, its entry tells.
LEMMA TakesTracks ==
  ASSUME script \in Scripts, NEW i \in DOMAIN script, NEW e, NEW r, EngineOk(r),
         NEW phase, NEW call, Tracks(e, r, phase, call), NEW h,
         Takes(r, i, phase, call, h)
  PROVE  Tracks(e, h, phase, call)
<1> DEFINE x == script[i]
<1>1. CASE h.world = r.world /\ h.rec.fired = r.rec.fired
  <2>1. \A p, m : OpsIn(script, h.rec, p, m) = OpsIn(script, r.rec, p, m)
    BY <1>1 DEF OpsIn
  <2> QED
    BY <1>1, <2>1 DEF Tracks
<1>2. CASE Fires(r, x, phase, call, h)
  <2>1. PICK entry \in Entries :
          /\ h.rec.fired = Append(r.rec.fired, entry)
          /\ entry.name = x.name /\ entry.at = call /\ entry.when = phase
          /\ entry.ok = Handled(r.world, x.op).ok
    BY <1>2 DEF Fires
  <2>2. h.world = Handled(r.world, x.op).world
    BY <1>2 DEF Fires
  <2>3. OpOf(script, entry.name) = x.op /\ x.op.kind \in OpKinds
    BY <2>1, OpByName, ScriptParsed DEF WellFormed
  <2>4. r.rec.fired \in Seq(Entries)
    BY DEF EngineOk
  <2>5. ASSUME NEW p, NEW m
        PROVE  /\ ~Tells(entry, p, m) =>
                    OpsIn(script, h.rec, p, m) = OpsIn(script, r.rec, p, m)
               /\ Tells(entry, p, m) => \A w :
                    Played(w, OpsIn(script, h.rec, p, m))
                      = Handled(Played(w, OpsIn(script, r.rec, p, m)),
                                OpOf(script, entry.name)).world
    <3> DEFINE rec == r.rec
               now == h.rec
    <3>1. rec.fired \in Seq(Entries) /\ now.fired = Append(rec.fired, entry)
      BY <2>1, <2>4
    <3> HIDE DEF rec, now
    <3>2. ~Tells(entry, p, m) => OpsIn(script, now, p, m) = OpsIn(script, rec, p, m)
      BY <3>1, ToldMore
    <3>3. Tells(entry, p, m) => \A w :
            Played(w, OpsIn(script, now, p, m))
              = Handled(Played(w, OpsIn(script, rec, p, m)),
                        OpOf(script, entry.name)).world
      BY <3>1, ToldMore
    <3> QED
      BY <3>2, <3>3 DEF rec, now
  <2>6. \A p, m : ~(p = phase /\ m = call) =>
          OpsIn(script, h.rec, p, m) = OpsIn(script, r.rec, p, m)
    BY <2>1, <2>5 DEF Tells
  <2>7. r.world = Played(e.world, OpsIn(script, r.rec, phase, call))
    BY DEF Tracks
  <2>8. h.world = Played(e.world, OpsIn(script, h.rec, phase, call))
    <3>1. CASE entry.ok
      <4>1. Tells(entry, phase, call)
        BY <2>1, <3>1 DEF Tells
      <4> QED
        BY <2>2, <2>3, <2>5, <2>7, <4>1
    <3>2. CASE ~entry.ok
      <4>1. ~Tells(entry, phase, call)
        BY <3>2 DEF Tells
      <4>2. h.world = r.world
        BY <2>1, <2>2, <2>3, <3>2, NotApplied
      <4> QED
        BY <2>5, <2>7, <4>1, <4>2
    <3> QED
      BY <3>1, <3>2
  <2>9. ASSUME NEW k \in DOMAIN h.rec.fired
        PROVE  \/ \E j \in DOMAIN e.rec.fired : h.rec.fired[k] = e.rec.fired[j]
               \/ h.rec.fired[k].at = call /\ h.rec.fired[k].when = phase
    <3>1. \/ k \in DOMAIN r.rec.fired /\ h.rec.fired[k] = r.rec.fired[k]
          \/ h.rec.fired[k] = entry
      BY <2>1, <2>4, FiredMore
    <3> QED
      BY <2>1, <3>1 DEF Tracks
  <2>10. \A p, m : ~(p = phase /\ m = call) =>
           OpsIn(script, h.rec, p, m) = OpsIn(script, e.rec, p, m)
    BY <2>6 DEF Tracks
  <2> QED
    BY <2>8, <2>9, <2>10 DEF Tracks
<1> QED
  BY <1>1, <1>2 DEF Takes

\* The interferences up to the k-th know of the call, the others do not yet.
Partway(e, seen, phase, call, k, r) ==
    /\ EngineOk(r) /\ r.rec.calls = e.rec.calls
    /\ Telling(e.rec.fired, phase, call) = {} => Tracks(e, r, phase, call)
    /\ Cardinality(Minted(r.world.doc)) <= Cardinality(Minted(e.world.doc)) + PerOp * k
    /\ \A i \in DOMAIN script :
         Told(script[i],
              IF i <= k THEN SeenNow(script[i], seen[i], phase, call,
                                     e.rec.calls[call].tool)
              ELSE seen[i], r)

\* One interference further.
LEMMA Onward ==
  ASSUME script \in Scripts, NEW e, EngineOk(e), NEW seen,
         HasRoom(e.world.doc, PerOp * Len(script)), NEW phase \in Phases,
         NEW call \in DOMAIN e.rec.calls, call \in Nat,
         \A i \in DOMAIN script :
           Earlier(script[i], seen[i], phase, call, e.rec.calls[call].tool),
         NEW k \in 1..Len(script), NEW r, Partway(e, seen, phase, call, k - 1, r)
  PROVE  Partway(e, seen, phase, call, k, Counted(r, script[k], phase, call))
<1> DEFINE h == Counted(r, script[k], phase, call)
           tool == e.rec.calls[call].tool
           c == Cardinality(Minted(e.world.doc))
           b == Cardinality(Minted(r.world.doc))
           a == Cardinality(Minted(h.world.doc))
<1>1. Len(script) \in Nat /\ DOMAIN script = 1..Len(script)
  BY ScriptParsed
<1>2. EngineOk(r) /\ r.rec.calls = e.rec.calls /\ b <= c + PerOp * (k - 1)
  BY DEF Partway
<1>3. c \in Nat /\ b \in Nat
  BY <1>2, MintedCount DEF EngineOk, DocInv
<1>4. HasRoom(r.world.doc, PerOp)
  <2>1. c + PerOp * Len(script) <= MaxSuggestions
    BY DEF HasRoom
  <2> HIDE DEF c, b
  <2>2. b + PerOp <= MaxSuggestions
    BY <1>1, <1>2, <1>3, <2>1, DocAssumption DEF PerOp
  <2> QED
    BY <2>2 DEF HasRoom, b
<1>5. Takes(r, k, phase, call, h)
  BY <1>1, <1>2, <1>4, CountedTells
<1> HIDE DEF h
<1>6. EngineOk(h) /\ h.rec.calls = e.rec.calls /\ a <= b + PerOp
  BY <1>2, <1>5 DEF Takes
<1>10. Telling(e.rec.fired, phase, call) = {} => Tracks(e, h, phase, call)
  <2>1. Telling(e.rec.fired, phase, call) = {} => Tracks(e, r, phase, call)
    BY DEF Partway
  <2> QED
    BY <1>1, <1>2, <1>5, <2>1, TakesTracks
<1>7. a \in Nat
  BY <1>6, MintedCount DEF EngineOk, DocInv
<1>8. a <= c + PerOp * k
  <2> HIDE DEF a, b, c
  <2> QED
    BY <1>2, <1>3, <1>6, <1>7 DEF PerOp
<1>9. ASSUME NEW i \in DOMAIN script
      PROVE  Told(script[i], IF i <= k THEN SeenNow(script[i], seen[i], phase, call, tool)
                             ELSE seen[i], h)
  <2>1. Told(script[i],
             IF i <= k - 1 THEN SeenNow(script[i], seen[i], phase, call, tool)
             ELSE seen[i], r)
    BY DEF Partway
  <2>2. CASE i = k
    <3>1. Told(script[k], seen[k], r)
      <4>1. ~(i <= k - 1)
        BY <2>2
      <4> QED
        BY <2>1, <2>2, <4>1
    <3>2. Told(script[k], SeenNow(script[k], seen[k], phase, call, tool), h)
      BY <1>1, <1>2, <1>5, <3>1 DEF Takes
    <3>3. i <= k
      BY <2>2
    <3> QED
      BY <2>2, <3>2, <3>3
  <2>3. CASE i # k
    <3>1. i <= k <=> i <= k - 1
      BY <1>1, <2>3
    <3>2. \A S : Told(script[i], S, r) => Told(script[i], S, h)
      BY <1>5, <2>3 DEF Takes
    <3> QED
      BY <2>1, <3>1, <3>2
  <2> QED
    BY <2>2, <2>3
<1> QED
  BY <1>6, <1>8, <1>9, <1>10 DEF Partway, h

\* A call concerns the whole script.
LEMMA FireTells ==
  ASSUME script \in Scripts, NEW e, EngineOk(e), NEW seen, Briefed(seen, e),
         HasRoom(e.world.doc, PerOp * Len(script)), NEW phase \in Phases,
         NEW call \in DOMAIN e.rec.calls, call \in Nat,
         \A i \in DOMAIN script :
           Earlier(script[i], seen[i], phase, call, e.rec.calls[call].tool)
  PROVE  Partway(e, seen, phase, call, Len(script), Fire(e, phase, call))
<1> DEFINE n == Len(script)
<1>1. n \in Nat /\ DOMAIN script = 1..n
  BY ScriptParsed
<1>2. PICK f : Firing(f, e, phase, call, n) /\ Fire(e, phase, call) = f[n]
  BY <1>1, FireTurns
<1>3. f[0] = e /\ \A k \in 1..n : f[k] = Counted(f[k - 1], script[k], phase, call)
  BY <1>1, <1>2 DEF Firing
<1>4. Partway(e, seen, phase, call, 0, e)
  <2>1. Cardinality(Minted(e.world.doc)) \in Nat
    BY MintedCount DEF EngineOk, DocInv
  <2>2. \A i \in DOMAIN script : ~(i <= 0)
    BY <1>1
  <2>3. \A i \in DOMAIN script : Told(script[i], seen[i], e)
    BY DEF Briefed
  <2>4. Telling(e.rec.fired, phase, call) = {} => Tracks(e, e, phase, call)
    BY StartTracks
  <2> QED
    BY <2>1, <2>2, <2>3, <2>4 DEF Partway, PerOp
<1> DEFINE Bad == {k \in 0..n : ~ Partway(e, seen, phase, call, k, f[k])}
<1>5. Bad = {}
  <2>1. SUFFICES ASSUME Bad # {} PROVE FALSE
    OBVIOUS
  <2>2. PICK m \in Bad : \A k \in Bad : m <= k
    <3>1. Bad \subseteq Nat
      BY <1>1
    <3> HIDE DEF Bad
    <3> QED
      BY <2>1, <3>1, LeastNumber
  <2>3. m \in 0..n /\ m # 0
    BY <1>3, <1>4
  <2>4. m \in 1..n /\ m - 1 \in 0..n /\ m - 1 \notin Bad
    <3> HIDE DEF Bad
    <3> QED
      BY <1>1, <2>2, <2>3
  <2>5. Partway(e, seen, phase, call, m - 1, f[m - 1])
    BY <2>4
  <2>6. Partway(e, seen, phase, call, m, Counted(f[m - 1], script[m], phase, call))
    BY <2>4, <2>5, Onward
  <2> QED
    BY <1>3, <2>2, <2>4, <2>6
<1>6. n \in 0..n
  BY <1>1
<1> QED
  BY <1>2, <1>5, <1>6

-----------------------------------------------------------------------------
(* What the calls so far have shown. *)

\* The calls of a log an interference has seen.
Seen(calls, x) ==
    {n \in DOMAIN calls :
       /\ Matches(x.trigger, calls[n].tool)
       /\ x.trigger.when = "after" => calls[n].answer # "none"}

LEMMA SeenSoFar ==
  ASSUME NEW x
  PROVE  SeenBy(x) = Seen(record.calls, x) /\ NthSeen(x) = Nth(SeenBy(x), x.trigger.nth)
BY DEF SeenBy, Seen, NthSeen, Nth

\* The calls of a log are numbers, finitely many.
LEMMA SeenCalls ==
  ASSUME NEW calls \in Seq(Calls), NEW x
  PROVE  /\ Len(calls) \in Nat /\ DOMAIN calls = 1..Len(calls)
         /\ Seen(calls, x) \subseteq 1..Len(calls) /\ Seen(calls, x) \subseteq Nat
         /\ IsFiniteSet(Seen(calls, x)) /\ Cardinality(Seen(calls, x)) <= Len(calls)
<1>1. Len(calls) \in Nat /\ DOMAIN calls = 1..Len(calls)
  OBVIOUS
<1>2. Seen(calls, x) \subseteq 1..Len(calls)
  BY <1>1 DEF Seen
<1>3. IsFiniteSet(1..Len(calls)) /\ Cardinality(1..Len(calls)) = Len(calls)
  BY <1>1, CountInterval
<1>4. /\ IsFiniteSet(Seen(calls, x))
      /\ Cardinality(Seen(calls, x)) <= Cardinality(1..Len(calls))
  BY <1>2, <1>3, FS_Subset
<1> QED
  BY <1>1, <1>2, <1>3, <1>4

\* A call that begins is seen by what fires before it.
LEMMA SeenBeginning ==
  ASSUME NEW calls \in Seq(Calls), NEW call \in Calls, call.answer = "none",
         NEW x, x.trigger.when \in Phases, NEW n, n = Len(calls) + 1
  PROVE  LET more == Append(calls, call) IN
         /\ more \in Seq(Calls) /\ n \in DOMAIN more /\ more[n] = call
         /\ Seen(more, x) = SeenNow(x, Seen(calls, x), "before", n, call.tool)
         /\ Earlier(x, Seen(calls, x), "before", n, call.tool)
<1> DEFINE more == Append(calls, call)
           L == Len(calls)
<1>1. /\ L \in Nat /\ DOMAIN calls = 1..L /\ Seen(calls, x) \subseteq 1..L
      /\ Seen(calls, x) \subseteq Nat /\ IsFiniteSet(Seen(calls, x))
  BY SeenCalls
<1>2. /\ more \in Seq(Calls) /\ DOMAIN more = 1..(L + 1) /\ more[L + 1] = call
      /\ \A k \in 1..L : more[k] = calls[k]
  OBVIOUS
<1> HIDE DEF more, L
<1>3. n = L + 1 /\ n \in 1..(L + 1) /\ \A k \in 1..(L + 1) : k \in 1..L \/ k = n
  BY <1>1 DEF L
<1>4. /\ \A k \in 1..L : k \in 1..(L + 1) /\ k < n /\ k # n
  BY <1>1, <1>3
<1>5. \A k : k \in Seen(more, x) <=>
        \/ k \in Seen(calls, x)
        \/ k = n /\ Concerns(x, "before", call.tool)
  BY <1>1, <1>2, <1>3, <1>4 DEF Seen, Concerns, Phases
<1>6. Seen(more, x) = SeenNow(x, Seen(calls, x), "before", n, call.tool)
  BY <1>5 DEF SeenNow
<1>7. Earlier(x, Seen(calls, x), "before", n, call.tool)
  BY <1>1, <1>4 DEF Earlier
<1> QED
  BY <1>2, <1>3, <1>6, <1>7 DEF more

\* What an answer changes: the call counts as seen by what fires after it.
Ends(calls, n, x, told) ==
    /\ told \in Seq(Calls) /\ DOMAIN told = DOMAIN calls /\ n \in Nat
    /\ Len(told) = Len(calls)
    /\ Seen(told, x) = SeenNow(x, Seen(calls, x), "after", n, told[n].tool)
    /\ Earlier(x, Seen(calls, x), "after", n, told[n].tool)

\* A call that is answered is seen by what fires after it.
LEMMA SeenAnswered ==
  ASSUME NEW calls \in Seq(Calls), NEW n \in DOMAIN calls, n = Len(calls),
         calls[n].answer = "none", NEW step \in {"ok", "error"},
         NEW x, x.trigger.when \in Phases,
         NEW told, told = [calls EXCEPT ![n].answer = step]
  PROVE  Ends(calls, n, x, told)
<1> DEFINE L == Len(calls)
           now == [calls[n] EXCEPT !.answer = step]
<1>1. /\ L \in Nat /\ DOMAIN calls = 1..L /\ Seen(calls, x) \subseteq 1..L
      /\ Seen(calls, x) \subseteq Nat /\ IsFiniteSet(Seen(calls, x))
  BY SeenCalls
<1>2. calls[n] \in Calls
  OBVIOUS
<1>3. now \in Calls /\ now.tool = calls[n].tool /\ now.answer = step
  BY <1>2 DEF Calls, Answers
<1>4. told = [calls EXCEPT ![n] = now]
  OBVIOUS
<1> HIDE DEF now
<1>5. /\ told \in Seq(Calls) /\ DOMAIN told = DOMAIN calls /\ told[n] = now
      /\ Len(told) = L /\ \A k \in DOMAIN calls \ {n} : told[k] = calls[k]
  BY <1>3, <1>4
<1> HIDE DEF L
<1>6. n \in Nat /\ \A k \in 1..L : k = n \/ k < n
  BY <1>1 DEF L
<1>7. \A k : k \in Seen(told, x) <=>
        \/ k \in Seen(calls, x)
        \/ k = n /\ Concerns(x, "after", now.tool)
  BY <1>3, <1>5 DEF Seen, Concerns, Phases
<1>8. Seen(told, x) = SeenNow(x, Seen(calls, x), "after", n, now.tool)
  BY <1>7 DEF SeenNow
<1>9. Concerns(x, "after", now.tool) => n \notin Seen(calls, x)
  BY DEF Seen, Concerns
<1>10. Earlier(x, Seen(calls, x), "after", n, now.tool)
  BY <1>1, <1>6, <1>9 DEF Earlier
<1> QED
  BY <1>3, <1>5, <1>6, <1>8, <1>10 DEF L, Ends

-----------------------------------------------------------------------------
(* The invariant. *)

Steps == {"read", "write", "ok", "error"}

\* A call under way is the last of the log, and not answered.
CallOk(c) ==
    /\ c = [n |-> c.n, step |-> c.step, op |-> c.op]
    /\ c.step \in Steps /\ WellFormed(c.op)
    /\ c.n \in DOMAIN record.calls /\ c.n = Len(record.calls)
    /\ record.calls[c.n].answer = "none"

Believes(rec) ==
    /\ EngineOk(Engine(rec))
    /\ \A i \in DOMAIN script : Told(script[i], Seen(rec.calls, script[i]), Engine(rec))
    /\ Len(rec.calls) <= MaxCalls

EngineInv ==
    /\ script \in Scripts /\ Believes(record)
    /\ \A c \in inside : CallOk(c)
    /\ \A b, c \in inside : b = c
    /\ \A op \in late : WellFormed(op)

\* What is seen is a function of the calls an interference has been told about.
SeenIn(calls) == [i \in DOMAIN script |-> Seen(calls, script[i])]

\* What the engine becomes is what it is.
LEMMA GoesOk ==
  ASSUME NEW r, EngineOk(r), Goes(r)
  PROVE  Engine(record)' = r /\ record' = r.rec /\ doc' = r.world.doc
<1>1. /\ r = [world |-> r.world, rec |-> r.rec, names |-> r.names,
              counts |-> r.counts]
      /\ r.world = [doc |-> r.world.doc, threads |-> r.world.threads]
  BY DEF EngineOk, IsWorld
<1>2. /\ doc' = r.world.doc /\ threads' = r.world.threads /\ record' = r.rec
      /\ firedNames' = r.names /\ matches' = r.counts
  BY DEF Goes, Becomes
<1> QED
  BY <1>1, <1>2 DEF Engine, World

\* With another log of as many calls, or more, the engine is what it was.
LEMMA Logged ==
  ASSUME EngineOk(Engine(record)), NEW rec,
         rec = [calls |-> rec.calls, fired |-> record.fired],
         rec.calls \in Seq(Calls), DOMAIN record.calls \subseteq DOMAIN rec.calls
  PROVE  /\ EngineOk(Engine(rec)) /\ Engine(rec).rec = rec
         /\ Engine(rec).world = World
         /\ \A x, S : Told(x, S, Engine(record)) => Told(x, S, Engine(rec))
<1>1. /\ Engine(rec) = [world |-> World, rec |-> rec, names |-> firedNames,
                        counts |-> matches]
      /\ Engine(record) = [world |-> World, rec |-> record, names |-> firedNames,
                           counts |-> matches]
  BY DEF Engine
<1>2. \A x, S : Told(x, S, Engine(record)) => Told(x, S, Engine(rec))
  BY <1>1 DEF Told
<1>3. rec.fired = record.fired
  OBVIOUS
<1>4. EngineOk(Engine(rec))
  BY <1>1, <1>3 DEF EngineOk, Sound
<1> QED
  BY <1>1, <1>2, <1>4

\* Before anything is called.
LEMMA InitEngine ==
  ASSUME EngineInit
  PROVE  EngineInv
<1>1. /\ doc = Seeded.doc /\ threads = Seeded.threads /\ script \in Scripts
      /\ record = [calls |-> <<>>, fired |-> <<>>]
      /\ matches = [name \in Names |-> 0] /\ firedNames = {}
      /\ inside = {} /\ late = {}
  BY DEF EngineInit, Names
<1> DEFINE e == Engine(record)
<1>2. /\ e = [world |-> World, rec |-> record, names |-> {}, counts |-> matches]
      /\ World = [doc |-> Seeded.doc, threads |-> Seeded.threads]
  BY <1>1 DEF Engine, World
<1>3. IsWorld(World) /\ DocInv(World.doc)
  BY <1>2, SeededWell DEF IsWorld
<1>4. /\ record.calls = <<>> /\ record.fired = <<>>
      /\ record = [calls |-> record.calls, fired |-> record.fired]
      /\ record.calls \in Seq(Calls) /\ record.fired \in Seq(Entries)
      /\ Len(record.calls) = 0 /\ DOMAIN record.fired = {} /\ DOMAIN record.calls = {}
  BY <1>1
<1>5. matches \in [Names -> Nat]
  BY <1>1
<1>6. EngineOk(e)
  <2>1. /\ e.world = World /\ e.rec = record /\ e.names = {} /\ e.counts = matches
        /\ e = [world |-> e.world, rec |-> e.rec, names |-> e.names,
                counts |-> e.counts]
    BY <1>2
  <2> HIDE DEF e
  <2> QED
    BY <1>3, <1>4, <1>5, <2>1 DEF EngineOk
<1>7. ASSUME NEW i \in DOMAIN script
      PROVE  Told(script[i], Seen(record.calls, script[i]), e)
  <2> DEFINE x == script[i]
  <2>1. x.trigger.nth \in Nat \ {0} /\ x.name \in Names
    BY <1>1, ScriptParsed
  <2>2. Seen(record.calls, x) = {} /\ FiredAt(record.fired, x.name) = {}
    BY <1>4 DEF Seen, FiredAt
  <2>3. matches[x.name] = 0 /\ Cardinality({}) = 0
    BY <1>1, <2>1, FS_EmptySet
  <2> QED
    BY <1>2, <2>1, <2>2, <2>3 DEF Told
<1>8. Len(record.calls) <= MaxCalls
  BY <1>4, EngineAssumption
<1> QED
  BY <1>1, <1>6, <1>7, <1>8 DEF EngineInv, Believes

\* The logs of a call that begins and of one that ends.
Beginning(c) ==
    [calls |-> Append(record.calls, [tool |-> c.tool, op |-> c.op, answer |-> "none"]),
     fired |-> record.fired]
Ending(c) ==
    [calls |-> [record.calls EXCEPT ![c.n].answer = c.step], fired |-> record.fired]

\* What fires at a call is believed, and told.
FiredAs(rec, phase, call) ==
    LET r == Fire(Engine(rec), phase, call) IN
    /\ Believes(record)' /\ record'.calls = rec.calls /\ script' = script
    /\ EngineOk(r) /\ record' = r.rec /\ World' = r.world
    /\ Telling(rec.fired, phase, call) = {} => Tracks(Engine(rec), r, phase, call)

\* The interferences a call may set off.
LEMMA FiresWell ==
  ASSUME script \in Scripts, NEW rec, NEW seen, EngineOk(Engine(rec)),
         Briefed(seen, Engine(rec)), Len(rec.calls) <= MaxCalls,
         RoomFor(PerOp * Len(script)), NEW phase \in Phases,
         NEW call \in DOMAIN rec.calls, call \in Nat,
         \A i \in DOMAIN script :
           /\ Earlier(script[i], seen[i], phase, call, rec.calls[call].tool)
           /\ Seen(rec.calls, script[i])
                = SeenNow(script[i], seen[i], phase, call, rec.calls[call].tool),
         Goes(Fire(Engine(rec), phase, call))
  PROVE  FiredAs(rec, phase, call)
<1> DEFINE e == Engine(rec)
           r == Fire(e, phase, call)
<1>1. e.rec = rec /\ e.world.doc = doc
  BY DEF Engine, World
<1>2. HasRoom(e.world.doc, PerOp * Len(script))
  BY <1>1 DEF HasRoom, RoomFor
<1>3. Partway(e, seen, phase, call, Len(script), r)
  <2>1. EngineOk(e) /\ Briefed(seen, e)
    OBVIOUS
  <2> HIDE DEF e
  <2>2. /\ call \in DOMAIN e.rec.calls
        /\ \A i \in DOMAIN script :
             Earlier(script[i], seen[i], phase, call, e.rec.calls[call].tool)
    BY <1>1
  <2> QED
    BY <1>2, <2>1, <2>2, FireTells
<1> HIDE DEF e, r
<1>4. Len(script) \in Nat /\ DOMAIN script = 1..Len(script)
  BY ScriptParsed
<1>5. EngineOk(r) /\ r.rec.calls = rec.calls
  BY <1>1, <1>3 DEF Partway
<1>6. \A i \in DOMAIN script : Told(script[i], Seen(rec.calls, script[i]), r)
  <2>1. \A i \in DOMAIN script : i <= Len(script)
    BY <1>4
  <2> QED
    BY <1>1, <1>3, <2>1 DEF Partway
<1>7. Engine(record)' = r /\ record' = r.rec /\ script' = script
  <2>1. Goes(r)
    BY DEF r, e
  <2> QED
    BY <1>5, <2>1, GoesOk DEF Goes
<1>8. EngineOk(Engine(record))'
  <2>1. Names' = Names
    BY <1>7 DEF Names
  <2>2. Entries' = Entries
    BY <2>1 DEF Entries
  <2> QED
    BY <1>5, <1>7, <2>1, <2>2 DEF EngineOk
<1>9. record'.calls = rec.calls
  BY <1>5, <1>7
<1>10. \A i \in DOMAIN script' :
         Told(script[i], Seen(record.calls, script[i]), Engine(record))'
  BY <1>6, <1>7, <1>9
<1>11. /\ record' = r.rec /\ World' = r.world /\ EngineOk(r)
       /\ Telling(rec.fired, phase, call) = {} => Tracks(e, r, phase, call)
  <2>1. Engine(record)'.world = World'
    BY DEF Engine
  <2> QED
    BY <1>1, <1>3, <1>5, <1>7, <2>1 DEF Partway
<1>12. Believes(record)'
  BY <1>8, <1>9, <1>10 DEF Believes
<1> QED
  BY <1>7, <1>9, <1>11, <1>12 DEF FiredAs, e, r

\* A call begins.
LEMMA EnterFires ==
  ASSUME EngineInv, Enter
  PROVE  EngineInv' /\ \E c \in CallMenu :
           LET n == Len(record.calls) + 1
           IN /\ FiredAs(Beginning(c), "before", n)
              /\ inside' = {[n |-> n, step |-> "read", op |-> c.op]}
<1>1. /\ script \in Scripts /\ Believes(record) /\ inside = {} /\ late' = late
      /\ Len(record.calls) < MaxCalls /\ RoomFor(PerOp * Len(script))
      /\ \A op \in late : WellFormed(op)
  BY DEF EngineInv, Enter, LockIsFree
<1> DEFINE n == Len(record.calls) + 1
           New(c) == [tool |-> c.tool, op |-> c.op, answer |-> "none"]
           Rec(c) == [record EXCEPT !.calls = Append(@, New(c))]
<1>2. PICK c \in CallMenu :
        /\ Goes(Fire(Engine(Rec(c)), "before", n))
        /\ inside' = inside \cup {[n |-> n, step |-> "read", op |-> c.op]}
  BY DEF Enter
<1> DEFINE new == New(c)
           calls == Append(record.calls, new)
           rec == [calls |-> calls, fired |-> record.fired]
           seen == SeenIn(record.calls)
<1>3. /\ record = [calls |-> record.calls, fired |-> record.fired]
      /\ record.calls \in Seq(Calls) /\ EngineOk(Engine(record))
      /\ Len(record.calls) \in Nat /\ DOMAIN record.calls = 1..Len(record.calls)
  <2>1. Engine(record).rec = record
    BY DEF Engine
  <2>2. /\ record = [calls |-> record.calls, fired |-> record.fired]
        /\ record.calls \in Seq(Calls) /\ EngineOk(Engine(record))
    BY <1>1, <2>1 DEF Believes, EngineOk
  <2> QED
    BY <2>2
<1>4. Rec(c) = rec
  BY <1>3
<1>5. new \in Calls /\ new.answer = "none" /\ new.tool = c.tool
  BY DEF Calls, Answers
<1>6. /\ calls \in Seq(Calls) /\ DOMAIN calls = 1..n /\ Len(calls) = n
      /\ calls[n] = new /\ n \in Nat /\ n \in DOMAIN calls
      /\ DOMAIN record.calls \subseteq DOMAIN calls
  <2> HIDE DEF new
  <2> QED
    BY <1>3, <1>5
<1>7. rec.calls = calls /\ rec = [calls |-> rec.calls, fired |-> record.fired]
  OBVIOUS
<1> HIDE DEF rec, calls, new, Rec, New
<1>8. /\ EngineOk(Engine(rec))
      /\ \A x, S : Told(x, S, Engine(record)) => Told(x, S, Engine(rec))
  BY <1>3, <1>6, <1>7, Logged
<1>9. Briefed(seen, Engine(rec))
  BY <1>1, <1>8 DEF Briefed, Believes, SeenIn
<1>10. ASSUME NEW i \in DOMAIN script
       PROVE  /\ Earlier(script[i], seen[i], "before", n, new.tool)
              /\ Seen(calls, script[i]) = SeenNow(script[i], seen[i], "before", n, new.tool)
  <2> DEFINE x == script[i]
  <2>1. x.trigger.when \in Phases
    BY <1>1, ScriptParsed
  <2>2. seen[i] = Seen(record.calls, x)
    BY DEF SeenIn
  <2> HIDE DEF x, seen, n
  <2>3. n = Len(record.calls) + 1
    BY DEF n
  <2>4. /\ Seen(calls, x) = SeenNow(x, Seen(record.calls, x), "before", n, new.tool)
        /\ Earlier(x, Seen(record.calls, x), "before", n, new.tool)
    BY <1>3, <1>5, <2>1, <2>3, SeenBeginning DEF calls
  <2> QED
    BY <2>2, <2>4 DEF x
<1> HIDE DEF n, seen
<1>11. Goes(Fire(Engine(rec), "before", n))
  BY <1>2, <1>4
<1>12. "before" \in Phases /\ Len(rec.calls) <= MaxCalls
  <2>1. n <= MaxCalls
    BY <1>1, <1>3, EngineAssumption DEF n
  <2> QED
    BY <1>6, <1>7, <2>1 DEF Phases
<1>18. FiredAs(rec, "before", n)
  BY <1>1, <1>6, <1>7, <1>8, <1>9, <1>10, <1>11, <1>12, FiresWell
<1>13. Believes(record)' /\ record'.calls = calls
  BY <1>7, <1>18 DEF FiredAs
<1>14. WellFormed(c.op)
  BY EngineAssumption
<1>15. \A b \in inside' : CallOk(b)'
  <2>1. \A b \in inside' : b = [n |-> n, step |-> "read", op |-> c.op]
    BY <1>1, <1>2
  <2> QED
    BY <1>5, <1>6, <1>13, <1>14, <2>1 DEF CallOk, Steps
<1>16. \A a, b \in inside' : a = b
  BY <1>1, <1>2
<1>17. script' = script
  BY <1>2 DEF Goes
<1>19. EngineInv'
  BY <1>1, <1>13, <1>15, <1>16, <1>17 DEF EngineInv
<1>20. FiredAs(Beginning(c), "before", n)
  <2>1. rec = Beginning(c)
    BY DEF rec, calls, new, New, Beginning
  <2> QED
    BY <1>18, <2>1
<1>21. inside' = {[n |-> n, step |-> "read", op |-> c.op]}
  BY <1>1, <1>2
<1> QED
  BY <1>19, <1>20, <1>21 DEF n

\* A call ends.
LEMMA AnswerFires ==
  ASSUME EngineInv, NEW c \in inside, Answer(c)
  PROVE  /\ EngineInv' /\ FiredAs(Ending(c), "after", c.n) /\ inside' = {}
         /\ disk' = Snapshot(World, record)'
<1>1. /\ script \in Scripts /\ Believes(record) /\ CallOk(c)
      /\ \A b \in inside : b = c
      /\ \A op \in late : WellFormed(op)
  BY DEF EngineInv
<1> DEFINE n == c.n
           calls == [record.calls EXCEPT ![n].answer = c.step]
           rec == [calls |-> calls, fired |-> record.fired]
           seen == SeenIn(record.calls)
<1>2. /\ c.step \in {"ok", "error"} /\ RoomFor(PerOp * Len(script))
      /\ Goes(Fire(Engine([record EXCEPT !.calls[c.n].answer = c.step]), "after", c.n))
      /\ inside' = inside \ {c} /\ late' = late
  BY DEF Answer
<1>3. /\ record = [calls |-> record.calls, fired |-> record.fired]
      /\ record.calls \in Seq(Calls) /\ EngineOk(Engine(record))
  <2>1. Engine(record).rec = record
    BY DEF Engine
  <2> QED
    BY <1>1, <2>1 DEF Believes, EngineOk
<1>4. [record EXCEPT !.calls[c.n].answer = c.step] = rec
  <2> DEFINE cs == record.calls
             fs == record.fired
  <2>1. record = [calls |-> cs, fired |-> fs]
    BY <1>3
  <2>2. rec = [calls |-> [cs EXCEPT ![c.n].answer = c.step], fired |-> fs]
    OBVIOUS
  <2> HIDE DEF cs, fs, rec
  <2> QED
    BY <2>1, <2>2
<1>5. /\ n \in DOMAIN record.calls /\ n = Len(record.calls)
      /\ record.calls[n].answer = "none"
  BY <1>1 DEF CallOk
<1>6. rec.calls = calls /\ rec = [calls |-> rec.calls, fired |-> record.fired]
  OBVIOUS
<1> HIDE DEF n, rec
<1>7. ASSUME NEW x, x.trigger.when \in Phases
      PROVE  /\ calls \in Seq(Calls) /\ DOMAIN calls = DOMAIN record.calls
             /\ n \in Nat /\ Len(calls) = Len(record.calls)
             /\ Seen(calls, x)
                  = SeenNow(x, Seen(record.calls, x), "after", n, calls[n].tool)
             /\ Earlier(x, Seen(record.calls, x), "after", n, calls[n].tool)
  <2>1. calls = [record.calls EXCEPT ![n].answer = c.step]
    OBVIOUS
  <2> DEFINE old == record.calls
             step == c.step
  <2>2. /\ old \in Seq(Calls) /\ n \in DOMAIN old /\ n = Len(old)
        /\ old[n].answer = "none" /\ step \in {"ok", "error"}
        /\ calls = [old EXCEPT ![n].answer = step]
    BY <1>2, <1>3, <1>5
  <2> HIDE DEF calls, old, step
  <2>3. x.trigger.when \in Phases
    BY <1>7
  <2>4. Ends(old, n, x, calls)
    BY <2>2, <2>3, SeenAnswered
  <2> QED
    BY <2>4 DEF old, Ends
<1> HIDE DEF calls
<1>8. /\ calls \in Seq(Calls) /\ DOMAIN calls = DOMAIN record.calls
      /\ n \in Nat /\ Len(calls) = Len(record.calls)
  <2> DEFINE x == [trigger |-> [when |-> "after"]]
  <2>1. x.trigger.when \in Phases
    BY DEF Phases
  <2> HIDE DEF x
  <2> QED
    BY <1>7, <2>1
<1>9. /\ EngineOk(Engine(rec))
      /\ \A x, S : Told(x, S, Engine(record)) => Told(x, S, Engine(rec))
  BY <1>3, <1>6, <1>8, Logged
<1>10. Briefed(seen, Engine(rec))
  BY <1>1, <1>9 DEF Briefed, Believes, SeenIn
<1>11. ASSUME NEW i \in DOMAIN script
       PROVE  /\ Earlier(script[i], seen[i], "after", n, calls[n].tool)
              /\ Seen(calls, script[i])
                   = SeenNow(script[i], seen[i], "after", n, calls[n].tool)
  <2>1. script[i].trigger.when \in Phases
    BY <1>1, ScriptParsed
  <2>2. seen[i] = Seen(record.calls, script[i])
    BY DEF SeenIn
  <2> HIDE DEF seen
  <2> QED
    BY <1>7, <2>1, <2>2
<1> HIDE DEF seen
<1>12. "after" \in Phases /\ Len(rec.calls) <= MaxCalls
  BY <1>1, <1>6, <1>8 DEF Phases, Believes
<1>13. Goes(Fire(Engine(rec), "after", n))
  BY <1>2, <1>4 DEF n
<1>14. FiredAs(rec, "after", n)
  BY <1>1, <1>2, <1>5, <1>6, <1>8, <1>9, <1>10, <1>11, <1>12, <1>13, FiresWell
<1>15. inside' = {} /\ script' = script
  BY <1>1, <1>2 DEF Goes
<1>16. rec = Ending(c)
  BY DEF rec, calls, n, Ending
<1>17. EngineInv'
  BY <1>1, <1>2, <1>14, <1>15 DEF EngineInv, FiredAs
<1>18. disk' = Snapshot(World, record)'
  <2> DEFINE e == Fire(Engine(rec), "after", n)
  <2>1. disk' = Snapshot(e.world, e.rec)
    <3>1. e = Fire(Engine([record EXCEPT !.calls[c.n].answer = c.step]), "after", c.n)
      BY <1>4 DEF n
    <3> HIDE DEF e
    <3> QED
      BY <3>1 DEF Answer, AfterAnswer
  <2>2. World' = e.world /\ record' = e.rec
    BY <1>14 DEF FiredAs
  <2> QED
    BY <2>1, <2>2 DEF Snapshot
<1> QED
  BY <1>14, <1>15, <1>16, <1>17, <1>18 DEF n

\* A request changes the document, and the engine believes what it did.
LEMMA WorldMoves ==
  ASSUME Believes(record), NEW w, IsWorld(w), DocInv(w.doc), Becomes(w),
         UNCHANGED <<script, record, matches, firedNames>>
  PROVE  Believes(record)'
<1> DEFINE e == Engine(record)
<1>1. /\ e = [world |-> World, rec |-> record, names |-> firedNames, counts |-> matches]
      /\ EngineOk(e)
      /\ \A i \in DOMAIN script : Told(script[i], Seen(record.calls, script[i]), e)
      /\ Len(record.calls) <= MaxCalls
  BY DEF Believes, Engine
<1>2. /\ w = [doc |-> w.doc, threads |-> w.threads] /\ doc' = w.doc
      /\ threads' = w.threads
  BY DEF IsWorld, Becomes
<1>3. /\ script' = script /\ record' = record /\ matches' = matches
      /\ firedNames' = firedNames
  OBVIOUS
<1>4. e' = [world |-> w, rec |-> record, names |-> firedNames, counts |-> matches]
  BY <1>2, <1>3 DEF Engine, World
<1> HIDE DEF e
<1>5. EngineOk(e)'
  <2>1. Names' = Names
    BY <1>3 DEF Names
  <2>2. Entries' = Entries
    BY <2>1 DEF Entries
  <2>3. /\ e'.world = w /\ e'.rec = e.rec /\ e'.names = e.names
        /\ e'.counts = e.counts
        /\ e' = [world |-> e'.world, rec |-> e'.rec, names |-> e'.names,
                 counts |-> e'.counts]
    BY <1>1, <1>4
  <2> QED
    BY <1>1, <2>1, <2>2, <2>3 DEF EngineOk
<1>6. \A i \in DOMAIN script' :
        Told(script[i], Seen(record.calls, script[i]), e)'
  <2>1. /\ e'.rec.fired = e.rec.fired /\ e'.names = e.names /\ e'.counts = e.counts
    BY <1>1, <1>4
  <2>2. \A x, S : Told(x, S, e) => Told(x, S, e')
    BY <2>1 DEF Told
  <2> QED
    BY <1>1, <1>3, <2>2
<1> QED
  BY <1>1, <1>3, <1>5, <1>6 DEF Believes, e

\* The world is one.
LEMMA WorldOk ==
  ASSUME Believes(record)
  PROVE  IsWorld(World) /\ DocInv(World.doc) /\ World.doc = doc
BY DEF Believes, EngineOk, Engine, World, IsWorld

\* What a tool goes by is as well formed as what it was asked for.
LEMMA AsReadFormed ==
  ASSUME NEW op, WellFormed(op), NEW read \in AsRead(op)
  PROVE  WellFormed(read)
<1>1. CASE op.kind # "overlapping_suggestion"
  BY <1>1 DEF AsRead
<1>2. CASE op.kind = "overlapping_suggestion"
  <2>1. PICK i : read = [op EXCEPT !.at = [how |-> "at", n |-> i, cp |-> <<>>]]
    BY <1>2 DEF AsRead
  <2> DEFINE at == [how |-> "at", n |-> i, cp |-> <<>>]
  <2>2. {"kind", "by", "seg", "at"} \subseteq DOMAIN op /\ "mode" \in DOMAIN op
    BY <1>2 DEF WellFormed, EditKinds
  <2>3. at.how = "at"
    OBVIOUS
  <2> HIDE DEF at
  <2>4. /\ DOMAIN read = DOMAIN op /\ read.at = at /\ read.kind = op.kind
        /\ read.by = op.by /\ read.seg = op.seg /\ read.mode = op.mode
    BY <2>1, <2>2 DEF at
  <2> QED
    BY <2>3, <2>4 DEF WellFormed
<1> QED
  BY <1>1, <1>2

\* The steps that leave the engine alone.
LEMMA RequestOk ==
  ASSUME EngineInv, NEW c \in inside, NEW next, NEW w, IsWorld(w), DocInv(w.doc),
         Becomes(w), UNCHANGED <<script, record, matches, firedNames, late>>,
         inside' = (inside \ {c}) \cup {next},
         next = [n |-> c.n, step |-> next.step, op |-> next.op],
         next.step \in Steps, WellFormed(next.op)
  PROVE  EngineInv'
<1>1. /\ script \in Scripts /\ Believes(record) /\ CallOk(c)
      /\ \A b \in inside : b = c
      /\ \A op \in late : WellFormed(op)
  BY DEF EngineInv
<1>2. Believes(record)'
  BY <1>1, WorldMoves
<1>3. inside' = {next} /\ script' = script /\ late' = late /\ record' = record
  BY <1>1
<1>4. next.n = c.n
  OBVIOUS
<1>5. \A b \in inside' : CallOk(b)'
  BY <1>1, <1>3, <1>4 DEF CallOk
<1> QED
  BY <1>1, <1>2, <1>3, <1>5 DEF EngineInv

\* A call with some of its fields replaced.
LEMMA CallFields ==
  ASSUME NEW c, c = [n |-> c.n, step |-> c.step, op |-> c.op], NEW step, NEW op
  PROVE  /\ [c EXCEPT !.step = step] = [n |-> c.n, step |-> step, op |-> c.op]
         /\ [c EXCEPT !.step = step, !.op = op] = [n |-> c.n, step |-> step, op |-> op]
<1> DEFINE number == c.n
           last == c.step
           asked == c.op
<1>1. c = [n |-> number, step |-> last, op |-> asked]
  OBVIOUS
<1> HIDE DEF number, last, asked
<1>2. [c EXCEPT !.step = step] = [n |-> number, step |-> step, op |-> asked]
  BY <1>1
<1>3. [c EXCEPT !.step = step, !.op = op] = [n |-> number, step |-> step, op |-> op]
  <2> DEFINE d == [c EXCEPT !.step = step]
             next == [d EXCEPT !.op = op]
  <2>1. next = [n |-> number, step |-> step, op |-> op]
    <3>1. d = [n |-> number, step |-> step, op |-> asked]
      BY <1>2
    <3> HIDE DEF d
    <3> QED
      BY <3>1
  <2>2. next = [c EXCEPT !.step = step, !.op = op]
    OBVIOUS
  <2> HIDE DEF next
  <2> QED
    BY <2>1, <2>2
<1> QED
  BY <1>2, <1>3 DEF number, asked

LEMMA ReadOk ==
  ASSUME EngineInv, NEW c \in inside, Read(c)
  PROVE  EngineInv'
<1>1. /\ Believes(record) /\ CallOk(c) /\ IsWorld(World) /\ DocInv(World.doc)
  BY WorldOk DEF EngineInv
<1>2. /\ UNCHANGED <<doc, threads>>
      /\ UNCHANGED <<script, record, matches, firedNames, late>>
  BY DEF Read
<1>3. Becomes(World)
  BY <1>2 DEF Becomes, World
<1>4. c = [n |-> c.n, step |-> c.step, op |-> c.op] /\ WellFormed(c.op)
  BY <1>1 DEF CallOk
<1> HIDE DEF World
<1>5. CASE inside' = (inside \ {c}) \cup
               {[c EXCEPT !.step = IF c.op.kind = "none" THEN "ok" ELSE "error"]}
  <2> DEFINE step == IF c.op.kind = "none" THEN "ok" ELSE "error"
             next == [c EXCEPT !.step = step]
  <2>1. step \in Steps
    BY DEF Steps
  <2> HIDE DEF step
  <2>2. next = [n |-> c.n, step |-> step, op |-> c.op]
    BY <1>4, CallFields
  <2>3. inside' = (inside \ {c}) \cup {next}
    BY <1>5 DEF step
  <2> HIDE DEF next
  <2>4. /\ next = [n |-> c.n, step |-> next.step, op |-> next.op]
        /\ next.step \in Steps /\ WellFormed(next.op)
    BY <1>4, <2>1, <2>2
  <2> QED
    BY <1>1, <1>2, <1>3, <2>3, <2>4, RequestOk
<1>6. ASSUME NEW op \in AsRead(c.op),
             inside' = (inside \ {c}) \cup {[c EXCEPT !.step = "write", !.op = op]}
      PROVE  EngineInv'
  <2> DEFINE next == [c EXCEPT !.step = "write", !.op = op]
  <2>1. next = [n |-> c.n, step |-> "write", op |-> op]
    BY <1>4, CallFields
  <2>2. inside' = (inside \ {c}) \cup {next}
    BY <1>6
  <2>3. WellFormed(op)
    BY <1>4, AsReadFormed
  <2> HIDE DEF next
  <2>4. /\ next = [n |-> c.n, step |-> next.step, op |-> next.op]
        /\ next.step \in Steps /\ WellFormed(next.op)
    BY <2>1, <2>3 DEF Steps
  <2> QED
    BY <1>1, <1>2, <1>3, <2>2, <2>4, RequestOk
<1> QED
  BY <1>5, <1>6 DEF Read

\* A request carried out or refused leaves a world.
LEMMA CarriedOut ==
  ASSUME Believes(record), RoomFor(PerOp), NEW op, WellFormed(op),
         NEW w, w = Handled(World, op).world \/ w = World
  PROVE  IsWorld(w) /\ DocInv(w.doc)
<1>1. IsWorld(World) /\ DocInv(World.doc) /\ World.doc = doc
  BY WorldOk
<1>2. HasRoom(World.doc, PerOp)
  BY <1>1 DEF HasRoom, RoomFor
<1>3. Behaves(World, Handled(World, op))
  BY <1>1, <1>2, HandledBehaves
<1> QED
  BY <1>1, <1>3 DEF Behaves, Grows

LEMMA WriteOk ==
  ASSUME EngineInv, NEW c \in inside, Write(c)
  PROVE  EngineInv'
<1>1. Believes(record) /\ CallOk(c) /\ RoomFor(PerOp)
  BY DEF EngineInv, Write
<1> DEFINE r == Handled(World, c.op)
           w == IF Accepted(r, c.op) THEN r.world ELSE World
           step == IF Accepted(r, c.op) THEN "ok" ELSE "error"
           next == [c EXCEPT !.step = step]
<1>2. /\ Becomes(w) /\ inside' = (inside \ {c}) \cup {next}
      /\ UNCHANGED <<script, record, matches, firedNames, late>>
  BY DEF Write
<1>3. c = [n |-> c.n, step |-> c.step, op |-> c.op] /\ WellFormed(c.op)
  BY <1>1 DEF CallOk
<1>4. w = r.world \/ w = World
  OBVIOUS
<1>5. step \in Steps
  BY DEF Steps
<1> HIDE DEF w, step
<1>6. IsWorld(w) /\ DocInv(w.doc)
  BY <1>1, <1>3, <1>4, CarriedOut
<1>7. next = [n |-> c.n, step |-> step, op |-> c.op]
  BY <1>3, CallFields
<1> HIDE DEF next
<1>8. /\ next = [n |-> c.n, step |-> next.step, op |-> next.op]
      /\ next.step \in Steps /\ WellFormed(next.op)
  BY <1>3, <1>5, <1>7
<1> QED
  BY <1>2, <1>6, <1>8, RequestOk

LEMMA LateWriteOk ==
  ASSUME EngineInv, LateWrite
  PROVE  EngineInv'
<1>1. /\ script \in Scripts /\ Believes(record) /\ RoomFor(PerOp)
      /\ \A c \in inside : CallOk(c)
      /\ \A b, c \in inside : b = c
      /\ \A op \in late : WellFormed(op)
  BY DEF EngineInv, LateWrite
<1>2. PICK op \in late : Becomes(IF Accepted(Handled(World, op), op)
                                 THEN Handled(World, op).world ELSE World)
  BY DEF LateWrite
<1> DEFINE w == IF Accepted(Handled(World, op), op) THEN Handled(World, op).world
                ELSE World
<1>3. w = Handled(World, op).world \/ w = World
  OBVIOUS
<1>4. Becomes(w)
  BY <1>2
<1> HIDE DEF w
<1>5. IsWorld(w) /\ DocInv(w.doc)
  BY <1>1, <1>3, CarriedOut
<1>6. UNCHANGED <<script, record, matches, firedNames>> /\ inside' = inside
      /\ late' = {}
  BY DEF LateWrite
<1>7. Believes(record)'
  BY <1>1, <1>4, <1>5, <1>6, WorldMoves
<1>8. \A c \in inside' : CallOk(c)'
  BY <1>1, <1>6 DEF CallOk
<1> QED
  BY <1>1, <1>6, <1>7, <1>8 DEF EngineInv

\* A call given up, or nothing at all: the engine does not notice.
LEMMA QuietOk ==
  ASSUME EngineInv, UNCHANGED <<doc, script, threads, record, matches, firedNames>>,
         inside' \subseteq inside, \A op \in late' : WellFormed(op)
  PROVE  EngineInv'
<1>1. /\ script \in Scripts /\ Believes(record)
      /\ \A c \in inside : CallOk(c)
      /\ \A b, c \in inside : b = c
  BY DEF EngineInv
<1>2. IsWorld(World) /\ DocInv(World.doc) /\ Becomes(World)
  BY <1>1, WorldOk DEF Becomes, World
<1>3. Believes(record)'
  <2>1. UNCHANGED <<script, record, matches, firedNames>>
    OBVIOUS
  <2> HIDE DEF World
  <2> QED
    BY <1>1, <1>2, <2>1, WorldMoves
<1>4. \A c \in inside' : CallOk(c)'
  BY <1>1 DEF CallOk
<1> QED
  BY <1>1, <1>3, <1>4 DEF EngineInv

LEMMA CancelOk ==
  ASSUME EngineInv, NEW c \in inside, Cancel(c)
  PROVE  EngineInv'
<1>1. /\ UNCHANGED <<doc, script, threads, record, matches, firedNames>>
      /\ inside' \subseteq inside
  BY DEF Cancel
<1>2. WellFormed(c.op) /\ \A op \in late : WellFormed(op)
  BY DEF EngineInv, CallOk
<1>3. late' = late \/ late' = {c.op}
  BY DEF Cancel
<1> QED
  BY <1>1, <1>2, <1>3, QuietOk

THEOREM EngineInvHolds == EngineSpec => []EngineInv
<1>1. EngineInit => EngineInv
  BY InitEngine
<1>2. EngineInv /\ [EngineNext]_engineVars => EngineInv'
  <2> SUFFICES ASSUME EngineInv, [EngineNext]_engineVars PROVE EngineInv'
    OBVIOUS
  <2>1. CASE Enter
    BY <2>1, EnterFires
  <2>2. CASE LateWrite
    BY <2>2, LateWriteOk
  <2>3. ASSUME NEW c \in inside, Read(c) \/ Write(c) \/ Answer(c) \/ Cancel(c)
        PROVE  EngineInv'
    BY <2>3, ReadOk, WriteOk, AnswerFires, CancelOk
  <2>4. CASE UNCHANGED engineVars
    <3>1. /\ UNCHANGED <<doc, script, threads, record, matches, firedNames>>
          /\ inside' = inside /\ late' = late
      BY <2>4 DEF engineVars
    <3>2. \A op \in late : WellFormed(op)
      BY DEF EngineInv
    <3> QED
      BY <3>1, <3>2, QuietOk
  <2> QED
    BY <2>1, <2>2, <2>3, <2>4 DEF EngineNext
<1> QED
  BY <1>1, <1>2, PTL DEF EngineSpec

-----------------------------------------------------------------------------
(* The replay of a record. *)

\* What the record says a call made of the world.
AfterCall(w, rec, n) ==
    Played(Played(Played(w, OpsIn(script, rec, "before", n)), Answered(rec, n)),
           OpsIn(script, rec, "after", n))

\* The worlds between the calls.
Replaying(f, rec, n) ==
    f = [k \in 0..n |-> IF k = 0 THEN Seeded ELSE AfterCall(f[k - 1], rec, k)]

\* Logs of any length can be replayed.
LEMMA ReplayingsExist ==
  ASSUME NEW rec, NEW n \in Nat
  PROVE  \E f : Replaying(f, rec, n)
<1> DEFINE Bad == {m \in Nat : ~ \E f : Replaying(f, rec, m)}
<1>1. SUFFICES ASSUME Bad # {} PROVE FALSE
  OBVIOUS
<1>2. PICK m \in Bad : \A k \in Bad : m <= k
  <2>1. Bad \subseteq Nat
    OBVIOUS
  <2> HIDE DEF Bad
  <2> QED
    BY <1>1, <2>1, LeastNumber
<1>3. m \in Nat /\ ~ \E f : Replaying(f, rec, m)
  OBVIOUS
<1>4. m # 0
  <2> DEFINE f == [k \in 0..0 |-> Seeded]
  <2>1. Replaying(f, rec, 0)
    <3>1. \A k \in 0..0 : k = 0
      OBVIOUS
    <3> QED
      BY <3>1 DEF Replaying
  <2> QED
    BY <1>3, <2>1
<1>5. m - 1 \in Nat /\ m - 1 \notin Bad
  BY <1>2, <1>3, <1>4
<1>6. PICK f : Replaying(f, rec, m - 1)
  BY <1>5
<1> DEFINE g == [k \in 0..m |-> IF k = m THEN AfterCall(f[m - 1], rec, m) ELSE f[k]]
<1>7. ASSUME NEW k \in 0..m
      PROVE  g[k] = IF k = 0 THEN Seeded ELSE AfterCall(g[k - 1], rec, k)
  <2>0. \A j \in 0..(m - 1) : f[j] = IF j = 0 THEN Seeded ELSE AfterCall(f[j - 1], rec, j)
    BY <1>6 DEF Replaying
  <2>1. CASE k = m
    <3>1. k # 0 /\ k - 1 \in 0..m /\ k - 1 # m
      BY <1>3, <1>4, <2>1
    <3> QED
      BY <2>1, <3>1
  <2>2. CASE k # m
    <3>1. k \in 0..(m - 1) /\ (k # 0 => k - 1 \in 0..m /\ k - 1 # m)
      BY <1>3, <1>4, <2>2
    <3> QED
      BY <2>0, <2>2, <3>1
  <2> QED
    BY <2>1, <2>2
<1>8. Replaying(g, rec, m)
  <2>1. g = [k \in 0..m |-> g[k]]
    OBVIOUS
  <2> HIDE DEF g
  <2> QED
    BY <1>7, <2>1 DEF Replaying
<1> QED
  BY <1>3, <1>8

LEMMA ReplayTurns ==
  ASSUME NEW rec, NEW n \in Nat, n = Len(rec.calls)
  PROVE  \E f : Replaying(f, rec, n) /\ Replay(script, rec) = f[n]
<1> DEFINE f == CHOOSE f : Replaying(f, rec, Len(rec.calls))
<1>1. Replay(script, rec) = f[Len(rec.calls)]
  BY DEF Replay, Replaying, AfterCall
<1>2. Replaying(f, rec, Len(rec.calls))
  <2>1. \E h : Replaying(h, rec, Len(rec.calls))
    BY ReplayingsExist
  <2> QED
    BY <2>1
<1> QED
  BY <1>1, <1>2

\* Two records say the same of the calls up to the m-th.
SameTo(rec, now, m) ==
    \A k \in 1..m : \A w : AfterCall(w, rec, k) = AfterCall(w, now, k)

LEMMA ReplaysAgree ==
  ASSUME NEW rec, NEW now, NEW n \in Nat, NEW l \in Nat, NEW m \in Nat, m <= n, m <= l,
         NEW f, Replaying(f, rec, n), NEW g, Replaying(g, now, l), SameTo(rec, now, m)
  PROVE  f[m] = g[m]
<1>1. f[0] = Seeded /\ \A k \in 1..n : f[k] = AfterCall(f[k - 1], rec, k)
  BY DEF Replaying
<1>2. g[0] = Seeded /\ \A k \in 1..l : g[k] = AfterCall(g[k - 1], now, k)
  BY DEF Replaying
<1> DEFINE Bad == {k \in 0..m : f[k] # g[k]}
<1>3. Bad = {}
  <2>1. SUFFICES ASSUME Bad # {} PROVE FALSE
    OBVIOUS
  <2>2. PICK b \in Bad : \A k \in Bad : b <= k
    <3>1. Bad \subseteq Nat
      OBVIOUS
    <3> HIDE DEF Bad
    <3> QED
      BY <2>1, <3>1, LeastNumber
  <2>3. b \in 0..m /\ b # 0
    BY <1>1, <1>2
  <2>4. b \in 1..m /\ b \in 1..n /\ b \in 1..l /\ b - 1 \in 0..m /\ b - 1 \notin Bad
    <3> HIDE DEF Bad
    <3> QED
      BY <2>2, <2>3
  <2>5. f[b - 1] = g[b - 1]
    BY <2>4
  <2>6. AfterCall(f[b - 1], rec, b) = AfterCall(f[b - 1], now, b)
    BY <2>4 DEF SameTo
  <2>7. f[b] = g[b]
    BY <1>1, <1>2, <2>4, <2>5, <2>6
  <2> QED
    BY <2>2, <2>7
<1>4. m \in 0..m
  OBVIOUS
<1> QED
  BY <1>3, <1>4

\* A call more.
LEMMA ReplayNext ==
  ASSUME NEW rec, NEW now, NEW n \in Nat, n = Len(rec.calls),
         Len(now.calls) = n + 1, SameTo(rec, now, n)
  PROVE  Replay(script, now) = AfterCall(Replay(script, rec), now, n + 1)
<1>1. PICK f : Replaying(f, rec, n) /\ Replay(script, rec) = f[n]
  BY ReplayTurns
<1>2. PICK g : Replaying(g, now, n + 1) /\ Replay(script, now) = g[n + 1]
  BY ReplayTurns
<1>3. f[n] = g[n]
  BY <1>1, <1>2, ReplaysAgree
<1>4. g[n + 1] = AfterCall(g[n], now, n + 1)
  <2>1. n + 1 \in 0..(n + 1) /\ n + 1 # 0 /\ (n + 1) - 1 = n
    OBVIOUS
  <2> QED
    BY <1>2, <2>1 DEF Replaying
<1> QED
  BY <1>1, <1>2, <1>3, <1>4

\* Another end of the last call.
LEMMA ReplayLast ==
  ASSUME NEW rec, NEW now, NEW m \in Nat, Len(rec.calls) = m + 1,
         Len(now.calls) = m + 1, SameTo(rec, now, m)
  PROVE  \E w : /\ Replay(script, rec) = AfterCall(w, rec, m + 1)
                /\ Replay(script, now) = AfterCall(w, now, m + 1)
<1> DEFINE n == m + 1
<1>1. PICK f : Replaying(f, rec, n) /\ Replay(script, rec) = f[n]
  BY ReplayTurns
<1>2. PICK g : Replaying(g, now, n) /\ Replay(script, now) = g[n]
  BY ReplayTurns
<1>3. f[m] = g[m]
  BY <1>1, <1>2, ReplaysAgree
<1>4. n \in 0..n /\ n # 0 /\ n - 1 = m
  OBVIOUS
<1>5. f[n] = AfterCall(f[m], rec, n) /\ g[n] = AfterCall(g[m], now, n)
  BY <1>1, <1>2, <1>4 DEF Replaying
<1> QED
  BY <1>1, <1>2, <1>3, <1>5

\* What a tool found is what the operation asks for.
LEMMA AsReadSame ==
  ASSUME NEW w, Typed(w.doc), w.doc = doc, NEW op, WellFormed(op),
         NEW read \in AsRead(op)
  PROVE  Handled(w, read) = Handled(w, op)
<1>1. CASE op.kind # "overlapping_suggestion"
  BY <1>1 DEF AsRead
<1>2. CASE op.kind = "overlapping_suggestion"
  <2> DEFINE chars == doc.segments[op.seg]
             L == Len(chars)
             places == IF op.mode = "insertion" THEN Anchors(chars, op.at)
                       ELSE Spans(chars, op.at)
             At(i) == [how |-> "at", n |-> i, cp |-> <<>>]
  <2>1. PICK i \in places : read = [op EXCEPT !.at = At(i)]
    BY <1>2 DEF AsRead
  <2>2. /\ {"kind", "by", "seg", "at"} \subseteq DOMAIN op /\ "mode" \in DOMAIN op
        /\ op.seg \in Segments /\ op.at.how \in {"at", "end", "before", "after"}
    BY <1>2 DEF WellFormed, EditKinds
  <2>3. chars \in Seq(Chars)
    BY <2>2 DEF Typed
  <2>4. Anchors(chars, op.at) \subseteq 0..L
    BY <2>2, <2>3, AnchorsFit
  <2> DEFINE at == At(i)
  <2>5. at.how = "at" /\ at.n = i
    OBVIOUS
  <2> HIDE DEF At, at, L
  <2>6. /\ read.at = at /\ read.kind = op.kind
        /\ read.by = op.by /\ read.seg = op.seg /\ read.mode = op.mode
    BY <2>1, <2>2 DEF at
  <2> DEFINE hits == {k \in DOMAIN chars : chars[k].cp = op.at.cp}
  <2>7. \A k \in Anchors(chars, op.at) : Anchors(chars, op.at) = {k}
    <3>1. Anchors(chars, op.at) =
            CASE op.at.how = "at"     -> {op.at.n} \cap 0..L
              [] op.at.how = "end"    -> {L}
              [] op.at.how = "before" -> {Min(hits) - 1 : k \in hits}
              [] op.at.how = "after"  -> {Min(hits) : k \in hits}
      BY DEF Anchors, L
    <3> HIDE DEF hits
    <3> QED
      BY <2>2, <3>1
  <2>8. i \in Anchors(chars, op.at)
    BY <2>1 DEF Spans
  <2> HIDE DEF chars
  <2>9. Anchors(chars, op.at) = {i} /\ i \in 0..L
    BY <2>4, <2>7, <2>8
  <2>10. Anchors(chars, at) = {i}
    <3>1. Anchors(chars, at) = {i} \cap 0..Len(chars)
      BY <2>5 DEF Anchors
    <3> QED
      BY <2>9, <3>1 DEF L
  <2>11. Spans(chars, at) = Spans(chars, op.at)
    BY <2>9, <2>10 DEF Spans
  <2>12. OverlappingSuggestion(w, read) = OverlappingSuggestion(w, op)
    BY <2>6, <2>9, <2>10, <2>11 DEF OverlappingSuggestion, chars
  <2> QED
    BY <1>2, <2>6, <2>12 DEF Handled
<1> QED
  BY <1>1, <1>2

-----------------------------------------------------------------------------
(* What the record says of the run. *)

\* Every call of the log was answered, or is under way: none was given up.
Complete ==
    \A n \in DOMAIN record.calls :
      record.calls[n].answer # "none" \/ \E c \in inside : c.n = n

\* Nothing fires after a call before it is answered.
AftersAnswered ==
    \A k \in DOMAIN record.fired :
      record.fired[k].when = "after" =>
        record.calls[record.fired[k].at].answer # "none"

\* Where a call is, against the replay of the record so far, which does not hold
\* the call itself before it is answered.
CallTold(c) ==
    LET asked == record.calls[c.n].op
        told == Replay(script, record)
    IN /\ c.step # "ok" => World = told
       /\ c.step = "ok" => World = Handled(told, asked).world
       /\ c.step = "read" => c.op = asked
       /\ c.step = "write" => Handled(World, c.op) = Handled(World, asked)

RunTold ==
    /\ AftersAnswered
    /\ Complete =>
         /\ late = {}
         /\ inside = {} => /\ World = Replay(script, record)
                           /\ disk = Snapshot(World, record)
         /\ \A c \in inside : CallTold(c)

\* Of what fired, a record tells by its list alone.
LEMMA FiredTell ==
  ASSUME NEW rec, NEW now, now.fired = rec.fired, NEW phase, NEW n
  PROVE  OpsIn(script, now, phase, n) = OpsIn(script, rec, phase, n)
BY DEF OpsIn

\* A record of the run so far.
LEMMA RecordOk ==
  ASSUME EngineInv
  PROVE  /\ record = [calls |-> record.calls, fired |-> record.fired]
         /\ record.calls \in Seq(Calls) /\ Len(record.calls) \in Nat
         /\ DOMAIN record.calls = 1..Len(record.calls)
         /\ \A k \in DOMAIN record.fired : record.fired[k].at \in DOMAIN record.calls
<1>1. EngineOk(Engine(record)) /\ Engine(record).rec = record
  BY DEF EngineInv, Believes, Engine
<1>2. /\ record = [calls |-> record.calls, fired |-> record.fired]
      /\ record.calls \in Seq(Calls)
      /\ \A k \in DOMAIN record.fired : Sound(record.calls, record.fired[k])
  BY <1>1 DEF EngineOk
<1> QED
  BY <1>2 DEF Sound

\* A call that begins is told by what fired before it.
LEMMA EnterTells ==
  ASSUME EngineInv, AftersAnswered, NEW c \in CallMenu,
         FiredAs(Beginning(c), "before", Len(record.calls) + 1)
  PROVE  /\ AftersAnswered'
         /\ World = Replay(script, record) => World' = Replay(script, record)'
         /\ DOMAIN record'.calls = 1..(Len(record.calls) + 1)
         /\ \A k \in DOMAIN record.calls : record'.calls[k] = record.calls[k]
         /\ record'.calls[Len(record.calls) + 1]
              = [tool |-> c.tool, op |-> c.op, answer |-> "none"]
<1> DEFINE L == Len(record.calls)
           n == L + 1
           new == [tool |-> c.tool, op |-> c.op, answer |-> "none"]
           b == Beginning(c)
           r == Fire(Engine(b), "before", n)
           now == record'
<1>1. /\ record.calls \in Seq(Calls) /\ L \in Nat /\ DOMAIN record.calls = 1..L
      /\ \A k \in DOMAIN record.fired : record.fired[k].at \in 1..L
  BY RecordOk
<1>2. /\ now.calls = b.calls /\ script' = script /\ now = r.rec /\ World' = r.world
      /\ Telling(b.fired, "before", n) = {} => Tracks(Engine(b), r, "before", n)
  BY DEF FiredAs
<1>3. b.calls = Append(record.calls, new) /\ b.fired = record.fired
  BY DEF Beginning
<1>4. Engine(b).rec = b /\ Engine(b).world = World
  BY DEF Engine
<1>5. new.answer = "none" /\ new \in Calls
  BY DEF Calls, Answers
<1> HIDE DEF new, b, r, now
<1>6. /\ Len(now.calls) = n /\ now.calls[n] = new
      /\ \A k \in 1..L : now.calls[k] = record.calls[k]
  BY <1>1, <1>2, <1>3, <1>5
<1>7. \A phase : Telling(record.fired, phase, n) = {}
  <2>1. n \notin 1..L
    BY <1>1
  <2> HIDE DEF n, L
  <2> QED
    BY <1>1, <2>1 DEF Telling
<1>8. Tracks(Engine(b), r, "before", n)
  BY <1>2, <1>3, <1>7
<1> HIDE DEF n
<1>9. World' = Played(World, OpsIn(script, now, "before", n))
  BY <1>2, <1>4, <1>8 DEF Tracks
<1>10. \A p, m : ~(p = "before" /\ m = n) =>
         OpsIn(script, now, p, m) = OpsIn(script, record, p, m)
  <2>1. \A p, m : ~(p = "before" /\ m = n) =>
          OpsIn(script, now, p, m) = OpsIn(script, b, p, m)
    BY <1>2, <1>4, <1>8 DEF Tracks
  <2> QED
    BY <1>3, <2>1, FiredTell
<1>11. SameTo(record, now, L)
  <2>1. \A k \in 1..L : k # n
    BY <1>1 DEF n
  <2>2. \A k \in 1..L : Answered(now, k) = Answered(record, k)
    BY <1>6 DEF Answered
  <2>3. \A p : \A k \in 1..L : OpsIn(script, now, p, k) = OpsIn(script, record, p, k)
    BY <1>10, <2>1
  <2> HIDE DEF L
  <2> QED
    BY <2>2, <2>3 DEF SameTo, AfterCall
<1>12. OpsIn(script, now, "after", n) = <<>>
  BY <1>7, <1>10, ToldNothing
<1>13. Answered(now, n) = <<>>
  BY <1>5, <1>6 DEF Answered
<1>14. \A w : AfterCall(w, now, n) = Played(w, OpsIn(script, now, "before", n))
  BY <1>12, <1>13, PlayedFew DEF AfterCall
<1>15. Replay(script, now) = AfterCall(Replay(script, record), now, n)
  BY <1>1, <1>6, <1>11, ReplayNext DEF n
<1>16. World = Replay(script, record) => World' = Replay(script, now)
  BY <1>9, <1>14, <1>15
<1>17. Replay(script, record)' = Replay(script, now)
  BY <1>2 DEF now
<1>18. AftersAnswered'
  <2> SUFFICES ASSUME NEW k \in DOMAIN now.fired, now.fired[k].when = "after"
               PROVE  now.calls[now.fired[k].at].answer # "none"
    BY DEF AftersAnswered, now
  <2>1. PICK j \in DOMAIN record.fired : now.fired[k] = record.fired[j]
    BY <1>2, <1>3, <1>4, <1>8 DEF Tracks
  <2>2. record.calls[record.fired[j].at].answer # "none"
    BY <2>1 DEF AftersAnswered
  <2> QED
    BY <1>1, <1>6, <2>1, <2>2
<1>19. DOMAIN now.calls = 1..n
  BY <1>1, <1>2, <1>3, <1>5 DEF n
<1> QED
  BY <1>1, <1>6, <1>16, <1>17, <1>18, <1>19 DEF now, n, new

\* A call that ends is told by its answer, and by what fired after it.
LEMMA AnswerTells ==
  ASSUME EngineInv, AftersAnswered, NEW c \in inside, CallTold(c),
         c.step \in {"ok", "error"}, FiredAs(Ending(c), "after", c.n)
  PROVE  World' = Replay(script, record)'
<1> DEFINE n == c.n
           b == Ending(c)
           r == Fire(Engine(b), "after", n)
           now == record'
<1>1. /\ record.calls \in Seq(Calls) /\ DOMAIN record.calls = 1..n /\ n \in Nat \ {0}
      /\ n = Len(record.calls) /\ record.calls[n].answer = "none"
  <2>1. CallOk(c)
    BY DEF EngineInv
  <2> QED
    BY <2>1, RecordOk DEF CallOk
<1>2. /\ now.calls = b.calls /\ script' = script /\ now = r.rec /\ World' = r.world
      /\ Telling(b.fired, "after", n) = {} => Tracks(Engine(b), r, "after", n)
  BY DEF FiredAs
<1>3. b.calls = [record.calls EXCEPT ![n].answer = c.step] /\ b.fired = record.fired
  BY DEF Ending
<1>4. Engine(b).rec = b /\ Engine(b).world = World
  BY DEF Engine
<1> HIDE DEF b, r, now
<1>5. Telling(record.fired, "after", n) = {}
  BY <1>1 DEF Telling, AftersAnswered
<1>6. Tracks(Engine(b), r, "after", n)
  BY <1>2, <1>3, <1>5
<1> DEFINE asked == record.calls[n].op
<1>7. /\ now.calls = [record.calls EXCEPT ![n].answer = c.step]
      /\ Len(now.calls) = n
      /\ \A k \in 1..n : k # n => now.calls[k] = record.calls[k]
      /\ now.calls[n].answer = c.step /\ now.calls[n].op = asked
  <2>1. now.calls = [record.calls EXCEPT ![n].answer = c.step]
    BY <1>2, <1>3
  <2>2. record.calls[n] \in Calls
    BY <1>1
  <2> HIDE DEF n
  <2> QED
    BY <1>1, <2>1, <2>2 DEF Calls
<1> HIDE DEF n, asked
<1>8. World' = Played(World, OpsIn(script, now, "after", n))
  BY <1>2, <1>4, <1>6 DEF Tracks
<1>9. \A p, m : ~(p = "after" /\ m = n) =>
        OpsIn(script, now, p, m) = OpsIn(script, record, p, m)
  <2>1. \A p, m : ~(p = "after" /\ m = n) =>
          OpsIn(script, now, p, m) = OpsIn(script, b, p, m)
    BY <1>2, <1>4, <1>6 DEF Tracks
  <2> QED
    BY <1>3, <2>1, FiredTell
<1>10. SameTo(record, now, n - 1)
  <2>1. \A k \in 1..(n - 1) : k # n /\ k \in 1..n
    BY <1>1
  <2>2. \A k \in 1..(n - 1) : Answered(now, k) = Answered(record, k)
    BY <1>7, <2>1 DEF Answered
  <2>3. \A p : \A k \in 1..(n - 1) :
          OpsIn(script, now, p, k) = OpsIn(script, record, p, k)
    BY <1>9, <2>1
  <2> QED
    BY <2>2, <2>3 DEF SameTo, AfterCall
<1>11. PICK w : /\ Replay(script, record) = AfterCall(w, record, n)
                /\ Replay(script, now) = AfterCall(w, now, n)
  <2> DEFINE m == n - 1
  <2>1. /\ m \in Nat /\ n = m + 1
        /\ Len(record.calls) = m + 1 /\ Len(now.calls) = m + 1
    BY <1>1, <1>7
  <2>2. SameTo(record, now, m)
    BY <1>10
  <2> HIDE DEF m
  <2>3. \E w : /\ Replay(script, record) = AfterCall(w, record, m + 1)
               /\ Replay(script, now) = AfterCall(w, now, m + 1)
    BY <2>1, <2>2, ReplayLast
  <2> QED
    BY <2>1, <2>3
<1> DEFINE told == Played(w, OpsIn(script, record, "before", n))
<1>12. OpsIn(script, now, "before", n) = OpsIn(script, record, "before", n)
  BY <1>9
<1>13. Answered(record, n) = <<>> /\ OpsIn(script, record, "after", n) = <<>>
  BY <1>1, <1>5, ToldNothing DEF Answered
<1>14. Replay(script, record) = told
  BY <1>11, <1>13, PlayedFew DEF AfterCall
<1>15. Answered(now, n) = IF c.step = "ok" THEN <<asked>> ELSE <<>>
  BY <1>7 DEF Answered
<1> HIDE DEF told
<1>16. World = Played(told, Answered(now, n))
  <2>1. /\ c.step # "ok" => World = told
        /\ c.step = "ok" => World = Handled(told, asked).world
    BY <1>14 DEF CallTold, n, asked
  <2> QED
    BY <1>15, <2>1, PlayedFew
<1>17. Replay(script, now) = Played(World, OpsIn(script, now, "after", n))
  BY <1>11, <1>12, <1>16 DEF AfterCall, told
<1>18. Replay(script, record)' = Replay(script, now)
  BY <1>2 DEF now
<1> QED
  BY <1>8, <1>17, <1>18

LEMMA AnswerKeepsAfters ==
  ASSUME EngineInv, AftersAnswered, NEW c \in inside, c.step \in {"ok", "error"},
         FiredAs(Ending(c), "after", c.n)
  PROVE  /\ AftersAnswered'
         /\ DOMAIN record'.calls = DOMAIN record.calls
         /\ \A k \in DOMAIN record.calls :
              k # c.n => record'.calls[k] = record.calls[k]
<1> DEFINE n == c.n
           b == Ending(c)
           r == Fire(Engine(b), "after", n)
           now == record'
<1>1. /\ DOMAIN record.calls = 1..n /\ record.calls[n].answer = "none"
      /\ record.calls \in Seq(Calls) /\ n \in DOMAIN record.calls
      /\ \A k \in DOMAIN record.fired : record.fired[k].at \in DOMAIN record.calls
  <2>1. CallOk(c)
    BY DEF EngineInv
  <2> QED
    BY <2>1, RecordOk DEF CallOk
<1>2. /\ now.calls = b.calls /\ now = r.rec
      /\ Telling(b.fired, "after", n) = {} => Tracks(Engine(b), r, "after", n)
  BY DEF FiredAs
<1>3. b.calls = [record.calls EXCEPT ![n].answer = c.step] /\ b.fired = record.fired
  BY DEF Ending
<1>4. Engine(b).rec = b
  BY DEF Engine
<1> HIDE DEF b, r, now
<1>5. Telling(record.fired, "after", n) = {}
  BY <1>1 DEF Telling, AftersAnswered
<1>6. Tracks(Engine(b), r, "after", n)
  BY <1>2, <1>3, <1>5
<1>7. /\ DOMAIN now.calls = DOMAIN record.calls
      /\ \A k \in DOMAIN record.calls : k # n => now.calls[k] = record.calls[k]
      /\ now.calls[n].answer = c.step
  <2>1. now.calls = [record.calls EXCEPT ![n].answer = c.step]
    BY <1>2, <1>3
  <2>2. record.calls[n] \in Calls
    BY <1>1
  <2> HIDE DEF n
  <2> QED
    BY <1>1, <2>1, <2>2 DEF Calls
<1> HIDE DEF n
<1>8. AftersAnswered'
  <2> SUFFICES ASSUME NEW k \in DOMAIN now.fired, now.fired[k].when = "after"
               PROVE  now.calls[now.fired[k].at].answer # "none"
    BY DEF AftersAnswered, now
  <2>1. \/ \E j \in DOMAIN record.fired : now.fired[k] = record.fired[j]
        \/ now.fired[k].at = n
    BY <1>2, <1>3, <1>4, <1>6 DEF Tracks
  <2>2. CASE now.fired[k].at = n
    BY <1>7, <2>2 DEF n
  <2>3. ASSUME NEW j \in DOMAIN record.fired, now.fired[k] = record.fired[j]
        PROVE  now.calls[now.fired[k].at].answer # "none"
    <3>1. record.calls[record.fired[j].at].answer # "none"
      BY <2>3 DEF AftersAnswered
    <3>2. record.fired[j].at # n /\ record.fired[j].at \in DOMAIN record.calls
      BY <1>1, <3>1
    <3> QED
      BY <1>7, <2>3, <3>1, <3>2
  <2> QED
    BY <2>1, <2>2, <2>3
<1> QED
  BY <1>7, <1>8 DEF now, n

LEMMA InitTold ==
  ASSUME EngineInit
  PROVE  RunTold
<1>1. /\ doc = Seeded.doc /\ threads = Seeded.threads
      /\ record = [calls |-> <<>>, fired |-> <<>>]
      /\ inside = {} /\ late = {} /\ disk = Snapshot(Seeded, record)
  BY DEF EngineInit
<1>2. Len(record.calls) = 0 /\ DOMAIN record.calls = {} /\ DOMAIN record.fired = {}
  BY <1>1
<1>3. World = Seeded
  BY <1>1, SeededWell DEF World, IsWorld
<1>4. PICK f : Replaying(f, record, 0) /\ Replay(script, record) = f[0]
  BY <1>2, ReplayTurns
<1>5. f[0] = Seeded
  BY <1>4 DEF Replaying
<1>6. World = Replay(script, record) /\ disk = Snapshot(World, record)
  BY <1>1, <1>3, <1>4, <1>5
<1> QED
  BY <1>1, <1>2, <1>6 DEF RunTold, AftersAnswered

LEMMA EnterTold ==
  ASSUME EngineInv, RunTold, Enter
  PROVE  RunTold'
<1> DEFINE n == Len(record.calls) + 1
<1>1. PICK c \in CallMenu :
        /\ FiredAs(Beginning(c), "before", n)
        /\ inside' = {[n |-> n, step |-> "read", op |-> c.op]}
  BY EnterFires
<1>2. inside = {} /\ late' = late
  BY DEF Enter, LockIsFree
<1>3. /\ AftersAnswered'
      /\ World = Replay(script, record) => World' = Replay(script, record)'
      /\ DOMAIN record'.calls = 1..n
      /\ \A k \in DOMAIN record.calls : record'.calls[k] = record.calls[k]
      /\ record'.calls[n] = [tool |-> c.tool, op |-> c.op, answer |-> "none"]
  BY <1>1, EnterTells DEF RunTold
<1>4. Len(record.calls) \in Nat /\ DOMAIN record.calls = 1..Len(record.calls)
  BY RecordOk
<1>5. Complete' => Complete
  <2> SUFFICES ASSUME Complete', NEW k \in DOMAIN record.calls
               PROVE  record.calls[k].answer # "none"
    BY DEF Complete
  <2>1. k \in DOMAIN record'.calls /\ k # n
    BY <1>3, <1>4
  <2>2. \A b \in inside' : b.n # k
    BY <1>1, <2>1
  <2>3. record'.calls[k].answer # "none"
    BY <2>1, <2>2 DEF Complete
  <2> QED
    BY <1>3, <2>3
<1>6. ASSUME Complete
      PROVE  /\ late' = {} /\ inside' # {}
             /\ \A b \in inside' : CallTold(b)'
  <2>1. World' = Replay(script, record)' /\ late = {}
    BY <1>2, <1>3, <1>6 DEF RunTold
  <2>2. inside' # {}
    BY <1>1
  <2>3. ASSUME NEW b \in inside'
        PROVE  CallTold(b)'
    <3>1. b.step = "read" /\ b.op = c.op /\ b.n = n
      BY <1>1
    <3>2. record'.calls[b.n].op = c.op
      BY <1>3, <3>1
    <3> QED
      BY <2>1, <3>1, <3>2 DEF CallTold
  <2> QED
    BY <1>2, <2>1, <2>2, <2>3
<1> QED
  BY <1>3, <1>5, <1>6 DEF RunTold

LEMMA AnswerTold ==
  ASSUME EngineInv, RunTold, NEW c \in inside, Answer(c)
  PROVE  RunTold'
<1>1. /\ c.step \in {"ok", "error"} /\ late' = late
  BY DEF Answer
<1>2. /\ FiredAs(Ending(c), "after", c.n) /\ inside' = {}
      /\ disk' = Snapshot(World, record)'
  BY AnswerFires
<1>3. /\ AftersAnswered' /\ DOMAIN record'.calls = DOMAIN record.calls
      /\ \A k \in DOMAIN record.calls :
           k # c.n => record'.calls[k] = record.calls[k]
  BY <1>1, <1>2, AnswerKeepsAfters DEF RunTold
<1>4. Complete' => Complete
  <2> SUFFICES ASSUME Complete', NEW k \in DOMAIN record.calls, k # c.n
               PROVE  record.calls[k].answer # "none"
    BY DEF Complete
  <2>1. record'.calls[k].answer # "none"
    BY <1>2, <1>3 DEF Complete
  <2> QED
    BY <1>3, <2>1
<1>5. Complete => World' = Replay(script, record)' /\ late' = {}
  BY <1>1, <1>2, AnswerTells DEF RunTold
<1> QED
  BY <1>2, <1>3, <1>4, <1>5 DEF RunTold

\* A call goes on, and the record is as it was.
LEMMA RequestTold ==
  ASSUME EngineInv, RunTold, NEW c \in inside, NEW next, next.n = c.n,
         UNCHANGED <<script, record, late>>,
         inside' = (inside \ {c}) \cup {next}, CallTold(c) => CallTold(next)'
  PROVE  RunTold'
<1>1. inside = {c} /\ inside' = {next}
  BY DEF EngineInv
<1>2. AftersAnswered'
  BY DEF RunTold, AftersAnswered
<1>3. Complete' => Complete
  BY <1>1 DEF Complete
<1>4. Complete => late = {} /\ CallTold(c)
  BY DEF RunTold
<1>5. inside' # {} /\ late' = late
  BY <1>1
<1>6. Complete => \A b \in inside' : CallTold(b)'
  BY <1>1, <1>4
<1> QED
  BY <1>2, <1>3, <1>4, <1>5, <1>6 DEF RunTold

LEMMA ReadTold ==
  ASSUME EngineInv, RunTold, NEW c \in inside, Read(c)
  PROVE  RunTold'
<1> DEFINE asked == record.calls[c.n].op
           told == Replay(script, record)
<1>1. /\ c.step = "read" /\ UNCHANGED <<script, record, late>>
      /\ UNCHANGED <<doc, threads>>
  BY DEF Read
<1>2. World' = World /\ Replay(script, record)' = told
  BY <1>1 DEF World
<1>3. /\ c = [n |-> c.n, step |-> c.step, op |-> c.op] /\ WellFormed(c.op)
      /\ IsWorld(World) /\ DocInv(World.doc) /\ World.doc = doc
  BY WorldOk DEF EngineInv, CallOk
<1>4. CASE inside' = (inside \ {c}) \cup
               {[c EXCEPT !.step = IF c.op.kind = "none" THEN "ok" ELSE "error"]}
  <2> DEFINE step == IF c.op.kind = "none" THEN "ok" ELSE "error"
  <2>1. PICK next : /\ next = [n |-> c.n, step |-> step, op |-> c.op]
                    /\ inside' = (inside \ {c}) \cup {next}
    <3>1. [c EXCEPT !.step = step] = [n |-> c.n, step |-> step, op |-> c.op]
      BY <1>3, CallFields
    <3> QED
      BY <1>4, <3>1
  <2>2. ASSUME CallTold(c)
        PROVE  CallTold(next)'
    <3>1. World = told /\ c.op = asked
      BY <1>1, <2>2 DEF CallTold
    <3>2. c.op.kind = "none" => Handled(told, asked).world = told
      <4>1. c.op.kind = "none" => Handled(World, c.op).world = World
        BY <1>3 DEF Handled, Done, IsWorld
      <4> QED
        BY <3>1, <4>1
    <3>3. next.n = c.n /\ next.step = step /\ record' = record
      BY <1>1, <2>1
    <3>4. next.step \in {"ok", "error"} /\ (next.step = "ok" => c.op.kind = "none")
      BY <3>3
    <3> HIDE DEF step, told
    <3> QED
      BY <1>2, <3>1, <3>2, <3>3, <3>4 DEF CallTold
  <2> QED
    BY <1>1, <2>1, <2>2, RequestTold
<1>5. ASSUME NEW op \in AsRead(c.op),
             inside' = (inside \ {c}) \cup {[c EXCEPT !.step = "write", !.op = op]}
      PROVE  RunTold'
  <2>1. PICK next : /\ next = [n |-> c.n, step |-> "write", op |-> op]
                    /\ inside' = (inside \ {c}) \cup {next}
    <3>1. [c EXCEPT !.step = "write", !.op = op]
            = [n |-> c.n, step |-> "write", op |-> op]
      BY <1>3, CallFields
    <3> QED
      BY <1>5, <3>1
  <2>2. ASSUME CallTold(c)
        PROVE  CallTold(next)'
    <3>1. World = told /\ c.op = asked
      BY <1>1, <2>2 DEF CallTold
    <3>2. Handled(World, op) = Handled(World, c.op)
      <4>1. Typed(World.doc)
        BY <1>3 DEF DocInv
      <4> HIDE DEF World
      <4> QED
        BY <1>3, <4>1, AsReadSame
    <3>3. next.n = c.n /\ next.step = "write" /\ next.op = op /\ record' = record
      BY <1>1, <2>1
    <3> HIDE DEF told
    <3> QED
      BY <1>2, <3>1, <3>2, <3>3 DEF CallTold
  <2> QED
    BY <1>1, <2>1, <2>2, RequestTold
<1> QED
  BY <1>4, <1>5 DEF Read

LEMMA WriteTold ==
  ASSUME EngineInv, RunTold, NEW c \in inside, Write(c)
  PROVE  RunTold'
<1> DEFINE asked == record.calls[c.n].op
           told == Replay(script, record)
           r == Handled(World, c.op)
           w == IF Accepted(r, c.op) THEN r.world ELSE World
           step == IF Accepted(r, c.op) THEN "ok" ELSE "error"
<1>1. /\ c.step = "write" /\ Becomes(w) /\ RoomFor(PerOp)
      /\ UNCHANGED <<script, record, late>>
      /\ inside' = (inside \ {c}) \cup {[c EXCEPT !.step = step]}
  BY DEF Write
<1>2. /\ c = [n |-> c.n, step |-> c.step, op |-> c.op] /\ WellFormed(c.op)
      /\ Believes(record)
  BY DEF EngineInv, CallOk
<1>3. World' = w
  <2>1. w = r.world \/ w = World
    OBVIOUS
  <2> HIDE DEF w
  <2>2. IsWorld(w)
    BY <1>1, <1>2, <2>1, CarriedOut
  <2> QED
    BY <1>1, <2>2 DEF Becomes, World, IsWorld
<1>4. Replay(script, record)' = told
  BY <1>1
<1> HIDE DEF r
<1>5. PICK next : /\ next = [n |-> c.n, step |-> step, op |-> c.op]
                  /\ inside' = (inside \ {c}) \cup {next}
  <2> HIDE DEF step
  <2>1. [c EXCEPT !.step = step] = [n |-> c.n, step |-> step, op |-> c.op]
    BY <1>2, CallFields
  <2> QED
    BY <1>1, <2>1
<1>6. ASSUME CallTold(c)
      PROVE  CallTold(next)'
  <2>1. World = told /\ r = Handled(told, asked)
    BY <1>1, <1>6 DEF CallTold, r
  <2>2. next.n = c.n /\ next.step = step /\ record' = record
    BY <1>1, <1>5
  <2>3. \/ step = "ok" /\ w = r.world
        \/ step = "error" /\ w = World
    OBVIOUS
  <2> HIDE DEF step, told, w
  <2> QED
    BY <1>3, <1>4, <2>1, <2>2, <2>3 DEF CallTold
<1> QED
  BY <1>1, <1>5, <1>6, RequestTold

\* What was given up is missing from the log from then on.
LEMMA CancelTold ==
  ASSUME EngineInv, RunTold, NEW c \in inside, Cancel(c)
  PROVE  RunTold'
<1>1. UNCHANGED <<script, record>> /\ inside' = inside \ {c}
  BY DEF Cancel
<1>2. /\ c.n \in DOMAIN record.calls /\ record.calls[c.n].answer = "none"
      /\ inside' = {}
  BY <1>1 DEF EngineInv, CallOk
<1>3. ~Complete'
  BY <1>1, <1>2 DEF Complete
<1>4. AftersAnswered'
  BY <1>1 DEF RunTold, AftersAnswered
<1> QED
  BY <1>3, <1>4 DEF RunTold

LEMMA LateWriteTold ==
  ASSUME EngineInv, RunTold, LateWrite
  PROVE  RunTold'
<1>1. UNCHANGED <<script, record, inside>> /\ late # {}
  BY DEF LateWrite
<1>2. Complete' => Complete
  BY <1>1 DEF Complete
<1>3. AftersAnswered'
  BY <1>1 DEF RunTold, AftersAnswered
<1> QED
  BY <1>1, <1>2, <1>3 DEF RunTold

LEMMA StillTold ==
  ASSUME RunTold, UNCHANGED engineVars
  PROVE  RunTold'
<1>1. UNCHANGED <<doc, threads, script, record, inside, late, disk>>
  BY DEF engineVars
<1>2. World' = World /\ Replay(script, record)' = Replay(script, record)
  BY <1>1 DEF World
<1>3. AftersAnswered'
  BY <1>1 DEF RunTold, AftersAnswered
<1>4. Complete' => Complete
  BY <1>1 DEF Complete
<1>5. \A c \in inside : CallTold(c) => CallTold(c)'
  BY <1>1, <1>2 DEF CallTold
<1>6. Snapshot(World, record)' = Snapshot(World, record)
  BY <1>1, <1>2 DEF Snapshot
<1> QED
  BY <1>1, <1>2, <1>3, <1>4, <1>5, <1>6 DEF RunTold

THEOREM RunToldHolds == EngineSpec => []RunTold
<1>1. EngineInit => RunTold
  BY InitTold
<1>2. EngineInv /\ RunTold /\ [EngineNext]_engineVars => RunTold'
  <2> SUFFICES ASSUME EngineInv, RunTold, [EngineNext]_engineVars
               PROVE  RunTold'
    OBVIOUS
  <2>1. CASE Enter
    BY <2>1, EnterTold
  <2>2. CASE LateWrite
    BY <2>2, LateWriteTold
  <2>3. ASSUME NEW c \in inside, Read(c) \/ Write(c) \/ Answer(c) \/ Cancel(c)
        PROVE  RunTold'
    BY <2>3, ReadTold, WriteTold, AnswerTold, CancelTold
  <2>4. CASE UNCHANGED engineVars
    BY <2>4, StillTold
  <2> QED
    BY <2>1, <2>2, <2>3, <2>4 DEF EngineNext
<1> QED
  BY <1>1, <1>2, EngineInvHolds, PTL DEF EngineSpec

-----------------------------------------------------------------------------
(* The theorems. *)

\* An operation of the second editor that was applied broke none of the rules of
\* the suggesting mode, whatever the scripts, the document and the calls.
THEOREM SecondEditorSound == EngineSpec => []SecondEditorIsSound
<1>1. EngineInv => SecondEditorIsSound
  <2> SUFFICES ASSUME EngineInv PROVE SecondEditorIsSound
    OBVIOUS
  <2>1. \A k \in DOMAIN record.fired : Sound(record.calls, record.fired[k])
    BY DEF EngineInv, Believes, EngineOk, Engine
  <2> QED
    BY <2>1 DEF SecondEditorIsSound, Sound
<1> QED
  BY <1>1, EngineInvHolds, PTL

\* Every interference fires once, at the call the log of the calls gives it.
THEOREM FiringFollows == EngineSpec => []FiringFollowsTheCalls
<1>1. EngineInv => FiringFollowsTheCalls
  <2> SUFFICES ASSUME EngineInv, NEW i \in DOMAIN script
               PROVE  {record.fired[k].at : k \in {k \in DOMAIN record.fired :
                                            record.fired[k].name = script[i].name}}
                        = NthSeen(script[i])
    BY DEF FiringFollowsTheCalls
  <2> DEFINE x == script[i]
             S == Seen(record.calls, x)
             e == Engine(record)
  <2>1. /\ script \in Scripts /\ EngineOk(e) /\ Told(x, S, e) /\ e.rec = record
    BY DEF EngineInv, Believes, Engine
  <2>2. record.calls \in Seq(Calls) /\ x.trigger.nth \in Nat \ {0}
    BY <2>1, ScriptParsed DEF EngineOk
  <2>3. IsFiniteSet(S)
    BY <2>2, SeenCalls
  <2>4. NthSeen(x) = Nth(S, x.trigger.nth)
    BY SeenSoFar
  <2> HIDE DEF S, e, x
  <2>5. FiredAt(record.fired, x.name) = Nth(S, x.trigger.nth)
    BY <2>1, <2>2, <2>3, NthMissing DEF Told
  <2> QED
    BY <2>4, <2>5 DEF FiredAt, x
<1> QED
  BY <1>1, EngineInvHolds, PTL

\* Whatever was called and whatever fired, of a run of which no call was given up
\* the record tells the document and the threads: its replay on a fresh backend
\* leaves the same, and so says the snapshot on the disk.
THEOREM RecordTells == EngineSpec => []RecordTellsTheRun
<1>1. RunTold => RecordTellsTheRun
  <2> SUFFICES ASSUME RunTold, inside = {},
                      \A n \in DOMAIN record.calls : record.calls[n].answer # "none"
               PROVE  World = Replay(script, record) /\ disk = Snapshot(World, record)
    BY DEF RecordTellsTheRun
  <2>1. Complete
    BY DEF Complete
  <2> QED
    BY <2>1 DEF RunTold
<1> QED
  BY <1>1, RunToldHolds, PTL

\* The counters of the engine count calls of the run, and what has fired is told
\* of a call that was made.
THEOREM EngineTyped == EngineSpec => []EngineTypeOK
<1>1. EngineInv => EngineTypeOK
  <2> SUFFICES ASSUME EngineInv PROVE EngineTypeOK
    OBVIOUS
  <2> DEFINE e == Engine(record)
  <2>1. /\ script \in Scripts /\ EngineOk(e) /\ e.rec = record /\ e.counts = matches
        /\ e.names = firedNames /\ Len(record.calls) <= MaxCalls
        /\ \A i \in DOMAIN script : Told(script[i], Seen(record.calls, script[i]), e)
        /\ \A c \in inside : CallOk(c)
    BY DEF EngineInv, Believes, Engine
  <2> HIDE DEF e
  <2>2. /\ record.calls \in Seq(Calls) /\ matches \in [Names -> Nat]
        /\ firedNames \subseteq Names
        /\ \A k \in DOMAIN record.fired : Sound(record.calls, record.fired[k])
    BY <2>1 DEF EngineOk
  <2>3. ASSUME NEW n \in DOMAIN record.calls
        PROVE  record.calls[n].answer \in {"none", "ok", "error"}
    <3>1. record.calls[n] \in Calls
      BY <2>2
    <3> QED
      BY <3>1 DEF Calls, Answers
  <2>4. ASSUME NEW name \in DOMAIN matches
        PROVE  matches[name] \in 0..MaxCalls
    <3>1. PICK i \in DOMAIN script : script[i].name = name
      BY <2>2 DEF Names
    <3> DEFINE S == Seen(record.calls, script[i])
    <3>2. IsFiniteSet(S) /\ Cardinality(S) <= Len(record.calls)
          /\ Len(record.calls) \in Nat
      BY <2>2, SeenCalls
    <3>3. matches[name] \in Nat /\ Cardinality(S) \in Nat
      BY <2>2, <3>2, FS_CardinalityType
    <3>4. Told(script[i], S, e)
      BY <2>1
    <3> HIDE DEF S
    <3>5. matches[name] <= Cardinality(S)
      BY <2>1, <3>1, <3>3, <3>4 DEF Told
    <3> QED
      BY <2>1, <3>2, <3>3, <3>5, EngineAssumption
  <2>5. \A k \in DOMAIN record.fired : record.fired[k].at \in DOMAIN record.calls
    BY <2>2 DEF Sound
  <2>6. firedNames \subseteq DOMAIN matches
    BY <2>2
  <2>7. \A c \in inside : c.step \in {"read", "write", "ok", "error"}
    BY <2>1 DEF CallOk, Steps
  <2> QED
    BY <2>1, <2>3, <2>4, <2>5, <2>6, <2>7 DEF EngineTypeOK
<1> QED
  BY <1>1, EngineInvHolds, PTL
=============================================================================
