------------------------ MODULE SuggestionDocProofs -------------------------
(***************************************************************************)
(* Theorems about the suggesting mode of SuggestionDoc, for every set of   *)
(* authors and segments, and texts and counts of any size.                 *)
(*                                                                         *)
(* The invariant is DocInv.  The part of it that makes it inductive is     *)
(* OneCard, and an edit breaks it: struck text keeps the marks of its      *)
(* author's older cards.  Settling says how far a document may stray while *)
(* an edit settles: where two cards of one author share a character, one   *)
(* of the two is the new card.  Each turn of the merge loop keeps Settling *)
(* and absorbs one card; when none is left to absorb, OneCard holds again, *)
(* because cards that share a character touch.                             *)
(*                                                                         *)
(* The theorems about outcomes rest on the first section: two texts are    *)
(* equal when the positions that survive correspond in their order.        *)
(***************************************************************************)
EXTENDS SuggestionDoc, Counting, SequenceTheorems

-----------------------------------------------------------------------------
(* Positions: the characters that are kept, in their order. *)

\* Sets of numbers count their elements, and their subsets too.
LEMMA Counts ==
  ASSUME NEW A, IsFiniteSet(A), NEW B, B \subseteq A
  PROVE  IsFiniteSet(B) /\ Cardinality(B) \in Nat /\ Cardinality(B) <= Cardinality(A)
  BY FS_Subset, FS_CardinalityType

\* Every position has a rank of its own, and Position finds it by its rank.
LEMMA PositionOf ==
  ASSUME NEW A, IsFiniteSet(A), A \subseteq Nat
  PROVE  /\ Cardinality(A) \in Nat
         /\ \A n \in 1..Cardinality(A) :
              /\ Position(A, n) \in A
              /\ Cardinality({j \in A : j <= Position(A, n)}) = n
         /\ \A i \in A : LET n == Cardinality({j \in A : j <= i})
                         IN n \in 1..Cardinality(A) /\ Position(A, n) = i
<1> DEFINE key == [i \in A |-> i]
           rank(i) == Cardinality({j \in A : j <= i})
<1>1. \A i \in A : Rank(A, key, i) = rank(i)
  BY DEF Rank
<1>2. key \in [A -> Nat] /\ \A i, j \in A : key[i] = key[j] => i = j
  OBVIOUS
<1> HIDE DEF key
<1>3. /\ Cardinality(A) \in Nat
      /\ {Rank(A, key, i) : i \in A} = 1..Cardinality(A)
      /\ \A i, j \in A : Rank(A, key, i) = Rank(A, key, j) => i = j
  BY <1>2, RanksNumber
<1>4. ASSUME NEW n \in 1..Cardinality(A)
      PROVE  Position(A, n) \in A /\ rank(Position(A, n)) = n
  <2>1. \E i \in A : rank(i) = n
    BY <1>1, <1>3
  <2> QED
    BY <2>1 DEF Position
<1>5. ASSUME NEW i \in A
      PROVE  rank(i) \in 1..Cardinality(A) /\ Position(A, rank(i)) = i
  <2>1. rank(i) \in 1..Cardinality(A)
    BY <1>1, <1>3
  <2>2. Position(A, rank(i)) \in A /\ rank(Position(A, rank(i))) = rank(i)
    BY <1>4, <2>1
  <2> QED
    BY <1>1, <1>3, <2>1, <2>2
<1> QED
  BY <1>3, <1>4, <1>5

\* Later ranks are later positions.
LEMMA PositionsGrow ==
  ASSUME NEW A, IsFiniteSet(A), A \subseteq Nat,
         NEW m \in 1..Cardinality(A), NEW n \in 1..Cardinality(A), m < n
  PROVE  Position(A, m) < Position(A, n)
<1> DEFINE p == Position(A, m)
           q == Position(A, n)
<1>1. p \in A /\ q \in A /\ p \in Nat /\ q \in Nat
      /\ Cardinality({j \in A : j <= p}) = m /\ Cardinality({j \in A : j <= q}) = n
  BY PositionOf
<1> HIDE DEF p, q
<1>2. ASSUME q <= p PROVE FALSE
  <2>1. {j \in A : j <= q} \subseteq {j \in A : j <= p}
    <3>1. \A j \in A : j \in Nat /\ (j <= q => j <= p)
      BY <1>1, <1>2
    <3> QED
      BY <3>1
  <2>2. IsFiniteSet({j \in A : j <= p})
    BY FS_Subset
  <2>3. n <= m
    BY <1>1, <2>1, <2>2, FS_Subset
  <2>4. m \in Nat /\ n \in Nat
    BY PositionOf
  <2> QED
    BY <2>3, <2>4
<1>3. p < q
  BY <1>1, <1>2
<1> QED
  BY <1>3 DEF p, q

\* g pairs the positions of A with those of B, in their order.
Pairs(g, A, B) ==
    /\ g \in [A -> B]
    /\ \A i, j \in A : i < j => g[i] < g[j]
    /\ \A b \in B : \E i \in A : g[i] = b

\* Positions that correspond, in their order, have the same ranks.
LEMMA PositionsMatch ==
  ASSUME NEW A, IsFiniteSet(A), A \subseteq Nat,
         NEW B, IsFiniteSet(B), B \subseteq Nat,
         NEW g, Pairs(g, A, B)
  PROVE  /\ Cardinality(A) = Cardinality(B)
         /\ \A n \in 1..Cardinality(A) : Position(B, n) = g[Position(A, n)]
<1>0. /\ g \in [A -> B] /\ \A i, j \in A : i < j => g[i] < g[j]
      /\ \A b \in B : \E i \in A : g[i] = b
  BY DEF Pairs
<1>1. \A i, j \in A : g[i] <= g[j] <=> i <= j
  <2> SUFFICES ASSUME NEW i \in A, NEW j \in A PROVE g[i] <= g[j] <=> i <= j
    OBVIOUS
  <2>1. i \in Nat /\ j \in Nat /\ g[i] \in Nat /\ g[j] \in Nat
    BY <1>0
  <2>2. i < j => g[i] < g[j]
    BY <1>0
  <2>3. j < i => g[j] < g[i]
    BY <1>0
  <2>4. i = j => g[i] = g[j]
    OBVIOUS
  <2> QED
    BY <2>1, <2>2, <2>3, <2>4
<1>2. \A i, j \in A : g[i] = g[j] => i = j
  <2> SUFFICES ASSUME NEW i \in A, NEW j \in A, g[i] = g[j] PROVE i = j
    OBVIOUS
  <2>1. i \in Nat /\ j \in Nat /\ g[i] \in Nat
    BY <1>0
  <2>2. i <= j /\ j <= i
    BY <1>1, <2>1
  <2> QED
    BY <2>1, <2>2
<1>3. ASSUME NEW i \in A
      PROVE  Cardinality({j \in A : j <= i}) = Cardinality({b \in B : b <= g[i]})
  <2> DEFINE S == {j \in A : j <= i}
             T == {b \in B : b <= g[i]}
             h == [j \in S |-> g[j]]
  <2>1. IsFiniteSet(S) /\ IsFiniteSet(T)
    BY FS_Subset
  <2>2. h \in [S -> T]
    BY <1>0, <1>1
  <2>3. \A x, y \in S : h[x] = h[y] => x = y
    BY <1>2
  <2>4. \A b \in T : \E j \in S : h[j] = b
    BY <1>0, <1>1
  <2> HIDE DEF S, T, h
  <2>5. h \in Bijection(S, T)
    BY <2>2, <2>3, <2>4 DEF Bijection, Injection, Surjection, IsInjective
  <2>6. ExistsBijection(S, T)
    BY <2>5 DEF ExistsBijection
  <2>7. Cardinality(S) = Cardinality(T)
    BY <2>1, <2>6, FS_Bijection
  <2> QED
    BY <2>7 DEF S, T
<1>4. Cardinality(A) = Cardinality(B)
  <2>1. g \in Bijection(A, B)
    BY <1>0, <1>2 DEF Bijection, Injection, Surjection, IsInjective
  <2> QED
    BY <2>1, FS_Bijection DEF ExistsBijection
<1>5. ASSUME NEW n \in 1..Cardinality(A)
      PROVE  Position(B, n) = g[Position(A, n)]
  <2> DEFINE i == Position(A, n)
  <2>1. i \in A /\ Cardinality({j \in A : j <= i}) = n
    BY PositionOf
  <2> HIDE DEF i
  <2>2. g[i] \in B /\ Cardinality({b \in B : b <= g[i]}) = n
    BY <1>0, <1>3, <2>1
  <2>3. Position(B, n) = g[i]
    BY <2>2, PositionOf
  <2> QED
    BY <2>3 DEF i
<1> QED
  BY <1>4, <1>5

-----------------------------------------------------------------------------
(* What a document is. *)

Chars == [cp : ({"base"} \X Nat) \cup Ids \cup {<<"plain", 0>>},
          ins : SUBSET Ids, dels : SUBSET Ids]

Fields == {"segments", "registry", "clock", "counters", "mergeLog"}

\* The posts of a thread are left open.
Typed(d) ==
    /\ d = [field \in Fields |-> d[field]]
    /\ d.segments \in [Segments -> Seq(Chars)]
    /\ Open(d) \subseteq Ids
    /\ \A s \in Open(d) :
         /\ d.registry[s] = [touched |-> d.registry[s].touched,
                             thread |-> d.registry[s].thread]
         /\ d.registry[s].touched \in Nat
    /\ d.clock \in Nat
    /\ d.counters \in [Authors -> 0..MaxSuggestions]

\* The characters of a segment, one by one.
LEMMA CharsOf ==
  ASSUME NEW chars \in Seq(Chars)
  PROVE  /\ Len(chars) \in Nat /\ DOMAIN chars = 1..Len(chars)
         /\ IsFiniteSet(DOMAIN chars) /\ DOMAIN chars \subseteq Nat \ {0}
         /\ \A i \in DOMAIN chars : chars[i] \in Chars
         /\ chars \in [1..Len(chars) -> Chars]
<1>1. Len(chars) \in Nat /\ DOMAIN chars = 1..Len(chars)
      /\ chars \in [1..Len(chars) -> Chars]
  BY LenProperties
<1> QED
  BY <1>1, CountInterval

\* A function on an interval of numbers is a sequence.
LEMMA CharsFrom ==
  ASSUME NEW n \in Nat, NEW f \in [1..n -> Chars]
  PROVE  f \in Seq(Chars) /\ Len(f) = n /\ DOMAIN f = 1..n
  OBVIOUS

\* What is kept of a segment is a segment.
LEMMA KeptChars ==
  ASSUME NEW chars \in Seq(Chars), NEW A, A \subseteq DOMAIN chars
  PROVE  /\ IsFiniteSet(A) /\ Cardinality(A) \in Nat
         /\ Kept(chars, A) \in [1..Cardinality(A) -> Chars]
         /\ \A n \in 1..Cardinality(A) :
              Position(A, n) \in A /\ Kept(chars, A)[n] = chars[Position(A, n)]
<1>1. IsFiniteSet(A) /\ A \subseteq Nat
  BY CharsOf, FS_Subset
<1>2. \A n \in 1..Cardinality(A) : Position(A, n) \in A
  BY <1>1, PositionOf
<1>3. Cardinality(A) \in Nat
  BY <1>1, FS_CardinalityType
<1> QED
  BY <1>1, <1>2, <1>3, CharsOf DEF Kept

-----------------------------------------------------------------------------
(* Conversations. *)

\* The posts of a thread were made one after the other, and not later than now.
InOrder(thread, now) ==
    /\ thread \in Seq(Nat) /\ \A i \in DOMAIN thread : thread[i] <= now
    /\ \A i, j \in DOMAIN thread : i < j => thread[i] < thread[j]

PostsOf(d, s) == ToSet(d.registry[s].thread)

\* Every open card's thread is in order, and no post is in two threads.
Threaded(d) ==
    /\ \A s \in Open(d) : InOrder(d.registry[s].thread, d.clock)
    /\ \A s, t \in Open(d) : s # t => PostsOf(d, s) \cap PostsOf(d, t) = {}

\* Listed by their ranks, posts are in order.
LEMMA SortedPosts ==
  ASSUME NEW now \in Nat, NEW A, A \subseteq Nat, \A p \in A : p <= now,
         NEW thread, thread = [n \in 1..Cardinality(A) |-> Position(A, n)]
  PROVE  InOrder(thread, now) /\ ToSet(thread) = A
<1>1. IsFiniteSet(A) /\ Cardinality(A) \in Nat
  <2>1. A \subseteq 0..now
    OBVIOUS
  <2>2. IsFiniteSet(0..now)
    BY FS_Interval
  <2> QED
    BY <2>1, <2>2, Counts
<1>2. DOMAIN thread = 1..Cardinality(A)
      /\ \A n \in 1..Cardinality(A) : thread[n] = Position(A, n) /\ thread[n] \in A
  BY <1>1, PositionOf
<1>3. thread \in Seq(Nat)
  <2>1. thread \in [1..Cardinality(A) -> Nat]
    BY <1>2
  <2> QED
    BY <1>1, <2>1
<1>4. \A i, j \in DOMAIN thread : i < j => thread[i] < thread[j]
  BY <1>1, <1>2, PositionsGrow
<1>5. InOrder(thread, now)
  BY <1>2, <1>3, <1>4 DEF InOrder
<1>6. \A p \in A : \E n \in 1..Cardinality(A) : Position(A, n) = p
  BY <1>1, PositionOf
<1>7. ToSet(thread) = A
  BY <1>2, <1>6 DEF ToSet
<1> QED
  BY <1>5, <1>7

\* A thread stays in order while time passes.
LEMMA LaterInOrder ==
  ASSUME NEW now \in Nat, NEW later \in Nat, now <= later,
         NEW thread, InOrder(thread, now)
  PROVE  InOrder(thread, later)
<1>1. thread \in Seq(Nat) /\ \A i \in DOMAIN thread : thread[i] \in Nat
  BY LenProperties DEF InOrder
<1>2. \A i \in DOMAIN thread : thread[i] <= later
  BY <1>1 DEF InOrder
<1> QED
  BY <1>2 DEF InOrder

\* A thread stays in order when posts are taken out.
LEMMA KeptInOrder ==
  ASSUME NEW now \in Nat, NEW thread, InOrder(thread, now),
         NEW A, A \subseteq DOMAIN thread, NEW kept, kept = Kept(thread, A)
  PROVE  InOrder(kept, now) /\ ToSet(kept) \subseteq ToSet(thread)
<1>1. /\ Len(thread) \in Nat /\ DOMAIN thread = 1..Len(thread)
      /\ \A i \in DOMAIN thread : thread[i] \in Nat /\ thread[i] <= now
  BY LenProperties DEF InOrder
<1>2. IsFiniteSet(A) /\ A \subseteq Nat /\ Cardinality(A) \in Nat
  BY <1>1, CountInterval, Counts
<1>3. /\ DOMAIN kept = 1..Cardinality(A)
      /\ \A n \in 1..Cardinality(A) : kept[n] = thread[Position(A, n)]
                                      /\ Position(A, n) \in DOMAIN thread
  BY <1>2, PositionOf DEF Kept
<1>4. kept \in Seq(Nat)
  <2>1. kept \in [1..Cardinality(A) -> Nat]
    <3>1. kept = [n \in 1..Cardinality(A) |-> kept[n]]
      BY <1>3 DEF Kept
    <3> QED
      BY <1>1, <1>3, <3>1
  <2> QED
    BY <1>2, <2>1
<1>5. \A i, j \in DOMAIN kept : i < j => kept[i] < kept[j]
  <2> SUFFICES ASSUME NEW i \in DOMAIN kept, NEW j \in DOMAIN kept, i < j
               PROVE  kept[i] < kept[j]
    OBVIOUS
  <2>1. Position(A, i) < Position(A, j)
    BY <1>2, <1>3, PositionsGrow
  <2> QED
    BY <1>3, <2>1 DEF InOrder
<1>6. InOrder(kept, now)
  BY <1>1, <1>3, <1>4, <1>5 DEF InOrder
<1>7. ToSet(kept) \subseteq ToSet(thread)
  BY <1>3 DEF ToSet
<1> QED
  BY <1>6, <1>7

\* A new post is the last one.
LEMMA AppendInOrder ==
  ASSUME NEW now \in Nat, NEW thread, InOrder(thread, now),
         NEW longer, longer = Append(thread, now + 1)
  PROVE  InOrder(longer, now + 1) /\ ToSet(longer) = ToSet(thread) \cup {now + 1}
<1>1. /\ Len(thread) \in Nat /\ DOMAIN thread = 1..Len(thread) /\ thread \in Seq(Nat)
      /\ \A i \in DOMAIN thread : thread[i] \in Nat /\ thread[i] <= now
  BY LenProperties DEF InOrder
<1>2. /\ longer \in Seq(Nat) /\ DOMAIN longer = 1..(Len(thread) + 1)
      /\ \A i \in 1..Len(thread) : longer[i] = thread[i]
      /\ longer[Len(thread) + 1] = now + 1
  <2>1. /\ longer \in Seq(Nat) /\ Len(longer) = Len(thread) + 1
        /\ \A i \in 1..Len(thread) : longer[i] = thread[i]
        /\ longer[Len(thread) + 1] = now + 1
    BY <1>1, AppendProperties
  <2>2. DOMAIN longer = 1..Len(longer)
    BY <2>1, LenProperties
  <2> QED
    BY <2>1, <2>2
<1> DEFINE n == Len(thread)
<1>3. n \in Nat /\ \A i \in 1..(n + 1) : i \in 1..n \/ i = n + 1
  BY <1>1
<1> HIDE DEF n
<1>8. \A p \in Nat : p <= now => p <= now + 1
  OBVIOUS
<1>4. ASSUME NEW i \in 1..(n + 1) PROVE longer[i] <= now + 1
  <2>1. CASE i \in 1..n
    BY <1>1, <1>2, <1>8, <2>1 DEF n
  <2>2. CASE i = n + 1
    BY <1>2, <2>2 DEF n
  <2> QED
    BY <1>3, <2>1, <2>2
<1>5. ASSUME NEW i \in 1..(n + 1), NEW j \in 1..(n + 1), i < j
      PROVE  longer[i] < longer[j]
  <2>1. i \in 1..n
    BY <1>3, <1>5
  <2>2. CASE j \in 1..n
    BY <1>1, <1>2, <1>5, <2>1, <2>2 DEF InOrder, n
  <2>3. CASE j = n + 1
    BY <1>1, <1>2, <2>1, <2>3 DEF n
  <2> QED
    BY <1>3, <2>2, <2>3
<1>6. InOrder(longer, now + 1)
  BY <1>2, <1>4, <1>5 DEF InOrder, n
<1>7. ToSet(longer) = ToSet(thread) \cup {now + 1}
  <2>1. \A i \in 1..n : i \in 1..(n + 1)
    BY <1>3
  <2>2. n + 1 \in 1..(n + 1)
    BY <1>3
  <2> QED
    BY <1>1, <1>2, <1>3, <2>1, <2>2 DEF ToSet, n
<1> QED
  BY <1>6, <1>7

\* Fewer threads are still in order.
LEMMA FewerThreads ==
  ASSUME NEW d, NEW e, Threaded(d), Open(e) \subseteq Open(d),
         d.clock \in Nat, e.clock \in Nat, d.clock <= e.clock,
         \A t \in Open(e) : e.registry[t].thread = d.registry[t].thread
  PROVE  Threaded(e)
<1>1. ASSUME NEW t \in Open(e) PROVE InOrder(e.registry[t].thread, e.clock)
  <2>1. InOrder(d.registry[t].thread, d.clock)
    BY DEF Threaded
  <2> QED
    BY <2>1, LaterInOrder
<1>2. \A x, y \in Open(e) : x # y => PostsOf(e, x) \cap PostsOf(e, y) = {}
  BY DEF Threaded, PostsOf
<1> QED
  BY <1>1, <1>2 DEF Threaded

\* A document keeps its posts when its threads are the same and it has one card more.
LEMMA OneThreadMore ==
  ASSUME NEW d, NEW e, Threaded(d), NEW s, s \notin Open(d),
         Open(e) = Open(d) \cup {s},
         d.clock \in Nat, e.clock = d.clock + 1, e.registry[s].thread = <<>>,
         \A t \in Open(d) : e.registry[t].thread = d.registry[t].thread
  PROVE  Threaded(e) /\ Posts(d) \subseteq Posts(e)
<1>1. InOrder(<<>>, e.clock) /\ ToSet(<<>>) = {}
  BY EmptySeq DEF InOrder, ToSet
<1>2. ASSUME NEW t \in Open(e) PROVE InOrder(e.registry[t].thread, e.clock)
  <2>1. CASE t = s
    BY <1>1, <2>1
  <2>2. CASE t # s
    <3>1. InOrder(d.registry[t].thread, d.clock)
      BY <2>2 DEF Threaded
    <3>2. e.clock \in Nat /\ d.clock <= e.clock
      OBVIOUS
    <3>3. InOrder(d.registry[t].thread, e.clock)
      BY <3>1, <3>2, LaterInOrder
    <3> QED
      BY <2>2, <3>3
  <2> QED
    BY <2>1, <2>2
<1>3. PostsOf(e, s) = {} /\ \A t \in Open(d) : PostsOf(e, t) = PostsOf(d, t)
  BY <1>1 DEF PostsOf
<1>4. \A x, y \in Open(e) : x # y => PostsOf(e, x) \cap PostsOf(e, y) = {}
  BY <1>3 DEF Threaded
<1>5. Posts(d) \subseteq Posts(e)
  <2>1. Posts(d) = UNION {PostsOf(d, t) : t \in Open(d)}
        /\ Posts(e) = UNION {PostsOf(e, t) : t \in Open(e)}
    BY DEF Posts, PostsOf
  <2> QED
    BY <1>3, <2>1
<1> QED
  BY <1>2, <1>4, <1>5 DEF Threaded

\* One thread may lose posts, or get a new one.
LEMMA OneThreadDiffers ==
  ASSUME NEW d, NEW e, Threaded(d), NEW s \in Open(d), Open(e) = Open(d),
         d.clock \in Nat, e.clock \in Nat, d.clock <= e.clock,
         InOrder(e.registry[s].thread, e.clock),
         \A p \in PostsOf(e, s) : p \in PostsOf(d, s) \/ d.clock < p,
         \A t \in Open(d) \ {s} : e.registry[t].thread = d.registry[t].thread
  PROVE  Threaded(e)
<1>1. ASSUME NEW t \in Open(e) PROVE InOrder(e.registry[t].thread, e.clock)
  <2>1. InOrder(d.registry[t].thread, d.clock)
    BY DEF Threaded
  <2>2. InOrder(d.registry[t].thread, e.clock)
    BY <2>1, LaterInOrder
  <2> QED
    BY <2>2
<1>2. ASSUME NEW t \in Open(d) \ {s} PROVE PostsOf(e, s) \cap PostsOf(e, t) = {}
  <2>1. PostsOf(e, t) = PostsOf(d, t) /\ PostsOf(d, s) \cap PostsOf(d, t) = {}
    BY DEF PostsOf, Threaded
  <2>2. \A p \in PostsOf(d, t) : p \in Nat /\ p <= d.clock
    <3> DEFINE thread == d.registry[t].thread
    <3>1. InOrder(thread, d.clock)
      BY DEF Threaded
    <3> HIDE DEF thread
    <3>2. \A i \in DOMAIN thread : thread[i] \in Nat /\ thread[i] <= d.clock
      BY <3>1, LenProperties DEF InOrder
    <3> QED
      BY <3>2 DEF PostsOf, ToSet, thread
  <2>3. ASSUME NEW p \in PostsOf(d, t), p \in PostsOf(e, s) PROVE FALSE
    <3>1. p \in Nat /\ p <= d.clock /\ d.clock < p
      BY <2>1, <2>2, <2>3
    <3> QED
      BY <3>1
  <2> QED
    BY <2>1, <2>3
<1>3. \A x, y \in Open(e) : x # y => PostsOf(e, x) \cap PostsOf(e, y) = {}
  <2> SUFFICES ASSUME NEW x \in Open(e), NEW y \in Open(e), x # y
               PROVE  PostsOf(e, x) \cap PostsOf(e, y) = {}
    OBVIOUS
  <2>1. CASE x = s
    BY <1>2, <2>1
  <2>2. CASE y = s
    BY <1>2, <2>2
  <2>3. CASE x # s /\ y # s
    BY <2>3 DEF Threaded, PostsOf
  <2> QED
    BY <2>1, <2>2, <2>3
<1> QED
  BY <1>1, <1>3 DEF Threaded

\* Two threads that have joined hold the posts of both, in their order.
LEMMA ThreadsJoin ==
  ASSUME NEW d, NEW e, Threaded(d), NEW s \in Open(d), NEW t \in Open(d), s # t,
         Open(e) = Open(d) \ {t}, d.clock \in Nat, e.clock = d.clock + 1,
         e.registry[s].thread
           = JoinedThread(d.registry[s].thread, d.registry[t].thread),
         \A x \in Open(e) \ {s} : e.registry[x] = d.registry[x]
  PROVE  Threaded(e) /\ Posts(d) \subseteq Posts(e)
<1> DEFINE A == PostsOf(d, s) \cup PostsOf(d, t)
           joined == e.registry[s].thread
<1>1. e.clock \in Nat /\ d.clock <= e.clock
  OBVIOUS
<1>2. ASSUME NEW x \in Open(d)
      PROVE  InOrder(d.registry[x].thread, e.clock)
             /\ \A p \in PostsOf(d, x) : p \in Nat /\ p <= e.clock
  <2>1. InOrder(d.registry[x].thread, d.clock)
    BY DEF Threaded
  <2>2. InOrder(d.registry[x].thread, e.clock)
    BY <1>1, <2>1, LaterInOrder
  <2> DEFINE thread == d.registry[x].thread
  <2> HIDE DEF thread
  <2>3. \A i \in DOMAIN thread : thread[i] \in Nat /\ thread[i] <= e.clock
    BY <2>2, LenProperties DEF InOrder, thread
  <2>4. \A p \in PostsOf(d, x) : p \in Nat /\ p <= e.clock
    BY <2>3 DEF PostsOf, ToSet, thread
  <2> QED
    BY <2>2, <2>4
<1>3. A \subseteq Nat /\ \A p \in A : p <= e.clock
  BY <1>2
<1>4. joined = [n \in 1..Cardinality(A) |-> Position(A, n)]
  BY DEF JoinedThread, PostsOf
<1> HIDE DEF A, joined
<1>5. InOrder(joined, e.clock) /\ ToSet(joined) = A
  BY <1>1, <1>3, <1>4, SortedPosts
<1>6. \A x \in Open(e) : InOrder(e.registry[x].thread, e.clock)
  BY <1>2, <1>5 DEF joined
<1>7. PostsOf(e, s) = A /\ \A x \in Open(e) \ {s} : PostsOf(e, x) = PostsOf(d, x)
  BY <1>5 DEF PostsOf, joined
<1>8. \A x, y \in Open(e) : x # y => PostsOf(e, x) \cap PostsOf(e, y) = {}
  BY <1>7 DEF Threaded, A
<1>9. Posts(d) \subseteq Posts(e)
  <2>1. Posts(d) = UNION {PostsOf(d, x) : x \in Open(d)}
        /\ Posts(e) = UNION {PostsOf(e, x) : x \in Open(e)}
    BY DEF Posts, PostsOf
  <2>2. \A x \in Open(d) : \E y \in Open(e) : PostsOf(d, x) \subseteq PostsOf(e, y)
    BY <1>7 DEF A
  <2> QED
    BY <2>1, <2>2
<1> QED
  BY <1>6, <1>8, <1>9 DEF Threaded

\* e has the posts of d, still in order.
Keeps(d, e) == Threaded(d) => Threaded(e) /\ Posts(d) \subseteq Posts(e)

\* Copied cards are in the same threads.
LEMMA SameThreads ==
  ASSUME NEW d, NEW e, e.registry = d.registry, e.clock = d.clock
  PROVE  (Threaded(d) => Threaded(e)) /\ Posts(e) = Posts(d)
  BY DEF Threaded, Posts, PostsOf, Open

-----------------------------------------------------------------------------
(* Outcomes, segment by segment. *)

Surviving(chars, accepted) == {i \in DOMAIN chars : Survives(chars[i], accepted)}
Text(chars, accepted) ==
    [n \in 1..Cardinality(Surviving(chars, accepted)) |->
        chars[Position(Surviving(chars, accepted), n)].cp]

\* An outcome is the text of every segment.
LEMMA OutcomeIsText ==
  ASSUME NEW d, NEW accepted
  PROVE  Outcome(d, accepted)
           = [seg \in Segments |-> Text(d.segments[seg], accepted)]
  BY DEF Outcome, Text, Surviving, Kept

\* Two segments in which corresponding characters survive have the same text.
LEMMA SameText ==
  ASSUME NEW chars \in Seq(Chars), NEW others \in Seq(Chars),
         NEW accepted, NEW also,
         NEW g, Pairs(g, Surviving(chars, accepted), Surviving(others, also)),
         \A i \in Surviving(chars, accepted) : others[g[i]].cp = chars[i].cp
  PROVE  Text(others, also) = Text(chars, accepted)
<1> DEFINE A == Surviving(chars, accepted)
           B == Surviving(others, also)
<1>1. A \subseteq DOMAIN chars /\ B \subseteq DOMAIN others
  BY DEF Surviving
<1>2. /\ IsFiniteSet(A) /\ A \subseteq Nat
      /\ IsFiniteSet(B) /\ B \subseteq Nat
  <2>1. IsFiniteSet(DOMAIN chars) /\ DOMAIN chars \subseteq Nat
    BY CharsOf
  <2>2. IsFiniteSet(DOMAIN others) /\ DOMAIN others \subseteq Nat
    BY CharsOf
  <2> HIDE DEF A, B
  <2> QED
    BY <1>1, <2>1, <2>2, FS_Subset
<1> HIDE DEF A, B
<1>3. /\ Cardinality(A) = Cardinality(B)
      /\ \A n \in 1..Cardinality(A) : Position(B, n) = g[Position(A, n)]
  <2>1. Pairs(g, A, B)
    BY DEF A, B
  <2> QED
    BY <1>2, <2>1, PositionsMatch
<1>4. \A n \in 1..Cardinality(A) : Position(A, n) \in A
  BY <1>2, PositionOf
<1>5. \A n \in 1..Cardinality(A) :
        others[Position(B, n)].cp = chars[Position(A, n)].cp
  BY <1>3, <1>4 DEF A
<1>6. Text(others, also) = [n \in 1..Cardinality(B) |-> others[Position(B, n)].cp]
  BY DEF Text, B
<1>7. Text(chars, accepted) = [n \in 1..Cardinality(A) |-> chars[Position(A, n)].cp]
  BY DEF Text, A
<1> QED
  BY <1>3, <1>5, <1>6, <1>7

\* The same characters in the same places.
LEMMA SameTextInPlace ==
  ASSUME NEW chars \in Seq(Chars), NEW others \in Seq(Chars),
         NEW accepted, NEW also, Len(others) = Len(chars),
         \A i \in 1..Len(chars) :
            /\ Survives(others[i], also) <=> Survives(chars[i], accepted)
            /\ others[i].cp = chars[i].cp
  PROVE  Text(others, also) = Text(chars, accepted)
<1> DEFINE A == Surviving(chars, accepted)
           g == [i \in A |-> i]
<1>1. DOMAIN chars = 1..Len(chars) /\ DOMAIN others = 1..Len(chars)
  BY CharsOf
<1>2. Surviving(others, also) = A
  BY <1>1 DEF Surviving
<1>3. Pairs(g, A, A) /\ \A i \in A : others[g[i]].cp = chars[i].cp
  BY <1>1 DEF Surviving, Pairs
<1> HIDE DEF g
<1> QED
  BY <1>2, <1>3, SameText

\* Characters that do not survive may be taken out first.
LEMMA SameTextOfKept ==
  ASSUME NEW chars \in Seq(Chars), NEW others \in Seq(Chars),
         NEW accepted, NEW also,
         NEW A, Surviving(chars, accepted) \subseteq A, A \subseteq DOMAIN chars,
         Len(others) = Cardinality(A),
         \A n \in 1..Cardinality(A) :
            /\ Survives(others[n], also) <=> Survives(chars[Position(A, n)], accepted)
            /\ others[n].cp = chars[Position(A, n)].cp
  PROVE  Text(others, also) = Text(chars, accepted)
<1> DEFINE W == Surviving(chars, accepted)
           V == Surviving(others, also)
           N == Cardinality(A)
           g == [n \in V |-> Position(A, n)]
<1>1. IsFiniteSet(A) /\ A \subseteq Nat /\ N \in Nat
  BY CharsOf, FS_Subset, FS_CardinalityType
<1>2. \A n \in 1..N : Position(A, n) \in A
  BY <1>1, PositionOf
<1>3. DOMAIN others = 1..N
  BY CharsOf
<1>4. V = {n \in 1..N : Position(A, n) \in W}
  BY <1>2, <1>3 DEF Surviving
<1>5. g \in [V -> W] /\ \A n \in V : chars[g[n]].cp = others[n].cp
  BY <1>4
<1>6. \A m, n \in V : m < n => g[m] < g[n]
  <2> SUFFICES ASSUME NEW m \in V, NEW n \in V, m < n PROVE g[m] < g[n]
    OBVIOUS
  <2>1. m \in 1..N /\ n \in 1..N
    BY <1>4
  <2>2. Position(A, m) < Position(A, n)
    BY <1>1, <2>1, PositionsGrow
  <2> QED
    BY <2>2
<1>7. \A w \in W : \E n \in V : g[n] = w
  <2> SUFFICES ASSUME NEW w \in W PROVE \E n \in V : g[n] = w
    OBVIOUS
  <2>1. PICK n \in 1..N : Position(A, n) = w
    BY <1>1, PositionOf
  <2> QED
    BY <1>4, <2>1
<1> HIDE DEF g
<1>8. Pairs(g, V, W)
  BY <1>5, <1>6, <1>7 DEF Pairs
<1>9. Text(chars, accepted) = Text(others, also)
  BY <1>5, <1>8, SameText
<1> QED
  BY <1>9

-----------------------------------------------------------------------------
(* Garbage and decisions. *)

\* The marks of a document are ids.
LEMMA MarksAreIds ==
  ASSUME NEW d, Typed(d)
  PROVE  /\ Marked(d) \subseteq Ids
         /\ \A seg \in Segments : \A i \in DOMAIN d.segments[seg] :
              /\ d.segments[seg][i] \in Chars
              /\ Marks(d.segments[seg][i]) \subseteq Marked(d)
<1>1. \A seg \in Segments : \A i \in DOMAIN d.segments[seg] :
        d.segments[seg][i] \in Chars
  BY CharsOf DEF Typed
<1> QED
  BY <1>1 DEF Marked, MarkedIn, Marks, Chars

\* Collection drops cards, and nothing else.
LEMMA GCFields ==
  ASSUME NEW d, Typed(d)
  PROVE  /\ GC(d).segments = d.segments /\ GC(d).clock = d.clock
         /\ GC(d).mergeLog = d.mergeLog
         /\ GC(d).counters = d.counters /\ Open(GC(d)) = Open(d) \cap Marked(d)
         /\ \A s \in Open(GC(d)) : GC(d).registry[s] = d.registry[s]
         /\ Marked(GC(d)) = Marked(d) /\ Typed(GC(d))
<1> DEFINE kept == Restrict(d.registry, Open(d) \cap Marked(d))
<1>1. d = [field \in Fields |-> d[field]] /\ GC(d) = [d EXCEPT !.registry = kept]
  BY DEF Typed, GC
<1>2. DOMAIN kept = Open(d) \cap Marked(d) /\ \A s \in DOMAIN kept : kept[s] = d.registry[s]
  BY DEF Restrict
<1> HIDE DEF kept
<1>3. /\ GC(d).segments = d.segments /\ GC(d).clock = d.clock
      /\ GC(d).mergeLog = d.mergeLog
      /\ GC(d).counters = d.counters /\ GC(d).registry = kept
      /\ GC(d) = [field \in Fields |-> GC(d)[field]]
  BY <1>1 DEF Fields
<1>4. Marked(GC(d)) = Marked(d)
  BY <1>3 DEF Marked
<1>5. Open(GC(d)) = Open(d) \cap Marked(d)
  BY <1>2, <1>3 DEF Open
<1>6. Typed(GC(d))
  BY <1>2, <1>3, <1>5 DEF Typed
<1> QED
  BY <1>2, <1>3, <1>4, <1>5, <1>6

\* Chars keeps its members when one set of marks is replaced.
LEMMA CharFields ==
  ASSUME NEW c \in Chars, NEW S \in SUBSET Ids
  PROVE  /\ [c EXCEPT !.ins = S] \in Chars /\ [c EXCEPT !.dels = S] \in Chars
         /\ [c EXCEPT !.ins = S].cp = c.cp /\ [c EXCEPT !.dels = S].cp = c.cp
         /\ [c EXCEPT !.ins = S].ins = S /\ [c EXCEPT !.ins = S].dels = c.dels
         /\ [c EXCEPT !.dels = S].dels = S /\ [c EXCEPT !.dels = S].ins = c.ins
         /\ c.ins \in SUBSET Ids /\ c.dels \in SUBSET Ids
  BY DEF Chars

\* The characters of `others' are those of `chars' at the positions in A, without
\* the marks of s.
Decided(chars, others, A, s) ==
    /\ others \in Seq(Chars) /\ Len(others) = Cardinality(A)
    /\ \A n \in 1..Cardinality(A) :
         /\ Position(A, n) \in A
         /\ others[n].cp = chars[Position(A, n)].cp
         /\ others[n].ins = chars[Position(A, n)].ins \ {s}
         /\ others[n].dels = chars[Position(A, n)].dels \ {s}

Unstruck(chars, s) == {i \in DOMAIN chars : s \notin chars[i].dels}
Uninserted(chars, s) == {i \in DOMAIN chars : s \notin chars[i].ins}

\* A card leaves the registry, its text is replaced, and the rest is collected.
Without(d, s, now) ==
    GC([d EXCEPT !.registry = Restrict(@, Open(d) \ {s}), !.segments = now])

\* What is left has the new text.
LEMMA Collected ==
  ASSUME NEW d, Typed(d), NEW s, NEW now \in [Segments -> Seq(Chars)],
         NEW e, e = Without(d, s, now)
  PROVE  /\ Typed(e) /\ e.segments = now /\ e.clock = d.clock
         /\ e.counters = d.counters /\ e.mergeLog = d.mergeLog
         /\ Open(e) = (Open(d) \ {s}) \cap Marked(e)
         /\ \A t \in Open(e) : e.registry[t] = d.registry[t]
<1> DEFINE left == Restrict(d.registry, Open(d) \ {s})
           with == [d EXCEPT !.registry = left, !.segments = now]
<1>1. DOMAIN left = Open(d) \ {s} /\ \A t \in Open(d) \ {s} : left[t] = d.registry[t]
  BY DEF Restrict
<1>2. e = GC(with)
  BY DEF Without
<1> HIDE DEF left
<1>3. /\ with.segments = now /\ with.registry = left /\ with.clock = d.clock
      /\ with.counters = d.counters /\ Open(with) = Open(d) \ {s}
      /\ with.mergeLog = d.mergeLog
      /\ with = [field \in Fields |-> with[field]]
  <2>1. d = [field \in Fields |-> d[field]]
    BY DEF Typed
  <2> QED
    BY <1>1, <2>1 DEF Open, Fields
<1> HIDE DEF with
<1>4. Typed(with)
  BY <1>1, <1>3 DEF Typed
<1>5. /\ Typed(e) /\ e.segments = with.segments /\ e.clock = with.clock
      /\ e.counters = with.counters /\ e.mergeLog = with.mergeLog
      /\ Open(e) = Open(with) \cap Marked(e)
      /\ \A t \in Open(e) : e.registry[t] = with.registry[t]
  BY <1>2, <1>4, GCFields
<1> QED
  BY <1>1, <1>3, <1>5

\* Accepting takes the struck characters and the mark off the inserted ones.
LEMMA AcceptFields ==
  ASSUME NEW d, Typed(d), NEW s \in Ids
  PROVE  LET e == Accept(d, s) IN
         /\ Typed(e) /\ e.clock = d.clock /\ e.counters = d.counters
         /\ e.mergeLog = d.mergeLog
         /\ Open(e) = (Open(d) \ {s}) \cap Marked(e)
         /\ \A t \in Open(e) : e.registry[t] = d.registry[t]
         /\ \A seg \in Segments :
              Decided(d.segments[seg], e.segments[seg], Unstruck(d.segments[seg], s), s)
<1> DEFINE now == [seg \in Segments |->
                     LET kept == Kept(d.segments[seg], Unstruck(d.segments[seg], s))
                     IN [i \in DOMAIN kept |-> [kept[i] EXCEPT !.ins = @ \ {s}]]]
<1>1. Accept(d, s) = Without(d, s, now)
  BY DEF Accept, Unstruck, Without
<1>2. ASSUME NEW seg \in Segments
      PROVE  Decided(d.segments[seg], now[seg], Unstruck(d.segments[seg], s), s)
  <2> DEFINE chars == d.segments[seg]
             A == Unstruck(chars, s)
             kept == Kept(chars, A)
             N == Cardinality(A)
  <2>1. chars \in Seq(Chars) /\ A \subseteq DOMAIN chars
    BY DEF Typed, Unstruck
  <2>2. N \in Nat /\ kept \in [1..N -> Chars]
        /\ \A n \in 1..N : Position(A, n) \in A /\ kept[n] = chars[Position(A, n)]
    BY <2>1, KeptChars
  <2>3. \A n \in 1..N : s \notin chars[Position(A, n)].dels
    BY <2>2 DEF Unstruck
  <2>4. now[seg] = [n \in 1..N |-> [kept[n] EXCEPT !.ins = @ \ {s}]]
    <3> HIDE DEF kept, N, A
    <3> QED
      BY <2>2 DEF kept, A
  <2> HIDE DEF kept, N, A, now
  <2>5. ASSUME NEW n \in 1..N
        PROVE  /\ now[seg][n] \in Chars
               /\ now[seg][n].cp = kept[n].cp
               /\ now[seg][n].ins = kept[n].ins \ {s}
               /\ now[seg][n].dels = kept[n].dels
    <3>1. kept[n] \in Chars
      BY <2>2
    <3>2. now[seg][n] = [kept[n] EXCEPT !.ins = kept[n].ins \ {s}]
      BY <2>4
    <3> QED
      BY <3>1, <3>2 DEF Chars
  <2>6. now[seg] \in Seq(Chars) /\ Len(now[seg]) = N
    <3>1. now[seg] \in [1..N -> Chars]
      BY <2>4, <2>5
    <3> QED
      BY <2>2, <3>1, CharsFrom
  <2> QED
    BY <2>2, <2>3, <2>5, <2>6 DEF Decided, N, A
<1>3. now \in [Segments -> Seq(Chars)]
  <2>1. now = [seg \in Segments |-> now[seg]]
    OBVIOUS
  <2> HIDE DEF now
  <2> QED
    BY <1>2, <2>1 DEF Decided
<1> HIDE DEF now
<1> DEFINE e == Accept(d, s)
<1>4. e = Without(d, s, now)
  BY <1>1
<1> HIDE DEF e
<1>5. /\ Typed(e) /\ e.segments = now /\ e.clock = d.clock
      /\ e.counters = d.counters /\ e.mergeLog = d.mergeLog
      /\ Open(e) = (Open(d) \ {s}) \cap Marked(e)
      /\ \A t \in Open(e) : e.registry[t] = d.registry[t]
  BY <1>3, <1>4, Collected
<1> QED
  BY <1>2, <1>5 DEF e

\* Rejecting takes the inserted characters and the mark off the struck ones.
LEMMA RejectFields ==
  ASSUME NEW d, Typed(d), NEW s \in Ids
  PROVE  LET e == Reject(d, s) IN
         /\ Typed(e) /\ e.clock = d.clock /\ e.counters = d.counters
         /\ e.mergeLog = d.mergeLog
         /\ Open(e) = (Open(d) \ {s}) \cap Marked(e)
         /\ \A t \in Open(e) : e.registry[t] = d.registry[t]
         /\ \A seg \in Segments :
              Decided(d.segments[seg], e.segments[seg], Uninserted(d.segments[seg], s), s)
<1> DEFINE now == [seg \in Segments |->
                     LET kept == Kept(d.segments[seg], Uninserted(d.segments[seg], s))
                     IN [i \in DOMAIN kept |-> [kept[i] EXCEPT !.dels = @ \ {s}]]]
<1>1. Reject(d, s) = Without(d, s, now)
  BY DEF Reject, Uninserted, Without
<1>2. ASSUME NEW seg \in Segments
      PROVE  Decided(d.segments[seg], now[seg], Uninserted(d.segments[seg], s), s)
  <2> DEFINE chars == d.segments[seg]
             A == Uninserted(chars, s)
             kept == Kept(chars, A)
             N == Cardinality(A)
  <2>1. chars \in Seq(Chars) /\ A \subseteq DOMAIN chars
    BY DEF Typed, Uninserted
  <2>2. N \in Nat /\ kept \in [1..N -> Chars]
        /\ \A n \in 1..N : Position(A, n) \in A /\ kept[n] = chars[Position(A, n)]
    BY <2>1, KeptChars
  <2>3. \A n \in 1..N : s \notin chars[Position(A, n)].ins
    BY <2>2 DEF Uninserted
  <2>4. now[seg] = [n \in 1..N |-> [kept[n] EXCEPT !.dels = @ \ {s}]]
    <3> HIDE DEF kept, N, A
    <3> QED
      BY <2>2 DEF kept, A
  <2> HIDE DEF kept, N, A, now
  <2>5. ASSUME NEW n \in 1..N
        PROVE  /\ now[seg][n] \in Chars
               /\ now[seg][n].cp = kept[n].cp
               /\ now[seg][n].dels = kept[n].dels \ {s}
               /\ now[seg][n].ins = kept[n].ins
    <3>1. kept[n] \in Chars
      BY <2>2
    <3>2. now[seg][n] = [kept[n] EXCEPT !.dels = kept[n].dels \ {s}]
      BY <2>4
    <3> QED
      BY <3>1, <3>2 DEF Chars
  <2>6. now[seg] \in Seq(Chars) /\ Len(now[seg]) = N
    <3>1. now[seg] \in [1..N -> Chars]
      BY <2>4, <2>5
    <3> QED
      BY <2>2, <3>1, CharsFrom
  <2> QED
    BY <2>2, <2>3, <2>5, <2>6 DEF Decided, N, A
<1>3. now \in [Segments -> Seq(Chars)]
  <2>1. now = [seg \in Segments |-> now[seg]]
    OBVIOUS
  <2> HIDE DEF now
  <2> QED
    BY <1>2, <2>1 DEF Decided
<1> HIDE DEF now
<1> DEFINE e == Reject(d, s)
<1>4. e = Without(d, s, now)
  BY <1>1
<1> HIDE DEF e
<1>5. /\ Typed(e) /\ e.segments = now /\ e.clock = d.clock
      /\ e.counters = d.counters /\ e.mergeLog = d.mergeLog
      /\ Open(e) = (Open(d) \ {s}) \cap Marked(e)
      /\ \A t \in Open(e) : e.registry[t] = d.registry[t]
  BY <1>3, <1>4, Collected
<1> QED
  BY <1>2, <1>5 DEF e

\* Deciding one card first, the others at once afterwards.
LEMMA DecisionsCommute ==
  ASSUME NEW d, Typed(d), NEW s \in Ids, NEW accepted, s \notin accepted
  PROVE  /\ Outcome(Accept(d, s), accepted) = Outcome(d, accepted \cup {s})
         /\ Outcome(Reject(d, s), accepted) = Outcome(d, accepted)
<1>1. ASSUME NEW seg \in Segments
      PROVE  Text(Accept(d, s).segments[seg], accepted)
               = Text(d.segments[seg], accepted \cup {s})
  <2> DEFINE chars == d.segments[seg]
             others == Accept(d, s).segments[seg]
             A == Unstruck(chars, s)
             both == accepted \cup {s}
  <2>1. chars \in Seq(Chars) /\ Decided(chars, others, A, s)
    BY AcceptFields DEF Typed
  <2>2. A \subseteq DOMAIN chars /\ Surviving(chars, both) \subseteq A
    BY DEF Unstruck, Surviving, Survives
  <2>3. ASSUME NEW n \in 1..Cardinality(A)
        PROVE  /\ Survives(others[n], accepted)
                    <=> Survives(chars[Position(A, n)], both)
               /\ others[n].cp = chars[Position(A, n)].cp
    <3>1. /\ s \notin chars[Position(A, n)].dels
          /\ others[n].cp = chars[Position(A, n)].cp
          /\ others[n].ins = chars[Position(A, n)].ins \ {s}
          /\ others[n].dels = chars[Position(A, n)].dels \ {s}
      BY <2>1 DEF Decided, Unstruck
    <3> HIDE DEF others, chars, A
    <3> QED
      BY <3>1 DEF Survives
  <2> HIDE DEF others, chars, A, both
  <2>4. others \in Seq(Chars) /\ Len(others) = Cardinality(A)
    BY <2>1 DEF Decided
  <2>5. Text(others, accepted) = Text(chars, both)
    BY <2>1, <2>2, <2>3, <2>4, SameTextOfKept
  <2> QED
    BY <2>5 DEF others, chars, both
<1>2. ASSUME NEW seg \in Segments
      PROVE  Text(Reject(d, s).segments[seg], accepted)
               = Text(d.segments[seg], accepted)
  <2> DEFINE chars == d.segments[seg]
             others == Reject(d, s).segments[seg]
             A == Uninserted(chars, s)
  <2>1. chars \in Seq(Chars) /\ Decided(chars, others, A, s)
    BY RejectFields DEF Typed
  <2>2. A \subseteq DOMAIN chars /\ Surviving(chars, accepted) \subseteq A
    BY DEF Uninserted, Surviving, Survives
  <2>3. ASSUME NEW n \in 1..Cardinality(A)
        PROVE  /\ Survives(others[n], accepted)
                    <=> Survives(chars[Position(A, n)], accepted)
               /\ others[n].cp = chars[Position(A, n)].cp
    <3>1. /\ s \notin chars[Position(A, n)].ins
          /\ others[n].cp = chars[Position(A, n)].cp
          /\ others[n].ins = chars[Position(A, n)].ins \ {s}
          /\ others[n].dels = chars[Position(A, n)].dels \ {s}
      BY <2>1 DEF Decided, Uninserted
    <3> HIDE DEF others, chars, A
    <3> QED
      BY <3>1 DEF Survives
  <2> HIDE DEF others, chars, A
  <2>4. others \in Seq(Chars) /\ Len(others) = Cardinality(A)
    BY <2>1 DEF Decided
  <2>5. Text(others, accepted) = Text(chars, accepted)
    BY <2>1, <2>2, <2>3, <2>4, SameTextOfKept
  <2> QED
    BY <2>5 DEF others, chars
<1> QED
  BY <1>1, <1>2, OutcomeIsText

-----------------------------------------------------------------------------
(* The inductive invariant. *)

\* A card is in one segment.
OneSegment(d) ==
    \A s \in Ids : \A g, h \in Segments :
      s \in MarkedIn(d.segments[g]) /\ s \in MarkedIn(d.segments[h]) => g = h

OneCard(d) ==
    \A seg \in Segments : \A i \in DOMAIN d.segments[seg] :
      \A s, t \in Marks(d.segments[seg][i]) : AuthorOf(s) = AuthorOf(t) => s = t

Timed(d) == \A s \in Open(d) : d.registry[s].touched <= d.clock

DocInv(d) ==
    /\ Typed(d) /\ Marked(d) = Open(d) /\ OneSegment(d) /\ OneCard(d) /\ Timed(d)
    /\ Open(d) \subseteq Minted(d)

\* What the operations that add no mark have in common: every character carries
\* marks a character of the same segment carried before, or none.
Thinned(d, e) ==
    \A seg \in Segments : \A n \in DOMAIN e.segments[seg] :
      \/ Marks(e.segments[seg][n]) = {}
      \/ \E i \in DOMAIN d.segments[seg] :
           Marks(e.segments[seg][n]) \subseteq Marks(d.segments[seg][i])

\* Such an operation leaves cards in one segment each, and apart.
LEMMA ThinnedMarks ==
  ASSUME NEW d, NEW e, OneSegment(d), OneCard(d), Thinned(d, e)
  PROVE  OneSegment(e) /\ OneCard(e) /\ Marked(e) \subseteq Marked(d)
<1>1. ASSUME NEW seg \in Segments
      PROVE  MarkedIn(e.segments[seg]) \subseteq MarkedIn(d.segments[seg])
  BY DEF Thinned, MarkedIn
<1>2. OneSegment(e)
  BY <1>1 DEF OneSegment
<1>3. OneCard(e)
  BY DEF Thinned, OneCard
<1>4. Marked(e) \subseteq Marked(d)
  BY <1>1 DEF Marked
<1> QED
  BY <1>2, <1>3, <1>4

\* What the document is about after a collection.
LEMMA ThinnedInv ==
  ASSUME NEW d, DocInv(d), NEW e, Typed(e), Thinned(d, e),
         Open(e) = Marked(e), e.clock = d.clock, e.counters = d.counters,
         \A t \in Open(e) : e.registry[t] = d.registry[t]
  PROVE  DocInv(e)
<1>1. OneSegment(e) /\ OneCard(e) /\ Marked(e) \subseteq Marked(d)
  BY ThinnedMarks DEF DocInv
<1>2. Open(e) \subseteq Open(d)
  BY <1>1 DEF DocInv
<1>3. Timed(e)
  BY <1>2 DEF DocInv, Timed
<1>4. Open(e) \subseteq Minted(e)
  BY <1>2 DEF DocInv, Minted
<1> QED
  BY <1>1, <1>3, <1>4 DEF DocInv

\* A decision thins the marks out, and ends those of its card.
LEMMA DecidedMarks ==
  ASSUME NEW d, Typed(d), NEW e, Typed(e), NEW s, NEW A,
         \A seg \in Segments : A[seg] \subseteq DOMAIN d.segments[seg],
         \A seg \in Segments : Decided(d.segments[seg], e.segments[seg], A[seg], s)
  PROVE  Thinned(d, e) /\ s \notin Marked(e)
<1>1. ASSUME NEW seg \in Segments, NEW n \in DOMAIN e.segments[seg]
      PROVE  \E i \in DOMAIN d.segments[seg] :
               Marks(e.segments[seg][n]) = Marks(d.segments[seg][i]) \ {s}
  <2>1. DOMAIN e.segments[seg] = 1..Cardinality(A[seg])
    BY CharsOf DEF Decided
  <2>2. Position(A[seg], n) \in DOMAIN d.segments[seg]
        /\ Marks(e.segments[seg][n])
             = Marks(d.segments[seg][Position(A[seg], n)]) \ {s}
    BY <2>1 DEF Decided, Marks
  <2> QED
    BY <2>2
<1>2. Thinned(d, e)
  BY <1>1 DEF Thinned
<1>3. s \notin Marked(e)
  BY <1>1 DEF Marked, MarkedIn
<1> QED
  BY <1>2, <1>3

\* A decision keeps the invariant.
LEMMA DecisionInv ==
  ASSUME NEW d, DocInv(d), NEW s \in Ids
  PROVE  DocInv(Accept(d, s)) /\ DocInv(Reject(d, s))
<1>1. Typed(d) /\ Marked(d) = Open(d) /\ OneSegment(d) /\ OneCard(d)
  BY DEF DocInv
<1>2. ASSUME NEW e, Typed(e), e.clock = d.clock, e.counters = d.counters,
             Open(e) = (Open(d) \ {s}) \cap Marked(e),
             \A t \in Open(e) : e.registry[t] = d.registry[t],
             NEW A, \A seg \in Segments : A[seg] \subseteq DOMAIN d.segments[seg],
             \A seg \in Segments : Decided(d.segments[seg], e.segments[seg], A[seg], s)
      PROVE  DocInv(e)
  <2>1. Thinned(d, e) /\ s \notin Marked(e)
    BY <1>1, <1>2, DecidedMarks
  <2>2. Marked(e) \subseteq Marked(d)
    BY <1>1, <2>1, ThinnedMarks
  <2>3. Open(e) = Marked(e)
    BY <1>1, <1>2, <2>1, <2>2
  <2> QED
    BY <1>2, <2>1, <2>3, ThinnedInv
<1>3. DocInv(Accept(d, s))
  <2> DEFINE e == Accept(d, s)
             A == [seg \in Segments |-> Unstruck(d.segments[seg], s)]
  <2>1. \A seg \in Segments : A[seg] = Unstruck(d.segments[seg], s)
    OBVIOUS
  <2> HIDE DEF A
  <2>2. \A seg \in Segments : A[seg] \subseteq DOMAIN d.segments[seg]
    BY <2>1 DEF Unstruck
  <2>3. /\ Typed(e) /\ e.clock = d.clock /\ e.counters = d.counters
        /\ Open(e) = (Open(d) \ {s}) \cap Marked(e)
        /\ \A t \in Open(e) : e.registry[t] = d.registry[t]
        /\ \A seg \in Segments : Decided(d.segments[seg], e.segments[seg], A[seg], s)
    BY <1>1, <2>1, AcceptFields
  <2> HIDE DEF e
  <2>4. DocInv(e)
    BY <1>2, <2>2, <2>3
  <2> QED
    BY <2>4 DEF e
<1>4. DocInv(Reject(d, s))
  <2> DEFINE e == Reject(d, s)
             A == [seg \in Segments |-> Uninserted(d.segments[seg], s)]
  <2>1. \A seg \in Segments : A[seg] = Uninserted(d.segments[seg], s)
    OBVIOUS
  <2> HIDE DEF A
  <2>2. \A seg \in Segments : A[seg] \subseteq DOMAIN d.segments[seg]
    BY <2>1 DEF Uninserted
  <2>3. /\ Typed(e) /\ e.clock = d.clock /\ e.counters = d.counters
        /\ Open(e) = (Open(d) \ {s}) \cap Marked(e)
        /\ \A t \in Open(e) : e.registry[t] = d.registry[t]
        /\ \A seg \in Segments : Decided(d.segments[seg], e.segments[seg], A[seg], s)
    BY <1>1, <2>1, RejectFields
  <2> HIDE DEF e
  <2>4. DocInv(e)
    BY <1>2, <2>2, <2>3
  <2> QED
    BY <2>4 DEF e
<1> QED
  BY <1>3, <1>4

-----------------------------------------------------------------------------
(* Blocks. *)

Contiguous(C) == \A i, k \in C : \A j \in i..k : j \in C
Inserts(chars, s) == {i \in DOMAIN chars : s \in chars[i].ins}
Strikes(chars, s) == {i \in DOMAIN chars : s \in chars[i].dels}

\* What a card inserts is one block of the text, and what it strikes is one.
Blocked(chars, s) ==
    /\ Contiguous(Inserts(chars, s))
    /\ Contiguous(Strikes(chars, s))

\* CardsAreBlocks, of any document.
Blocks(d) ==
    \A s \in Open(d), seg \in Segments :
      (\A merge \in d.mergeLog : merge[1] # s) => Blocked(d.segments[seg], s)

\* Blocks stay blocks when characters between or around them are taken out.
LEMMA KeptBlocks ==
  ASSUME NEW chars \in Seq(Chars), NEW others, NEW A, A \subseteq DOMAIN chars,
         NEW s, Decided(chars, others, A, s),
         NEW x, x # s, Blocked(chars, x)
  PROVE  Blocked(others, x)
<1>1. IsFiniteSet(A) /\ A \subseteq Nat
  BY CharsOf, FS_Subset
<1>2. /\ others \in Seq(Chars) /\ DOMAIN others = 1..Cardinality(A)
      /\ \A n \in 1..Cardinality(A) :
           /\ Position(A, n) \in A /\ Position(A, n) \in Nat
           /\ x \in others[n].ins <=> Position(A, n) \in Inserts(chars, x)
           /\ x \in others[n].dels <=> Position(A, n) \in Strikes(chars, x)
  BY <1>1, CharsOf DEF Decided, Inserts, Strikes
<1>3. ASSUME NEW i \in 1..Cardinality(A), NEW k \in 1..Cardinality(A), NEW j \in i..k
      PROVE  j \in 1..Cardinality(A)
             /\ Position(A, j) \in Position(A, i)..Position(A, k)
  <2>1. j \in 1..Cardinality(A) /\ i <= j /\ j <= k /\ j \in Nat /\ i \in Nat /\ k \in Nat
    BY <1>1, FS_CardinalityType
  <2>2. Position(A, i) <= Position(A, j)
    <3>1. CASE i = j
      BY <1>2, <3>1
    <3>2. CASE i # j
      <4>1. i < j
        BY <2>1, <3>2
      <4>2. Position(A, i) < Position(A, j)
        BY <1>1, <2>1, <4>1, PositionsGrow
      <4> QED
        BY <1>2, <2>1, <4>2
    <3> QED
      BY <3>1, <3>2
  <2>3. Position(A, j) <= Position(A, k)
    <3>1. CASE j = k
      BY <1>2, <3>1
    <3>2. CASE j # k
      <4>1. j < k
        BY <2>1, <3>2
      <4>2. Position(A, j) < Position(A, k)
        BY <1>1, <2>1, <4>1, PositionsGrow
      <4> QED
        BY <1>2, <2>1, <4>2
    <3> QED
      BY <3>1, <3>2
  <2> QED
    BY <1>2, <2>1, <2>2, <2>3
<1>4. Contiguous(Inserts(others, x))
  BY <1>2, <1>3 DEF Contiguous, Inserts, Blocked
<1>5. Contiguous(Strikes(others, x))
  BY <1>2, <1>3 DEF Contiguous, Strikes, Blocked
<1> QED
  BY <1>4, <1>5 DEF Blocked

\* A decision tears no other card apart.
LEMMA DecisionBlocks ==
  ASSUME NEW d, Typed(d), Blocks(d), NEW s \in Ids
  PROVE  Blocks(Accept(d, s)) /\ Blocks(Reject(d, s))
<1>1. ASSUME NEW e, e.mergeLog = d.mergeLog, Open(e) \subseteq Open(d) \ {s},
             NEW A, \A g \in Segments : A[g] \subseteq DOMAIN d.segments[g],
             \A g \in Segments : Decided(d.segments[g], e.segments[g], A[g], s)
      PROVE  Blocks(e)
  <2> SUFFICES ASSUME NEW x \in Open(e), NEW g \in Segments,
                      \A m \in e.mergeLog : m[1] # x
               PROVE  Blocked(e.segments[g], x)
    BY DEF Blocks
  <2>1. x # s /\ Blocked(d.segments[g], x) /\ d.segments[g] \in Seq(Chars)
    BY <1>1 DEF Blocks, Typed
  <2> QED
    BY <1>1, <2>1, KeptBlocks
<1>2. Blocks(Accept(d, s))
  <2> DEFINE e == Accept(d, s)
             A == [g \in Segments |-> Unstruck(d.segments[g], s)]
  <2>1. \A g \in Segments : A[g] = Unstruck(d.segments[g], s)
    OBVIOUS
  <2> HIDE DEF A
  <2>2. \A g \in Segments : A[g] \subseteq DOMAIN d.segments[g]
    BY <2>1 DEF Unstruck
  <2>3. /\ e.mergeLog = d.mergeLog /\ Open(e) = (Open(d) \ {s}) \cap Marked(e)
        /\ \A g \in Segments : Decided(d.segments[g], e.segments[g], A[g], s)
    BY <2>1, AcceptFields
  <2> HIDE DEF e
  <2>4. Open(e) \subseteq Open(d) \ {s}
    BY <2>3
  <2> QED
    BY <1>1, <2>2, <2>3, <2>4 DEF e
<1>3. Blocks(Reject(d, s))
  <2> DEFINE e == Reject(d, s)
             A == [g \in Segments |-> Uninserted(d.segments[g], s)]
  <2>1. \A g \in Segments : A[g] = Uninserted(d.segments[g], s)
    OBVIOUS
  <2> HIDE DEF A
  <2>2. \A g \in Segments : A[g] \subseteq DOMAIN d.segments[g]
    BY <2>1 DEF Uninserted
  <2>3. /\ e.mergeLog = d.mergeLog /\ Open(e) = (Open(d) \ {s}) \cap Marked(e)
        /\ \A g \in Segments : Decided(d.segments[g], e.segments[g], A[g], s)
    BY <2>1, RejectFields
  <2> HIDE DEF e
  <2>4. Open(e) \subseteq Open(d) \ {s}
    BY <2>3
  <2> QED
    BY <1>1, <2>2, <2>3, <2>4 DEF e
<1> QED
  BY <1>2, <1>3

\* Blocks are a matter of text, open cards and merges.
LEMMA SameBlocks ==
  ASSUME NEW d, NEW e, Blocks(d), e.segments = d.segments, e.mergeLog = d.mergeLog,
         Open(e) \subseteq Open(d)
  PROVE  Blocks(e)
  BY DEF Blocks

-----------------------------------------------------------------------------
(* Splicing. *)

Copies(n, c) == [k \in 1..n |-> c]

\* n copies of c between the first i characters and the others.
Spliced(chars, i, n, c, spliced) ==
    /\ spliced \in Seq(Chars) /\ Len(spliced) = Len(chars) + n
    /\ \A k \in 1..(Len(chars) + n) :
         spliced[k] = IF k <= i THEN chars[k]
                      ELSE IF k <= i + n THEN c ELSE chars[k - n]

\* Text spliced in, character by character.
LEMMA SpliceChars ==
  ASSUME NEW chars \in Seq(Chars), NEW i \in 0..Len(chars), NEW n \in Nat,
         NEW c \in Chars, NEW spliced, spliced = Splice(chars, i, Copies(n, c))
  PROVE  Spliced(chars, i, n, c, spliced)
<1> DEFINE left == SubSeq(chars, 1, i)
           new == Copies(n, c)
           right == SubSeq(chars, i + 1, Len(chars))
<1>1. Len(chars) \in Nat /\ i \in Nat /\ i <= Len(chars)
      /\ \A k \in 1..Len(chars) : chars[k] \in Chars
  BY CharsOf
<1>2. /\ left \in Seq(Chars) /\ Len(left) = i /\ \A k \in 1..i : left[k] = chars[k]
  <2>1. \A k \in 1..i : chars[k] \in Chars
    BY <1>1
  <2>2. /\ left \in Seq(Chars) /\ Len(left) = IF 1 <= i THEN i - 1 + 1 ELSE 0
        /\ \A k \in 1..(i - 1 + 1) : left[k] = chars[1 + k - 1]
    BY <1>1, <2>1, SubSeqProperties
  <2> HIDE DEF left
  <2> QED
    BY <1>1, <2>2
<1>3. /\ new \in Seq(Chars) /\ Len(new) = n /\ \A k \in 1..n : new[k] = c
  BY CharsFrom DEF Copies
<1>4. /\ right \in Seq(Chars) /\ Len(right) = Len(chars) - i
      /\ \A k \in 1..(Len(chars) - i) : right[k] = chars[i + k]
  <2>1. \A k \in (i + 1)..Len(chars) : chars[k] \in Chars
    BY <1>1
  <2>2. i + 1 \in Int /\ Len(chars) \in Int
    BY <1>1
  <2>3. /\ right \in Seq(Chars)
        /\ Len(right) = IF i + 1 <= Len(chars) THEN Len(chars) - (i + 1) + 1 ELSE 0
        /\ \A k \in 1..(Len(chars) - (i + 1) + 1) : right[k] = chars[(i + 1) + k - 1]
    BY <2>1, <2>2, SubSeqProperties
  <2> HIDE DEF right
  <2>4. Len(chars) - (i + 1) + 1 = Len(chars) - i
    BY <1>1
  <2>5. ASSUME NEW k \in 1..(Len(chars) - i) PROVE right[k] = chars[i + k]
    <3>1. (i + 1) + k - 1 = i + k /\ k \in 1..(Len(chars) - (i + 1) + 1)
      BY <1>1, <2>4
    <3> QED
      BY <2>3, <3>1
  <2>6. Len(right) = Len(chars) - i
    <3>1. Len(chars) \in Nat /\ i \in Nat /\ i <= Len(chars)
      BY <1>1
    <3>2. Len(right) = IF i + 1 <= Len(chars) THEN Len(chars) - (i + 1) + 1 ELSE 0
      BY <2>3
    <3> QED
      BY <3>1, <3>2
  <2> QED
    BY <2>3, <2>5, <2>6
<1> HIDE DEF left, new, right
<1>5. /\ (left \o new) \in Seq(Chars) /\ Len(left \o new) = i + n
      /\ \A k \in 1..(i + n) : (left \o new)[k] = IF k <= i THEN left[k] ELSE new[k - i]
  <2>1. left \in Seq(Chars) /\ Len(left) = i /\ new \in Seq(Chars) /\ Len(new) = n
    BY <1>2, <1>3
  <2>2. /\ (left \o new) \in Seq(Chars)
        /\ Len(left \o new) = Len(left) + Len(new)
        /\ \A k \in 1..(Len(left) + Len(new)) :
             (left \o new)[k] = IF k <= Len(left) THEN left[k] ELSE new[k - Len(left)]
    BY <2>1, ConcatProperties
  <2> QED
    BY <2>1, <2>2
<1> DEFINE start == left \o new
<1> HIDE DEF start
<1>6. /\ (start \o right) \in Seq(Chars)
      /\ Len(start \o right) = (i + n) + (Len(chars) - i)
      /\ \A k \in 1..((i + n) + (Len(chars) - i)) :
           (start \o right)[k] = IF k <= i + n THEN start[k] ELSE right[k - (i + n)]
  <2>1. start \in Seq(Chars) /\ Len(start) = i + n
    BY <1>5 DEF start
  <2>2. /\ (start \o right) \in Seq(Chars)
        /\ Len(start \o right) = Len(start) + Len(right)
        /\ \A k \in 1..(Len(start) + Len(right)) :
             (start \o right)[k] = IF k <= Len(start) THEN start[k]
                                   ELSE right[k - Len(start)]
    BY <1>4, <2>1, ConcatProperties
  <2> QED
    BY <1>4, <2>1, <2>2
<1>7. spliced = start \o right
  BY DEF Splice, start, left, new, right
<1>8. (i + n) + (Len(chars) - i) = Len(chars) + n
  BY <1>1
<1>9. ASSUME NEW k \in 1..(Len(chars) + n)
      PROVE  spliced[k] = IF k <= i THEN chars[k]
                          ELSE IF k <= i + n THEN c ELSE chars[k - n]
  <2>1. CASE k <= i
    <3>1. k \in 1..(i + n) /\ k \in 1..i /\ k <= i + n
      BY <1>1, <2>1
    <3> QED
      BY <1>2, <1>5, <1>6, <1>7, <1>8, <2>1, <3>1 DEF start
  <2>2. CASE ~(k <= i) /\ k <= i + n
    <3>1. k \in 1..(i + n) /\ k - i \in 1..n
      BY <1>1, <2>2
    <3> QED
      BY <1>3, <1>5, <1>6, <1>7, <1>8, <2>2, <3>1 DEF start
  <2>3. CASE ~(k <= i + n)
    <3>1. k - (i + n) \in 1..(Len(chars) - i) /\ i + (k - (i + n)) = k - n
          /\ ~(k <= i)
      BY <1>1, <2>3
    <3> QED
      BY <1>4, <1>6, <1>7, <1>8, <2>3, <3>1
  <2> QED
    BY <2>1, <2>2, <2>3
<1> QED
  BY <1>6, <1>7, <1>8, <1>9 DEF Spliced

\* D is the set C of numbers up to L with a gap of n numbers opened behind i, and filled
\* (x is in M) or not: if both sides belong to C, and only if the left side does.
Widened(L, i, n, C, D, x, M) ==
    /\ C \subseteq 1..L
    /\ D \subseteq 1..(L + n)
    /\ \A k \in 1..(L + n) : k <= i => (k \in D <=> k \in C)
    /\ \A k \in 1..(L + n) : (i < k /\ k <= i + n) => (k \in D <=> x \in M)
    /\ \A k \in 1..(L + n) : i + n < k => (k \in D <=> k - n \in C)
    /\ (x \in M /\ C # {}) => i \in C
    /\ (i \in C /\ i + 1 \in C) => x \in M

\* Numbers that follow one another still do in such a set.
LEMMA SplicedContiguous ==
  ASSUME NEW L \in Nat, NEW i \in 0..L, NEW n \in Nat,
         NEW C, Contiguous(C), NEW D, NEW M, NEW x, Widened(L, i, n, C, D, x, M)
  PROVE  Contiguous(D)
<1> C \subseteq 1..L
  BY DEF Widened
<1> D \subseteq 1..(L + n)
  BY DEF Widened
<1> \A k \in 1..(L + n) : k <= i => (k \in D <=> k \in C)
  BY DEF Widened
<1> \A k \in 1..(L + n) : (i < k /\ k <= i + n) => (k \in D <=> x \in M)
  BY DEF Widened
<1> \A k \in 1..(L + n) : i + n < k => (k \in D <=> k - n \in C)
  BY DEF Widened
<1> x \in M /\ C # {} => i \in C
  BY DEF Widened
<1> i \in C /\ i + 1 \in C => x \in M
  BY DEF Widened
<1> SUFFICES ASSUME NEW p \in D, NEW r \in D, NEW q \in p..r PROVE q \in D
  BY DEF Contiguous
<1>1. /\ p \in 1..(L + n) /\ r \in 1..(L + n) /\ q \in 1..(L + n)
      /\ p <= q /\ q <= r
  OBVIOUS
<1>2. \A u, v \in C : \A w \in u..v : w \in C
  BY DEF Contiguous
<1>3. \A u \in C : u \in 1..L
  OBVIOUS
<1>4. CASE q <= i
  <2>1. p \in C
    BY <1>1, <1>4
  <2>2. CASE r <= i
    BY <1>1, <1>2, <1>4, <2>1, <2>2
  <2>3. CASE i < r /\ r <= i + n
    <3>1. x \in M
      BY <1>1, <2>3
    <3>2. i \in C /\ q \in p..i
      BY <1>1, <1>4, <2>1, <3>1
    <3>3. q \in C
      BY <1>2, <2>1, <3>2
    <3> QED
      BY <1>1, <1>4, <3>3
  <2>4. CASE i + n < r
    <3>1. r - n \in C /\ q \in p..(r - n)
      BY <1>1, <1>4, <2>4
    <3>2. q \in C
      BY <1>2, <2>1, <3>1
    <3> QED
      BY <1>1, <1>4, <3>2
  <2> QED
    BY <1>1, <2>2, <2>3, <2>4
<1>5. CASE i < q /\ q <= i + n
  <2>1. ASSUME p <= i, i + n < r PROVE x \in M
    <3>1. p \in C /\ r - n \in C /\ i \in p..(r - n) /\ i + 1 \in p..(r - n)
      BY <1>1, <2>1
    <3>2. i \in C /\ i + 1 \in C
      BY <1>2, <3>1
    <3> QED
      BY <3>2
  <2>2. ASSUME i < p PROVE x \in M
    BY <1>1, <1>5, <2>2
  <2>3. ASSUME r <= i + n PROVE x \in M
    BY <1>1, <1>5, <2>3
  <2>4. x \in M
    BY <1>1, <2>1, <2>2, <2>3
  <2> QED
    BY <1>1, <1>5, <2>4
<1>6. CASE i + n < q
  <2>1. r - n \in C
    BY <1>1, <1>6
  <2>2. CASE p <= i
    <3>1. p \in C /\ q - n \in p..(r - n)
      BY <1>1, <1>6, <2>2
    <3>2. q - n \in C
      BY <1>2, <2>1, <3>1
    <3> QED
      BY <1>1, <1>6, <3>2
  <2>3. CASE i < p /\ p <= i + n
    <3>1. x \in M
      BY <1>1, <2>3
    <3>2. i \in C /\ q - n \in i..(r - n)
      BY <1>1, <1>6, <2>1, <3>1
    <3>3. q - n \in C
      BY <1>2, <2>1, <3>2
    <3> QED
      BY <1>1, <1>6, <3>3
  <2>4. CASE i + n < p
    <3>1. p - n \in C /\ q - n \in (p - n)..(r - n)
      BY <1>1, <1>6, <2>4
    <3>2. q - n \in C
      BY <1>2, <2>1, <3>1
    <3> QED
      BY <1>1, <1>6, <3>2
  <2> QED
    BY <1>1, <2>2, <2>3, <2>4
<1> QED
  BY <1>1, <1>4, <1>5, <1>6

\* Text typed into a card belongs to it, and cuts no other card in two.
LEMMA SplicedBlocks ==
  ASSUME NEW chars \in Seq(Chars), NEW i \in 0..Len(chars), NEW n \in Nat,
         NEW s, s \notin MarkedIn(chars), NEW c,
         c.ins = {s} \cup InheritedIns(chars, i), c.dels = InheritedDels(chars, i),
         NEW spliced, Spliced(chars, i, n, c, spliced),
         NEW x, Blocked(chars, x)
  PROVE  Blocked(spliced, x)
<1>1. /\ Len(chars) \in Nat /\ DOMAIN chars = 1..Len(chars)
      /\ DOMAIN spliced = 1..(Len(chars) + n)
  BY CharsOf DEF Spliced
<1> DEFINE L == Len(chars)
<1>2. /\ L \in Nat /\ i \in 0..L
      /\ \A k \in 1..(L + n) : /\ k <= i => k \in 1..L /\ spliced[k] = chars[k]
                               /\ i < k /\ k <= i + n => spliced[k] = c
                               /\ i + n < k => k - n \in 1..L /\ spliced[k] = chars[k - n]
                               /\ k <= i \/ (i < k /\ k <= i + n) \/ i + n < k
                               /\ ~(k <= i /\ i < k) /\ ~(k <= i + n /\ i + n < k)
                               /\ k <= i => k <= i + n
  <2>1. L \in Nat /\ i \in 0..L
    BY <1>1
  <2>2. \A k \in 1..(L + n) :
          spliced[k] = IF k <= i THEN chars[k]
                       ELSE IF k <= i + n THEN c ELSE chars[k - n]
    BY DEF Spliced
  <2> HIDE DEF L
  <2> SUFFICES ASSUME NEW k \in 1..(L + n)
      PROVE  /\ k <= i => k \in 1..L /\ spliced[k] = chars[k]
             /\ i < k /\ k <= i + n => spliced[k] = c
             /\ i + n < k => k - n \in 1..L /\ spliced[k] = chars[k - n]
             /\ k <= i \/ (i < k /\ k <= i + n) \/ i + n < k
             /\ ~(k <= i /\ i < k) /\ ~(k <= i + n /\ i + n < k)
             /\ k <= i => k <= i + n
    BY <2>1
  <2>3. /\ k <= i => k \in 1..L
        /\ i < k <=> ~(k <= i)
        /\ i + n < k <=> ~(k <= i + n)
        /\ i + n < k => k - n \in 1..L
        /\ k <= i => k <= i + n
    BY <2>1
  <2> QED
    BY <2>2, <2>3
<1>3. Contiguous(Inserts(spliced, x))
  <2> DEFINE C == Inserts(chars, x)
             D == Inserts(spliced, x)
             M == c.ins
  <2>1. Contiguous(C) /\ C \subseteq 1..L /\ D \subseteq 1..(L + n)
    BY <1>1 DEF Blocked, Inserts
  <2>2. /\ \A k \in 1..(L + n) : k <= i => (k \in D <=> k \in C)
        /\ \A k \in 1..(L + n) : (i < k /\ k <= i + n) => (k \in D <=> x \in M)
        /\ \A k \in 1..(L + n) : i + n < k => (k \in D <=> k - n \in C)
    <3> HIDE DEF L
    <3> QED
      BY <1>1, <1>2 DEF Inserts, L
  <2>3. i \in C /\ i + 1 \in C => x \in M
    <3>1. ASSUME i \in C, i + 1 \in C PROVE 0 < i /\ i < L
      BY <1>1, <3>1 DEF Inserts
    <3> QED
      BY <3>1 DEF InheritedIns, Inserts
  <2>4. x \in M /\ C # {} => i \in C
    <3> SUFFICES ASSUME x \in M, C # {} PROVE i \in C
      OBVIOUS
    <3>1. x # s
      BY DEF Inserts, MarkedIn, Marks
    <3>2. x \in InheritedIns(chars, i)
      BY <3>1
    <3>3. 0 < i /\ i < L /\ x \in chars[i].ins
      BY <3>2 DEF InheritedIns
    <3>4. i \in 1..L
      BY <1>2, <3>3
    <3> QED
      BY <1>1, <3>3, <3>4 DEF Inserts
  <2> HIDE DEF C, D, M, L
  <2>5. Widened(L, i, n, C, D, x, M)
    BY <2>1, <2>2, <2>3, <2>4, Zenon DEF Widened
  <2>6. L \in Nat /\ i \in 0..L
    BY <1>2
  <2>7. Contiguous(D)
    BY <2>1, <2>5, <2>6, SplicedContiguous
  <2> QED
    BY <2>7 DEF D
<1>4. Contiguous(Strikes(spliced, x))
  <2> DEFINE C == Strikes(chars, x)
             D == Strikes(spliced, x)
             M == c.dels
  <2>1. Contiguous(C) /\ C \subseteq 1..L /\ D \subseteq 1..(L + n)
    BY <1>1 DEF Blocked, Strikes
  <2>2. /\ \A k \in 1..(L + n) : k <= i => (k \in D <=> k \in C)
        /\ \A k \in 1..(L + n) : (i < k /\ k <= i + n) => (k \in D <=> x \in M)
        /\ \A k \in 1..(L + n) : i + n < k => (k \in D <=> k - n \in C)
    <3> HIDE DEF L
    <3> QED
      BY <1>1, <1>2 DEF Strikes, L
  <2>3. i \in C <=> x \in M
    <3>1. CASE 0 < i
      <4>1. i \in 1..L /\ c.dels = chars[i].dels
        BY <1>2, <3>1 DEF InheritedDels
      <4> QED
        BY <1>1, <4>1 DEF Strikes
    <3>2. CASE ~(0 < i)
      <4>1. i \notin 1..L /\ c.dels = {}
        BY <1>2, <3>2 DEF InheritedDels
      <4> QED
        BY <1>1, <4>1 DEF Strikes
    <3> QED
      BY <3>1, <3>2
  <2> HIDE DEF C, D, M, L
  <2>4. x \in M /\ C # {} => i \in C
    BY <2>3
  <2>5. Widened(L, i, n, C, D, x, M)
    BY <2>1, <2>2, <2>3, <2>4, Zenon DEF Widened
  <2>6. L \in Nat /\ i \in 0..L
    BY <1>2
  <2>7. Contiguous(D)
    BY <2>1, <2>5, <2>6, SplicedContiguous
  <2> QED
    BY <2>7 DEF D
<1> QED
  BY <1>3, <1>4 DEF Blocked

Cut(chars, i, j) == SubSeq(chars, 1, i) \o SubSeq(chars, j + 1, Len(chars))

\* Text cut out: what is left comes from before or behind.
LEMMA CutChars ==
  ASSUME NEW chars \in Seq(Chars), NEW i \in 0..Len(chars), NEW j \in 0..Len(chars),
         NEW cut, cut = Cut(chars, i, j)
  PROVE  /\ cut \in Seq(Chars)
         /\ \A k \in DOMAIN cut : \E m \in DOMAIN chars : cut[k] = chars[m]
         /\ Len(cut) = i + (Len(chars) - j)
<1> DEFINE left == SubSeq(chars, 1, i)
           right == SubSeq(chars, j + 1, Len(chars))
           Kin == {chars[m] : m \in DOMAIN chars}
<1>1. Len(chars) \in Nat /\ i \in Nat /\ j \in Nat /\ i <= Len(chars)
      /\ DOMAIN chars = 1..Len(chars) /\ Kin \subseteq Chars
  BY CharsOf
<1>2. left \in Seq(Kin) /\ Len(left) = i
  <2>1. \A k \in 1..i : chars[k] \in Kin
    BY <1>1
  <2> HIDE DEF Kin
  <2>2. left \in Seq(Kin) /\ Len(left) = IF 1 <= i THEN i - 1 + 1 ELSE 0
    BY <1>1, <2>1, SubSeqProperties
  <2> QED
    BY <1>1, <2>2
<1>3. right \in Seq(Kin) /\ Len(right) = Len(chars) - j
  <2>1. \A k \in (j + 1)..Len(chars) : chars[k] \in Kin
    BY <1>1
  <2>2. j + 1 \in Int /\ Len(chars) \in Int
    BY <1>1
  <2> HIDE DEF Kin
  <2>3. right \in Seq(Kin)
        /\ Len(right) = IF j + 1 <= Len(chars) THEN Len(chars) - (j + 1) + 1 ELSE 0
    BY <2>1, <2>2, SubSeqProperties
  <2> DEFINE all == Len(chars)
  <2>4. all \in Nat /\ j \in Nat /\ j <= all
        /\ Len(right) = IF j + 1 <= all THEN all - (j + 1) + 1 ELSE 0
    BY <1>1, <2>3
  <2> HIDE DEF right, all
  <2>5. Len(right) = all - j
    BY <2>4
  <2> QED
    BY <2>3, <2>5 DEF all
<1> HIDE DEF left, right, Kin
<1>4. cut \in Seq(Kin) /\ Len(cut) = Len(left) + Len(right)
  BY <1>2, <1>3, ConcatProperties DEF left, right, Cut
<1>5. \A k \in DOMAIN cut : cut[k] \in Kin
  BY <1>4, LenProperties
<1>6. cut \in Seq(Chars)
  BY <1>1, <1>4, SeqMonotonic
<1> QED
  BY <1>2, <1>3, <1>4, <1>5, <1>6 DEF Kin

-----------------------------------------------------------------------------
(* Direct edits and replies. *)

WithText(d, seg, chars) == [d EXCEPT !.segments[seg] = chars]

\* A document with another text in one segment.
LEMMA WithTextFields ==
  ASSUME NEW d, Typed(d), NEW seg \in Segments, NEW chars \in Seq(Chars),
         NEW e, e = WithText(d, seg, chars)
  PROVE  /\ Typed(e) /\ e.registry = d.registry /\ e.clock = d.clock
         /\ e.counters = d.counters /\ Open(e) = Open(d)
         /\ e.segments[seg] = chars /\ e.mergeLog = d.mergeLog
         /\ \A g \in Segments \ {seg} : e.segments[g] = d.segments[g]
<1>1. d = [field \in Fields |-> d[field]] /\ d.segments \in [Segments -> Seq(Chars)]
  BY DEF Typed
<1>2. /\ e = [field \in Fields |-> e[field]]
      /\ e.segments = [d.segments EXCEPT ![seg] = chars]
      /\ e.registry = d.registry /\ e.clock = d.clock /\ e.counters = d.counters
      /\ e.mergeLog = d.mergeLog
  BY <1>1 DEF WithText, Fields
<1>3. e.segments \in [Segments -> Seq(Chars)]
  BY <1>1, <1>2
<1>4. Open(e) = Open(d)
  BY <1>2 DEF Open
<1>5. Typed(e)
  BY <1>2, <1>3, <1>4 DEF Typed
<1> QED
  BY <1>1, <1>2, <1>4, <1>5

Plain == [cp |-> <<"plain", 0>>, ins |-> {}, dels |-> {}]

\* Text typed directly carries no mark, and takes none away.
LEMMA EditInsertInv ==
  ASSUME NEW d, DocInv(d), NEW seg \in Segments, NEW i \in 0..Len(d.segments[seg]),
         NEW n \in Nat
  PROVE  LET e == EditInsert(d, seg, i, n) IN
         /\ DocInv(e) /\ e.counters = d.counters /\ Open(e) = Open(d)
         /\ e.registry = d.registry /\ e.clock = d.clock
         /\ Len(e.segments[seg]) = Len(d.segments[seg]) + n
         /\ \A g \in Segments \ {seg} : e.segments[g] = d.segments[g]
<1> DEFINE chars == d.segments[seg]
           spliced == Splice(chars, i, Copies(n, Plain))
           e == EditInsert(d, seg, i, n)
<1>1. Typed(d) /\ chars \in Seq(Chars) /\ Plain \in Chars
  BY DEF DocInv, Typed, Plain, Chars
<1>2. /\ spliced \in Seq(Chars) /\ Len(spliced) = Len(chars) + n
      /\ \A k \in 1..(Len(chars) + n) :
           spliced[k] = IF k <= i THEN chars[k]
                        ELSE IF k <= i + n THEN Plain ELSE chars[k - n]
  <2>1. spliced = Splice(chars, i, Copies(n, Plain)) /\ i \in 0..Len(chars)
    OBVIOUS
  <2> HIDE DEF spliced, chars
  <2>2. Spliced(chars, i, n, Plain, spliced)
    BY <1>1, <2>1, SpliceChars
  <2> QED
    BY <2>2 DEF Spliced
<1>3. e = WithText(d, seg, spliced)
  BY <1>1 DEF EditInsert, WithText, Plain, Typed, Copies
<1> HIDE DEF e, spliced
<1>4. /\ Typed(e) /\ e.registry = d.registry /\ e.clock = d.clock
      /\ e.counters = d.counters /\ Open(e) = Open(d) /\ e.segments[seg] = spliced
      /\ \A g \in Segments \ {seg} : e.segments[g] = d.segments[g]
  BY <1>1, <1>2, <1>3, WithTextFields
<1>5. Marks(Plain) = {}
  BY DEF Marks, Plain
<1>6. Len(chars) \in Nat /\ DOMAIN chars = 1..Len(chars)
      /\ DOMAIN spliced = 1..(Len(chars) + n) /\ i \in 0..Len(chars)
  BY <1>1, <1>2, CharsOf
<1>7. ASSUME NEW k \in DOMAIN spliced
      PROVE  \/ Marks(spliced[k]) = {}
             \/ \E m \in DOMAIN chars : spliced[k] = chars[m]
  <2>1. CASE k <= i
    <3>1. k \in DOMAIN chars
      BY <1>6, <2>1
    <3> QED
      BY <1>2, <1>6, <2>1, <3>1
  <2>2. CASE ~(k <= i) /\ k <= i + n
    BY <1>2, <1>5, <1>6, <2>2
  <2>3. CASE ~(k <= i) /\ ~(k <= i + n)
    <3>1. k - n \in DOMAIN chars
      BY <1>6, <2>3
    <3> QED
      BY <1>2, <1>6, <2>3, <3>1
  <2> QED
    BY <2>1, <2>2, <2>3
<1>8. ASSUME NEW m \in DOMAIN chars
      PROVE  \E k \in DOMAIN spliced : spliced[k] = chars[m]
  <2>1. CASE m <= i
    <3>1. m \in DOMAIN spliced
      BY <1>6
    <3> QED
      BY <1>2, <1>6, <2>1, <3>1
  <2>2. CASE ~(m <= i)
    <3>1. m + n \in DOMAIN spliced /\ ~(m + n <= i) /\ ~(m + n <= i + n)
          /\ (m + n) - n = m
      BY <1>6, <2>2
    <3> QED
      BY <1>2, <1>6, <3>1
  <2> QED
    BY <2>1, <2>2
<1> HIDE DEF chars
<1>9. Thinned(d, e)
  <2>1. \A k \in DOMAIN spliced :
          \/ Marks(spliced[k]) = {}
          \/ \E m \in DOMAIN chars : Marks(spliced[k]) \subseteq Marks(chars[m])
    BY <1>7
  <2> QED
    BY <1>4, <2>1 DEF Thinned, chars
<1>10. MarkedIn(chars) \subseteq MarkedIn(spliced)
  BY <1>8 DEF MarkedIn
<1>11. Marked(d) \subseteq Marked(e)
  BY <1>4, <1>10 DEF Marked, chars
<1>12. Marked(e) \subseteq Marked(d)
  BY <1>9, ThinnedMarks DEF DocInv
<1>13. Open(e) = Marked(e)
  BY <1>4, <1>11, <1>12 DEF DocInv
<1>14. DocInv(e)
  BY <1>4, <1>9, <1>13, ThinnedInv
<1> QED
  BY <1>2, <1>4, <1>14 DEF e, chars

\* Text deleted directly takes its marks along, and the cards left without any.
LEMMA EditDeleteInv ==
  ASSUME NEW d, DocInv(d), NEW seg \in Segments, NEW i \in 0..Len(d.segments[seg]),
         NEW j \in 0..Len(d.segments[seg]), NEW e, e = EditDelete(d, seg, i, j)
  PROVE  /\ DocInv(e) /\ e.counters = d.counters /\ Open(e) \subseteq Open(d)
         /\ e.clock = d.clock /\ \A s \in Open(e) : e.registry[s] = d.registry[s]
         /\ e.segments[seg] = Cut(d.segments[seg], i, j)
         /\ \A g \in Segments \ {seg} : e.segments[g] = d.segments[g]
<1> DEFINE chars == d.segments[seg]
           cut == Cut(chars, i, j)
           with == WithText(d, seg, cut)
<1>1. Typed(d) /\ chars \in Seq(Chars)
  BY DEF DocInv, Typed
<1>2. /\ cut \in Seq(Chars)
      /\ \A k \in DOMAIN cut : \E m \in DOMAIN chars : cut[k] = chars[m]
  <2>1. cut = Cut(chars, i, j) /\ i \in 0..Len(chars) /\ j \in 0..Len(chars)
    OBVIOUS
  <2> HIDE DEF cut, chars
  <2>2. cut \in Seq(Chars)
    BY <1>1, <2>1, CutChars
  <2>3. \A k \in DOMAIN cut : \E m \in DOMAIN chars : cut[k] = chars[m]
    BY <1>1, <2>1, CutChars
  <2> QED
    BY <2>2, <2>3
<1>3. e = GC(with)
  BY <1>1 DEF EditDelete, WithText, Typed, Cut
<1> HIDE DEF cut
<1>4. /\ Typed(with) /\ with.registry = d.registry /\ with.clock = d.clock
      /\ with.counters = d.counters /\ Open(with) = Open(d)
      /\ with.segments[seg] = cut
      /\ \A g \in Segments \ {seg} : with.segments[g] = d.segments[g]
  <2> HIDE DEF with
  <2> QED
    BY <1>1, <1>2, WithTextFields DEF with
<1> HIDE DEF with
<1>5. /\ e.segments = with.segments /\ e.clock = d.clock /\ e.counters = d.counters
      /\ Open(e) = Open(d) \cap Marked(e) /\ Marked(e) = Marked(with) /\ Typed(e)
      /\ \A s \in Open(e) : e.registry[s] = d.registry[s]
  BY <1>3, <1>4, GCFields
<1>6. Thinned(d, e)
  <2>1. \A k \in DOMAIN cut :
          \E m \in DOMAIN chars : Marks(cut[k]) \subseteq Marks(chars[m])
    BY <1>2
  <2> QED
    BY <1>4, <1>5, <2>1 DEF Thinned
<1>7. Marked(e) \subseteq Marked(d)
  BY <1>6, ThinnedMarks DEF DocInv
<1>8. Open(e) = Marked(e)
  BY <1>5, <1>7 DEF DocInv
<1>9. DocInv(e)
  BY <1>5, <1>6, <1>8, ThinnedInv
<1> QED
  BY <1>4, <1>5, <1>9 DEF cut

WithThread(d, s, posts) == [d EXCEPT !.registry[s].thread = posts]

\* Only the conversation of a card differs.
LEMMA WithThreadFields ==
  ASSUME NEW d, Typed(d), NEW s \in Open(d), NEW posts,
         NEW e, e = WithThread(d, s, posts)
  PROVE  /\ Typed(e) /\ e.segments = d.segments /\ e.clock = d.clock
         /\ e.counters = d.counters /\ Open(e) = Open(d)
         /\ \A t \in Open(d) : e.registry[t].touched = d.registry[t].touched
         /\ e.registry[s].thread = posts /\ e.mergeLog = d.mergeLog
         /\ \A t \in Open(d) \ {s} : e.registry[t] = d.registry[t]
<1>1. d = [field \in Fields |-> d[field]]
  BY DEF Typed
<1>2. /\ e = [field \in Fields |-> e[field]]
      /\ e.registry = [d.registry EXCEPT ![s].thread = posts]
      /\ e.mergeLog = d.mergeLog /\ e.segments = d.segments /\ e.clock = d.clock /\ e.counters = d.counters
  BY <1>1 DEF WithThread, Fields
<1>3. Open(e) = Open(d)
  BY <1>2 DEF Open
<1>4. ASSUME NEW t \in Open(d)
      PROVE  /\ e.registry[t] = [touched |-> e.registry[t].touched,
                                 thread |-> e.registry[t].thread]
             /\ e.registry[t].touched = d.registry[t].touched
             /\ t = s => e.registry[t].thread = posts
             /\ t # s => e.registry[t] = d.registry[t]
  <2>1. d.registry[t] = [touched |-> d.registry[t].touched,
                         thread |-> d.registry[t].thread]
    BY DEF Typed
  <2>2. t # s => e.registry[t] = d.registry[t]
    BY <1>2 DEF Open
  <2>3. t = s => e.registry[t] = [d.registry[t] EXCEPT !.thread = posts]
    BY <1>2 DEF Open
  <2> QED
    BY <2>1, <2>2, <2>3
<1>5. Typed(e)
  BY <1>2, <1>3, <1>4 DEF Typed
<1> QED
  BY <1>2, <1>3, <1>4, <1>5

\* Conversations are no concern of the invariant.
LEMMA WithThreadInv ==
  ASSUME NEW d, DocInv(d), NEW s \in Open(d), NEW posts
  PROVE  LET e == WithThread(d, s, posts) IN
         /\ DocInv(e) /\ e.counters = d.counters /\ Open(e) = Open(d)
         /\ e.clock = d.clock /\ e.registry[s].thread = posts
         /\ e.segments = d.segments /\ e.mergeLog = d.mergeLog
         /\ \A t \in Open(d) \ {s} : e.registry[t] = d.registry[t]
<1> DEFINE e == WithThread(d, s, posts)
<1>1. e = WithThread(d, s, posts) /\ Typed(d)
  BY DEF DocInv
<1> HIDE DEF e
<1>2. /\ Typed(e) /\ e.segments = d.segments /\ e.clock = d.clock
      /\ e.counters = d.counters /\ Open(e) = Open(d)
      /\ \A t \in Open(d) : e.registry[t].touched = d.registry[t].touched
      /\ e.registry[s].thread = posts /\ e.mergeLog = d.mergeLog
      /\ \A t \in Open(d) \ {s} : e.registry[t] = d.registry[t]
  BY <1>1, WithThreadFields
<1>3. Marked(e) = Marked(d) /\ OneSegment(e) /\ OneCard(e) /\ Minted(e) = Minted(d)
  BY <1>2 DEF Marked, OneSegment, OneCard, Minted, DocInv
<1>4. Timed(e)
  BY <1>2 DEF Timed, DocInv
<1>5. DocInv(e)
  BY <1>2, <1>3, <1>4 DEF DocInv
<1> QED
  BY <1>2, <1>5 DEF e

\* A reply adds a post and moves the clock.
LEMMA ReplyInv ==
  ASSUME NEW d, DocInv(d), NEW s \in Open(d), NEW e, e = Reply(d, s)
  PROVE  /\ DocInv(e) /\ e.counters = d.counters /\ Open(e) = Open(d)
         /\ e.segments = d.segments /\ e.mergeLog = d.mergeLog
         /\ Threaded(d) => Threaded(e)
<1> DEFINE longer == Append(d.registry[s].thread, d.clock + 1)
           h == WithThread(d, s, longer)
<1>1. /\ DocInv(h) /\ h.counters = d.counters /\ Open(h) = Open(d)
      /\ h.registry[s].thread = longer /\ h.mergeLog = d.mergeLog
      /\ \A t \in Open(d) \ {s} : h.registry[t] = d.registry[t]
  <2> HIDE DEF longer
  <2> QED
    BY WithThreadInv
<1>2. h.clock = d.clock /\ h.segments = d.segments
  <2>1. Typed(d)
    BY DEF DocInv
  <2>2. h = WithThread(d, s, Append(d.registry[s].thread, d.clock + 1))
    OBVIOUS
  <2> HIDE DEF h
  <2> QED
    BY <2>1, <2>2, WithThreadFields
<1>3. e = [h EXCEPT !.clock = d.clock + 1]
  <2> DEFINE cards == [d.registry EXCEPT ![s].thread
                         = Append(d.registry[s].thread, d.clock + 1)]
             now == d.clock + 1
  <2>1. d = [field \in Fields |-> d[field]]
    BY DEF DocInv, Typed
  <2>2. e = [d EXCEPT !.clock = now, !.registry = cards]
    BY <2>1 DEF Reply, Fields
  <2>3. h = [d EXCEPT !.registry = cards]
    BY <2>1 DEF WithThread, Fields
  <2> HIDE DEF cards, now, h
  <2>4. e = [h EXCEPT !.clock = now]
    BY <2>1, <2>2, <2>3 DEF Fields
  <2> QED
    BY <2>4 DEF now
<1> HIDE DEF h
<1>4. /\ e = [field \in Fields |-> e[field]]
      /\ e.segments = h.segments /\ e.registry = h.registry
      /\ e.clock = d.clock + 1 /\ e.counters = h.counters
      /\ e.mergeLog = h.mergeLog
  <2> DEFINE now == d.clock + 1
  <2>1. h = [field \in Fields |-> h[field]]
    BY <1>1 DEF DocInv, Typed
  <2>2. e = [h EXCEPT !.clock = now]
    BY <1>3
  <2> HIDE DEF now
  <2>3. e = [field \in Fields |-> IF field = "clock" THEN now ELSE h[field]]
    BY <2>1, <2>2 DEF Fields
  <2>4. e = [field \in Fields |-> e[field]]
    BY <2>3
  <2>5. e.segments = h.segments /\ e.registry = h.registry
        /\ e.clock = now /\ e.counters = h.counters /\ e.mergeLog = h.mergeLog
    BY <2>3 DEF Fields
  <2> QED
    BY <2>4, <2>5 DEF now
<1>5. d.clock \in Nat /\ d.clock + 1 \in Nat
  BY DEF DocInv, Typed
<1>6. Open(e) = Open(h) /\ Marked(e) = Marked(h) /\ Minted(e) = Minted(h)
      /\ OneSegment(e) /\ OneCard(e)
  <2>1. Open(e) = Open(h) /\ Marked(e) = Marked(h) /\ Minted(e) = Minted(h)
    BY <1>4 DEF Open, Marked, Minted
  <2>2. OneSegment(h) /\ OneCard(h)
    BY <1>1 DEF DocInv
  <2>3. OneSegment(e)
    BY <1>4, <2>2 DEF OneSegment
  <2>4. OneCard(e)
    BY <1>4, <2>2 DEF OneCard
  <2> QED
    BY <2>1, <2>3, <2>4
<1>7. Typed(e)
  BY <1>1, <1>4, <1>5, <1>6 DEF DocInv, Typed
<1>8. Timed(e)
  <2>1. \A t \in Open(h) : h.registry[t].touched \in Nat
                          /\ h.registry[t].touched <= d.clock
    BY <1>1, <1>2 DEF DocInv, Timed, Typed
  <2>2. \A t \in Open(e) : e.registry[t].touched <= d.clock + 1
    BY <1>4, <1>5, <1>6, <2>1
  <2> QED
    BY <1>4, <2>2 DEF Timed
<1>9. DocInv(e)
  BY <1>1, <1>6, <1>7, <1>8 DEF DocInv
<1>10. ASSUME Threaded(d) PROVE Threaded(e)
  <2>1. InOrder(d.registry[s].thread, d.clock)
    BY <1>10 DEF Threaded
  <2>2. /\ InOrder(longer, d.clock + 1)
        /\ ToSet(longer) = ToSet(d.registry[s].thread) \cup {d.clock + 1}
    BY <1>5, <2>1, AppendInOrder
  <2> HIDE DEF longer
  <2>3. InOrder(e.registry[s].thread, e.clock)
    BY <1>1, <1>4, <2>2
  <2>4. \A p \in PostsOf(e, s) : p \in PostsOf(d, s) \/ d.clock < p
    <3>1. PostsOf(e, s) = PostsOf(d, s) \cup {d.clock + 1}
      BY <1>1, <1>4, <2>2 DEF PostsOf
    <3> QED
      BY <1>5, <3>1
  <2>5. \A t \in Open(d) \ {s} : e.registry[t].thread = d.registry[t].thread
    BY <1>1, <1>4
  <2>6. Open(e) = Open(d) /\ d.clock <= e.clock /\ e.clock \in Nat
    BY <1>1, <1>4, <1>5, <1>6
  <2> QED
    BY <1>5, <1>10, <2>3, <2>4, <2>5, <2>6, OneThreadDiffers
<1> QED
  BY <1>1, <1>2, <1>4, <1>6, <1>9, <1>10

\* Taking a reply back leaves the others in their order.
LEMMA DeleteReplyInv ==
  ASSUME NEW d, DocInv(d), NEW s \in Open(d), NEW p, NEW e, e = DeleteReply(d, s, p)
  PROVE  /\ DocInv(e) /\ e.counters = d.counters /\ Open(e) = Open(d)
         /\ e.segments = d.segments /\ e.mergeLog = d.mergeLog
         /\ Threaded(d) => Threaded(e)
<1> DEFINE thread == d.registry[s].thread
           A == {i \in DOMAIN thread : thread[i] # p}
           kept == Kept(thread, A)
<1>1. e = WithThread(d, s, kept)
  <2> HIDE DEF thread
  <2>1. d = [field \in Fields |-> d[field]]
    BY DEF DocInv, Typed
  <2> QED
    BY <2>1 DEF DeleteReply, WithThread, thread
<1> HIDE DEF kept
<1>2. /\ DocInv(e) /\ e.counters = d.counters /\ Open(e) = Open(d)
      /\ e.clock = d.clock /\ e.registry[s].thread = kept
      /\ e.segments = d.segments /\ e.mergeLog = d.mergeLog
      /\ \A t \in Open(d) \ {s} : e.registry[t] = d.registry[t]
  BY <1>1, WithThreadInv
<1>3. d.clock \in Nat /\ d.clock <= d.clock
  BY DEF DocInv, Typed
<1>4. ASSUME Threaded(d) PROVE Threaded(e)
  <2>1. InOrder(thread, d.clock) /\ A \subseteq DOMAIN thread
    BY <1>4 DEF Threaded
  <2> HIDE DEF thread, A
  <2>2. InOrder(kept, d.clock) /\ ToSet(kept) \subseteq ToSet(thread)
    BY <1>3, <2>1, KeptInOrder DEF kept
  <2>3. \A q \in PostsOf(e, s) : q \in PostsOf(d, s)
    BY <1>2, <2>2 DEF PostsOf, thread
  <2> QED
    BY <1>2, <1>3, <1>4, <2>2, <2>3, OneThreadDiffers
<1> QED
  BY <1>2, <1>4

-----------------------------------------------------------------------------
(* Merging. *)

\* A suggested edit before it has settled: a character may carry marks of two cards
\* of one author, but one of them is the newest card.
Settling(d, seg, s) ==
    /\ Typed(d) /\ Marked(d) \subseteq Open(d) /\ OneSegment(d) /\ Timed(d)
    /\ Open(d) \subseteq Minted(d)
    /\ s \in Open(d) /\ d.registry[s].touched = d.clock
    /\ \A g \in Segments : \A i \in DOMAIN d.segments[g] :
         \A x, y \in Marks(d.segments[g][i]) :
           AuthorOf(x) = AuthorOf(y) /\ x # y => g = seg /\ (x = s \/ y = s)

\* The log has grown by merges that absorbed cards of the author of s into s.
Merged(d, e, s) ==
    /\ d.mergeLog \subseteq e.mergeLog
    /\ \A m \in e.mergeLog \ d.mergeLog :
         \E t \in Open(d) \ Open(e) :
           m = <<s, t>> /\ t # s /\ AuthorOf(t) = AuthorOf(s)

\* What is still open, and s, still marks what it marked.
MarksStay(d, e, s) ==
    \A g \in Segments :
      /\ DOMAIN e.segments[g] = DOMAIN d.segments[g]
      /\ \A i \in DOMAIN d.segments[g] : \A x \in Open(e) \cup {s} :
           x \in Marks(d.segments[g][i]) => x \in Marks(e.segments[g][i])

\* If every card marks text and the threads are in order, that stays so, and no post
\* is lost.
Converses(d, e) ==
    Marked(d) = Open(d) /\ Threaded(d) =>
      Marked(e) = Open(e) /\ Threaded(e) /\ Posts(d) \subseteq Posts(e)

\* e is d with some cards absorbed: no text moved, no post was lost, no card fell apart,
\* and no decision that leaves s rejected tells them apart.
Follows(d, e, s) ==
    /\ \A g \in Segments : Len(e.segments[g]) = Len(d.segments[g])
    /\ e.counters = d.counters /\ Open(e) \subseteq Open(d)
    /\ Merged(d, e, s) /\ MarksStay(d, e, s)
    /\ Converses(d, e) /\ (Blocks(d) => Blocks(e))
    /\ \A accepted \in SUBSET (Open(e) \ {s}) :
         Outcome(e, accepted) = Outcome(d, accepted)

\* The marks after a merge, character by character.
LEMMA RenamedMarks ==
  ASSUME NEW c \in Chars, NEW old \in Ids, NEW new \in Ids, old # new
  PROVE  LET r == Renamed(c, old, new) IN
         /\ r \in Chars /\ r.cp = c.cp
         /\ old \notin Marks(c) => Marks(r) = Marks(c)
         /\ old \in Marks(c) => Marks(r) = (Marks(c) \ {old}) \cup {new}
         /\ \A accepted : old \notin accepted /\ new \notin accepted =>
              (Survives(r, accepted) <=> Survives(c, accepted))
<1> DEFINE swapped(S) == IF old \in S THEN (S \ {old}) \cup {new} ELSE S
           r == Renamed(c, old, new)
<1>1. c.ins \in SUBSET Ids /\ c.dels \in SUBSET Ids
  BY DEF Chars
<1>2. r \in Chars /\ r.cp = c.cp /\ r.ins = swapped(c.ins) /\ r.dels = swapped(c.dels)
  BY <1>1 DEF Chars, Renamed
<1> HIDE DEF r
<1>3. /\ old \notin Marks(c) => Marks(r) = Marks(c)
      /\ old \in Marks(c) => Marks(r) = (Marks(c) \ {old}) \cup {new}
  BY <1>2 DEF Marks
<1>4. \A accepted : old \notin accepted /\ new \notin accepted =>
        (Survives(r, accepted) <=> Survives(c, accepted))
  BY <1>2 DEF Survives
<1> QED
  BY <1>2, <1>3, <1>4 DEF r

\* A card that does not take part in a merge is where it was.
LEMMA RenamedOthers ==
  ASSUME NEW c \in Chars, NEW old \in Ids, NEW new \in Ids,
         NEW x, x # old, x # new, NEW r, r = Renamed(c, old, new)
  PROVE  (x \in r.ins <=> x \in c.ins) /\ (x \in r.dels <=> x \in c.dels)
<1> DEFINE swapped(S) == IF old \in S THEN (S \ {old}) \cup {new} ELSE S
<1>1. r.ins = swapped(c.ins) /\ r.dels = swapped(c.dels)
  BY DEF Chars, Renamed
<1> QED
  BY <1>1

\* The fields of a document two cards of which have merged.
LEMMA MergeFields ==
  ASSUME NEW d, Typed(d), NEW s \in Open(d), NEW t \in Open(d), s # t,
         NEW e, e = Merge(d, s, t)
  PROVE  /\ Typed(e) /\ e.clock = d.clock + 1 /\ e.counters = d.counters
         /\ Open(e) = Open(d) \ {t} /\ e.registry[s].touched = e.clock
         /\ e.registry[s].thread
              = JoinedThread(d.registry[s].thread, d.registry[t].thread)
         /\ \A x \in Open(e) \ {s} : e.registry[x] = d.registry[x]
         /\ e.mergeLog = d.mergeLog \cup {<<s, t>>}
         /\ \A g \in Segments : /\ Len(e.segments[g]) = Len(d.segments[g])
                                /\ DOMAIN e.segments[g] = DOMAIN d.segments[g]
                                /\ \A i \in DOMAIN d.segments[g] :
                                     e.segments[g][i] = Renamed(d.segments[g][i], t, s)
<1> DEFINE now == [g \in Segments |-> [i \in DOMAIN d.segments[g] |->
                     Renamed(d.segments[g][i], t, s)]]
           joined == JoinedThread(d.registry[s].thread, d.registry[t].thread)
           cards == [x \in Open(d) \ {t} |->
                      IF x = s THEN [touched |-> d.clock + 1, thread |-> joined]
                      ELSE d.registry[x]]
<1>1. d = [field \in Fields |-> d[field]] /\ d.clock \in Nat
      /\ s \in Ids /\ t \in Ids
  BY DEF Typed
<1>2. /\ e = [field \in Fields |-> e[field]]
      /\ e.segments = now /\ e.registry = cards
      /\ e.clock = d.clock + 1 /\ e.counters = d.counters
      /\ e.mergeLog = d.mergeLog \cup {<<s, t>>}
  <2> HIDE DEF now, cards
  <2>1. e = [d EXCEPT !.segments = now, !.registry = cards, !.clock = d.clock + 1,
                      !.mergeLog = d.mergeLog \cup {<<s, t>>}]
    BY DEF Merge, now, cards
  <2> QED
    BY <1>1, <2>1 DEF Fields
<1>3. \A g \in Segments :
        /\ now[g] \in Seq(Chars) /\ Len(now[g]) = Len(d.segments[g])
        /\ DOMAIN now[g] = DOMAIN d.segments[g]
        /\ \A i \in DOMAIN d.segments[g] : now[g][i] = Renamed(d.segments[g][i], t, s)
  <2> SUFFICES ASSUME NEW g \in Segments
               PROVE  /\ now[g] \in Seq(Chars) /\ Len(now[g]) = Len(d.segments[g])
                      /\ DOMAIN now[g] = DOMAIN d.segments[g]
                      /\ \A i \in DOMAIN d.segments[g] :
                           now[g][i] = Renamed(d.segments[g][i], t, s)
    OBVIOUS
  <2> DEFINE chars == d.segments[g]
             n == Len(chars)
  <2>1. chars \in Seq(Chars)
    BY DEF Typed
  <2>2. n \in Nat /\ DOMAIN chars = 1..n /\ \A i \in 1..n : chars[i] \in Chars
    BY <2>1, CharsOf
  <2>3. now[g] = [i \in 1..n |-> Renamed(chars[i], t, s)]
    BY <2>2
  <2> HIDE DEF now, n, chars
  <2>4. \A i \in 1..n : Renamed(chars[i], t, s) \in Chars
    BY <1>1, <2>2, RenamedMarks
  <2>5. now[g] \in [1..n -> Chars]
    BY <2>3, <2>4
  <2>6. now[g] \in Seq(Chars) /\ Len(now[g]) = n /\ DOMAIN now[g] = 1..n
    BY <2>2, <2>5, CharsFrom
  <2> QED
    BY <2>2, <2>3, <2>6 DEF n, chars
<1>4. now \in [Segments -> Seq(Chars)]
  <2>1. now = [g \in Segments |-> now[g]]
    OBVIOUS
  <2> HIDE DEF now
  <2> QED
    BY <1>3, <2>1
<1>5. Open(e) = Open(d) \ {t}
  BY <1>2 DEF Open
<1>6. \A x \in Open(e) : /\ x = s => e.registry[x] = [touched |-> d.clock + 1, thread |-> joined]
                         /\ x # s => e.registry[x] = d.registry[x]
  BY <1>2, <1>5
<1> HIDE DEF now, cards, joined
<1>7. Typed(e)
  <2>1. ASSUME NEW x \in Open(e)
        PROVE  /\ e.registry[x] = [touched |-> e.registry[x].touched,
                                   thread |-> e.registry[x].thread]
               /\ e.registry[x].touched \in Nat
    <3>1. CASE x = s
      <4>1. e.registry[x] = [touched |-> d.clock + 1, thread |-> joined]
        BY <1>6, <3>1
      <4>2. d.clock + 1 \in Nat
        BY <1>1
      <4> QED
        BY <4>1, <4>2
    <3>2. CASE x # s
      BY <1>5, <1>6, <3>2 DEF Typed
    <3> QED
      BY <3>1, <3>2
  <2>2. e.clock \in Nat
    BY <1>1, <1>2
  <2> QED
    BY <1>2, <1>4, <1>5, <2>1, <2>2 DEF Typed
<1>8. e.registry[s].touched = e.clock /\ e.registry[s].thread = joined
  BY <1>2, <1>5, <1>6
<1>9. joined = JoinedThread(d.registry[s].thread, d.registry[t].thread)
  BY DEF joined
<1> QED
  BY <1>2, <1>3, <1>5, <1>6, <1>7, <1>8, <1>9

\* Absorbing a partner leaves the edit settling, with one card less.
LEMMA MergeSettles ==
  ASSUME NEW d, NEW seg \in Segments, NEW s, Settling(d, seg, s),
         NEW t \in Partners(d, seg, s), NEW e, e = Merge(d, s, t)
  PROVE  /\ Settling(e, seg, s) /\ Follows(d, e, s)
         /\ t \in Open(d) /\ Open(e) = Open(d) \ {t}
<1>1. /\ Typed(d) /\ Marked(d) \subseteq Open(d) /\ OneSegment(d) /\ Timed(d)
      /\ Open(d) \subseteq Minted(d)
      /\ s \in Open(d) /\ d.registry[s].touched = d.clock
  BY DEF Settling
<1>2. /\ s \in MarkedIn(d.segments[seg]) /\ t \in MarkedIn(d.segments[seg])
      /\ t \in Open(d) /\ t # s /\ AuthorOf(t) = AuthorOf(s)
  BY DEF Partners
<1>3. s \in Ids /\ t \in Ids
  BY <1>1, <1>2 DEF Typed
<1>4. /\ Typed(e) /\ e.clock = d.clock + 1 /\ e.counters = d.counters
      /\ Open(e) = Open(d) \ {t} /\ e.registry[s].touched = e.clock
      /\ e.registry[s].thread
           = JoinedThread(d.registry[s].thread, d.registry[t].thread)
      /\ \A x \in Open(e) \ {s} : e.registry[x] = d.registry[x]
      /\ e.mergeLog = d.mergeLog \cup {<<s, t>>}
      /\ \A g \in Segments : /\ Len(e.segments[g]) = Len(d.segments[g])
                             /\ DOMAIN e.segments[g] = DOMAIN d.segments[g]
                             /\ \A i \in DOMAIN d.segments[g] :
                                  e.segments[g][i] = Renamed(d.segments[g][i], t, s)
  BY <1>1, <1>2, MergeFields
<1>5. \A g \in Segments : \A i \in DOMAIN d.segments[g] : d.segments[g][i] \in Chars
  BY <1>1, MarksAreIds
<1>6. ASSUME NEW g \in Segments, NEW i \in DOMAIN d.segments[g]
      PROVE  /\ t \notin Marks(d.segments[g][i])
                  => Marks(e.segments[g][i]) = Marks(d.segments[g][i])
             /\ t \in Marks(d.segments[g][i])
                  => g = seg /\ Marks(e.segments[g][i])
                                 = (Marks(d.segments[g][i]) \ {t}) \cup {s}
             /\ e.segments[g][i].cp = d.segments[g][i].cp
             /\ \A accepted : t \notin accepted /\ s \notin accepted =>
                  (Survives(e.segments[g][i], accepted)
                     <=> Survives(d.segments[g][i], accepted))
  <2>1. t \in Marks(d.segments[g][i]) => g = seg
    BY <1>1, <1>2, <1>3 DEF OneSegment, MarkedIn
  <2>2. d.segments[g][i] \in Chars /\ e.segments[g][i] = Renamed(d.segments[g][i], t, s)
    BY <1>4, <1>5
  <2> QED
    BY <1>2, <1>3, <2>1, <2>2, RenamedMarks
<1>7. ASSUME NEW g \in Segments
      PROVE  /\ t \notin MarkedIn(e.segments[g])
             /\ \A x \in MarkedIn(e.segments[g]) : x \in MarkedIn(d.segments[g])
  <2> SUFFICES ASSUME NEW i \in DOMAIN e.segments[g], NEW x \in Marks(e.segments[g][i])
               PROVE  x # t /\ x \in MarkedIn(d.segments[g])
    BY DEF MarkedIn
  <2>1. i \in DOMAIN d.segments[g]
    BY <1>4
  <2>2. CASE t \notin Marks(d.segments[g][i])
    BY <1>6, <2>1, <2>2 DEF MarkedIn
  <2>3. CASE t \in Marks(d.segments[g][i])
    <3>1. g = seg /\ x \in (Marks(d.segments[g][i]) \ {t}) \cup {s}
      BY <1>6, <2>1, <2>3
    <3>2. CASE x = s
      BY <1>2, <3>1, <3>2
    <3>3. CASE x # s
      BY <2>1, <3>1, <3>3 DEF MarkedIn
    <3> QED
      BY <3>2, <3>3
  <2> QED
    BY <2>2, <2>3
<1>8. Marked(e) \subseteq Open(e)
  <2> SUFFICES ASSUME NEW g \in Segments, NEW x \in MarkedIn(e.segments[g])
               PROVE  x \in Open(e)
    BY DEF Marked
  <2>1. x # t /\ x \in MarkedIn(d.segments[g])
    BY <1>7
  <2>2. x \in Open(d)
    BY <1>1, <2>1 DEF Marked
  <2> QED
    BY <1>4, <2>1, <2>2
<1>9. OneSegment(e)
  BY <1>1, <1>7 DEF OneSegment
<1>10. Timed(e)
  <2> SUFFICES ASSUME NEW x \in Open(e) PROVE e.registry[x].touched <= e.clock
    BY DEF Timed
  <2>1. d.clock \in Nat
    BY <1>1 DEF Typed
  <2>2. CASE x = s
    BY <1>4, <2>1, <2>2
  <2>3. CASE x # s
    <3>1. x \in Open(d) /\ e.registry[x] = d.registry[x]
      BY <1>4, <2>3
    <3>2. d.registry[x].touched <= d.clock /\ d.registry[x].touched \in Nat
      BY <1>1, <3>1 DEF Timed, Typed
    <3> QED
      BY <1>4, <2>1, <3>1, <3>2
  <2> QED
    BY <2>2, <2>3
<1>11. Open(e) \subseteq Minted(e)
  BY <1>1, <1>4 DEF Minted
<1>12. ASSUME NEW g \in Segments, NEW i \in DOMAIN e.segments[g],
              NEW x \in Marks(e.segments[g][i]), NEW y \in Marks(e.segments[g][i]),
              AuthorOf(x) = AuthorOf(y), x # y
       PROVE  g = seg /\ (x = s \/ y = s)
  <2>1. i \in DOMAIN d.segments[g]
    BY <1>4
  <2>2. \A u, v \in Marks(d.segments[g][i]) :
          AuthorOf(u) = AuthorOf(v) /\ u # v => g = seg /\ (u = s \/ v = s)
    BY <2>1 DEF Settling
  <2>3. CASE t \notin Marks(d.segments[g][i])
    BY <1>6, <1>12, <2>1, <2>2, <2>3
  <2>4. CASE t \in Marks(d.segments[g][i])
    <3>1. g = seg /\ x \in (Marks(d.segments[g][i]) \ {t}) \cup {s}
          /\ y \in (Marks(d.segments[g][i]) \ {t}) \cup {s}
      BY <1>6, <2>1, <2>4
    <3> QED
      BY <1>12, <2>2, <3>1
  <2> QED
    BY <2>3, <2>4
<1>13. Settling(e, seg, s)
  BY <1>1, <1>2, <1>4, <1>8, <1>9, <1>10, <1>11, <1>12 DEF Settling
<1>14. ASSUME NEW accepted \in SUBSET (Open(e) \ {s})
       PROVE  Outcome(e, accepted) = Outcome(d, accepted)
  <2>1. t \notin accepted /\ s \notin accepted
    BY <1>4
  <2>2. ASSUME NEW g \in Segments
        PROVE  Text(e.segments[g], accepted) = Text(d.segments[g], accepted)
    <3> DEFINE chars == d.segments[g]
               others == e.segments[g]
    <3>1. chars \in Seq(Chars) /\ others \in Seq(Chars) /\ Len(others) = Len(chars)
      BY <1>1, <1>4 DEF Typed
    <3>4. DOMAIN chars = 1..Len(chars)
      BY <3>1, CharsOf
    <3>2. \A i \in 1..Len(chars) :
            /\ Survives(others[i], accepted) <=> Survives(chars[i], accepted)
            /\ others[i].cp = chars[i].cp
      BY <1>6, <2>1, <3>4
    <3> HIDE DEF chars, others
    <3>3. Text(others, accepted) = Text(chars, accepted)
      BY <3>1, <3>2, SameTextInPlace
    <3> QED
      BY <3>3 DEF chars, others
  <2> QED
    BY <2>2, OutcomeIsText
<1>15. Merged(d, e, s)
  BY <1>2, <1>4 DEF Merged
<1>16. MarksStay(d, e, s)
  <2> SUFFICES ASSUME NEW g \in Segments, NEW i \in DOMAIN d.segments[g],
                      NEW x \in Open(e) \cup {s}, x \in Marks(d.segments[g][i])
               PROVE  x \in Marks(e.segments[g][i])
    BY <1>4 DEF MarksStay
  <2>1. x # t
    BY <1>2, <1>4
  <2> QED
    BY <1>6, <2>1
<1>18. Converses(d, e)
  <2> SUFFICES ASSUME Marked(d) = Open(d), Threaded(d)
               PROVE  /\ Open(e) \subseteq Marked(e) /\ Threaded(e)
                      /\ Posts(d) \subseteq Posts(e)
    BY <1>8 DEF Converses
  <2>1. ASSUME NEW x \in Open(e) PROVE x \in Marked(e)
    <3>1. x \in Marked(d)
      BY <1>4
    <3>2. PICK g \in Segments : x \in MarkedIn(d.segments[g])
      BY <3>1 DEF Marked
    <3>3. PICK i \in DOMAIN d.segments[g] : x \in Marks(d.segments[g][i])
      BY <3>2 DEF MarkedIn
    <3>4. i \in DOMAIN e.segments[g] /\ x \in Marks(e.segments[g][i])
      BY <1>16, <3>3 DEF MarksStay
    <3> QED
      BY <3>4 DEF Marked, MarkedIn
  <2>2. d.clock \in Nat
    BY <1>1 DEF Typed
  <2>3. Threaded(e) /\ Posts(d) \subseteq Posts(e)
    BY <1>1, <1>2, <1>4, <2>2, ThreadsJoin
  <2> QED
    BY <2>1, <2>3
<1>19. ASSUME Blocks(d) PROVE Blocks(e)
  <2> SUFFICES ASSUME NEW x \in Open(e), NEW g \in Segments,
                      \A m \in e.mergeLog : m[1] # x
               PROVE  Blocked(e.segments[g], x)
    BY DEF Blocks
  <2>1. x # s
    <3>1. <<s, t>> \in e.mergeLog /\ <<s, t>>[1] = s
      BY <1>4
    <3> QED
      BY <3>1
  <2>2. x # t /\ x \in Open(d) /\ \A m \in d.mergeLog : m[1] # x
    BY <1>4
  <2>3. Blocked(d.segments[g], x)
    BY <1>19, <2>2 DEF Blocks
  <2>4. ASSUME NEW i \in DOMAIN d.segments[g]
        PROVE  /\ x \in e.segments[g][i].ins <=> x \in d.segments[g][i].ins
               /\ x \in e.segments[g][i].dels <=> x \in d.segments[g][i].dels
    BY <1>3, <1>4, <1>5, <2>1, <2>2, RenamedOthers
  <2>5. /\ Inserts(e.segments[g], x) = Inserts(d.segments[g], x)
        /\ Strikes(e.segments[g], x) = Strikes(d.segments[g], x)
    BY <1>4, <2>4 DEF Inserts, Strikes
  <2> QED
    BY <2>3, <2>5 DEF Blocked
<1>17. Follows(d, e, s)
  BY <1>4, <1>14, <1>15, <1>16, <1>18, <1>19 DEF Follows
<1> QED
  BY <1>2, <1>4, <1>13, <1>17

-----------------------------------------------------------------------------
(* Cards that touch. *)

\* The range a card covers holds every character it marks.
LEMMA SpanCovers ==
  ASSUME NEW chars \in Seq(Chars), NEW x \in MarkedIn(chars)
  PROVE  /\ Span(chars, x).lo \in Nat /\ Span(chars, x).hi \in Nat
         /\ \A i \in DOMAIN chars : x \in Marks(chars[i]) =>
              Span(chars, x).lo < i /\ i <= Span(chars, x).hi
<1> DEFINE S == Where(chars, x)
<1>1. Len(chars) \in Nat /\ DOMAIN chars = 1..Len(chars)
  BY CharsOf
<1>2. S # {} /\ S \subseteq DOMAIN chars
  BY DEF MarkedIn, Where
<1>3. S \subseteq Nat /\ S \subseteq 0..Len(chars) /\ 0 \notin S
  BY <1>1, <1>2
<1> HIDE DEF S
<1>4. Min(S) \in S /\ \A y \in S : Min(S) <= y
  <2>1. \E m \in S : \A y \in S : m <= y
    BY <1>2, <1>3, LeastNumber
  <2> QED
    BY <2>1 DEF Min
<1>5. Max(S) \in S /\ \A y \in S : Max(S) >= y
  <2>1. \E m \in S : \A y \in S : m >= y
    BY <1>1, <1>2, <1>3, GreatestNumber
  <2> QED
    BY <2>1 DEF Max
<1>6. Span(chars, x).lo = Min(S) - 1 /\ Span(chars, x).hi = Max(S)
  BY DEF Span, S
<1>7. Min(S) \in Nat \ {0} /\ Max(S) \in Nat
  BY <1>3, <1>4, <1>5
<1>8. ASSUME NEW i \in DOMAIN chars, x \in Marks(chars[i])
      PROVE  Min(S) - 1 < i /\ i <= Max(S)
  <2>1. i \in S
    BY <1>8 DEF S, Where
  <2>2. i \in Nat
    BY <1>3, <2>1
  <2> QED
    BY <1>4, <1>5, <1>7, <2>1, <2>2
<1> QED
  BY <1>6, <1>7, <1>8

\* Two cards on one character touch.
LEMMA SharedCharacter ==
  ASSUME NEW chars \in Seq(Chars), NEW i \in DOMAIN chars,
         NEW x \in Marks(chars[i]), NEW y \in Marks(chars[i])
  PROVE  Gap(Span(chars, x), Span(chars, y)) <= MergeTolerance
<1>1. x \in MarkedIn(chars) /\ y \in MarkedIn(chars)
  BY DEF MarkedIn
<1> DEFINE a == Span(chars, x)
           b == Span(chars, y)
<1>2. i \in Nat
  BY CharsOf
<1>3. /\ a.lo \in Nat /\ a.hi \in Nat /\ a.lo < i /\ i <= a.hi
      /\ b.lo \in Nat /\ b.hi \in Nat /\ b.lo < i /\ i <= b.hi
  BY <1>1, SpanCovers
<1> HIDE DEF a, b
<1>4. Gap(a, b) = 0
  BY <1>2, <1>3 DEF Gap
<1> QED
  BY <1>4 DEF a, b, MergeTolerance

\* Cards on neighbouring characters touch.
LEMMA NextCharacter ==
  ASSUME NEW chars \in Seq(Chars), NEW i \in DOMAIN chars, i + 1 \in DOMAIN chars,
         NEW x \in Marks(chars[i]), NEW y \in Marks(chars[i + 1])
  PROVE  Gap(Span(chars, x), Span(chars, y)) <= MergeTolerance
<1>1. x \in MarkedIn(chars) /\ y \in MarkedIn(chars)
  BY DEF MarkedIn
<1> DEFINE a == Span(chars, x)
           b == Span(chars, y)
<1>2. i \in Nat
  BY CharsOf
<1>3. /\ a.lo \in Nat /\ a.hi \in Nat /\ a.lo < i /\ i <= a.hi
      /\ b.lo \in Nat /\ b.hi \in Nat /\ b.lo < i + 1 /\ i + 1 <= b.hi
  BY <1>1, SpanCovers
<1> HIDE DEF a, b
<1>4. Gap(a, b) = 0
  BY <1>2, <1>3 DEF Gap
<1> QED
  BY <1>4 DEF a, b, MergeTolerance

\* Without a partner left, every character is one card's of its author.
LEMMA NoPartners ==
  ASSUME NEW d, NEW seg \in Segments, NEW s, Settling(d, seg, s),
         Partners(d, seg, s) = {}
  PROVE  OneCard(d)
<1> DEFINE chars == d.segments[seg]
<1>1. chars \in Seq(Chars) /\ Marked(d) \subseteq Open(d)
  BY DEF Settling, Typed
<1>2. ASSUME NEW i \in DOMAIN chars, NEW x \in Marks(chars[i]), s \in Marks(chars[i]),
             AuthorOf(x) = AuthorOf(s), x # s
      PROVE  FALSE
  <2>1. x \in MarkedIn(chars) /\ s \in MarkedIn(chars) /\ x \in Open(d)
    BY <1>1, <1>2 DEF MarkedIn, Marked
  <2>2. Gap(Span(chars, s), Span(chars, x)) <= MergeTolerance
    BY <1>1, <1>2, SharedCharacter
  <2>3. x \in Partners(d, seg, s)
    BY <1>2, <2>1, <2>2 DEF Partners
  <2> QED
    BY <2>3
<1>3. ASSUME NEW g \in Segments, NEW i \in DOMAIN d.segments[g],
             NEW x \in Marks(d.segments[g][i]), NEW y \in Marks(d.segments[g][i]),
             AuthorOf(x) = AuthorOf(y), x # y
      PROVE  FALSE
  <2>1. g = seg /\ (x = s \/ y = s)
    BY <1>3 DEF Settling
  <2> QED
    BY <1>2, <1>3, <2>1
<1> QED
  BY <1>3 DEF OneCard

-----------------------------------------------------------------------------
(* What the loop absorbs. *)

\* a is the least half-open range that holds the positions S.
Bounds(a, S) ==
    /\ a.lo \in Int /\ a.hi \in Int
    /\ a.lo + 1 \in S /\ a.hi \in S
    /\ \A i \in S : a.lo < i /\ i <= a.hi

\* The range of a card.
LEMMA SpanBounds ==
  ASSUME NEW chars \in Seq(Chars), NEW x, Where(chars, x) # {}
  PROVE  Bounds(Span(chars, x), Where(chars, x)) /\ Where(chars, x) \subseteq 1..Len(chars)
<1> DEFINE S == Where(chars, x)
           L == Len(chars)
<1>1. L \in Nat /\ S # {} /\ S \subseteq 1..L
  BY CharsOf DEF Where
<1>6. Span(chars, x).lo = Min(S) - 1 /\ Span(chars, x).hi = Max(S)
  BY DEF Span
<1> HIDE DEF S, L
<1>2. S \subseteq Nat /\ S \subseteq 0..L
  BY <1>1
<1>4. Min(S) \in S /\ \A y \in S : Min(S) <= y
  <2>1. \E m \in S : \A y \in S : m <= y
    BY <1>1, <1>2, LeastNumber
  <2> QED
    BY <2>1 DEF Min
<1>5. Max(S) \in S /\ \A y \in S : Max(S) >= y
  <2>1. \E m \in S : \A y \in S : m >= y
    BY <1>1, <1>2, GreatestNumber
  <2> QED
    BY <2>1 DEF Max
<1> DEFINE lo == Min(S)
           hi == Max(S)
           a == Span(chars, x)
<1>7. lo \in S /\ hi \in S /\ a.lo = lo - 1 /\ a.hi = hi
      /\ \A y \in S : lo <= y /\ hi >= y
  BY <1>4, <1>5, <1>6
<1> HIDE DEF lo, hi, a
<1>8. Bounds(a, S)
  BY <1>2, <1>7 DEF Bounds
<1> QED
  BY <1>1, <1>8 DEF a, S, L

\* The range of a set of cards.
LEMMA CoveredBounds ==
  ASSUME NEW chars \in Seq(Chars), NEW cards, cards # {},
         \A x \in cards : Where(chars, x) # {},
         NEW S, S = UNION {Where(chars, x) : x \in cards}
  PROVE  Bounds(Covered(chars, cards), S)
<1> DEFINE lo(x) == Span(chars, x).lo
           hi(x) == Span(chars, x).hi
           los == {lo(x) : x \in cards}
           his == {hi(x) : x \in cards}
           L == Len(chars)
           a == Covered(chars, cards)
<1>1. L \in Nat
  BY CharsOf
<1>2. ASSUME NEW x \in cards
      PROVE  /\ lo(x) \in Int /\ hi(x) \in Int /\ lo(x) + 1 \in Where(chars, x)
             /\ hi(x) \in Where(chars, x) /\ Where(chars, x) \subseteq 1..L
             /\ \A i \in Where(chars, x) : lo(x) < i /\ i <= hi(x)
  BY SpanBounds DEF Bounds
<1>3. a.lo = Min(los) /\ a.hi = Max(his)
  BY DEF Covered
<1>4. los # {} /\ his # {} /\ los \subseteq Nat /\ his \subseteq 0..L
  <2>1. ASSUME NEW x \in cards PROVE lo(x) \in Nat /\ hi(x) \in 0..L
    <3>1. lo(x) \in Int /\ lo(x) + 1 \in 1..L /\ hi(x) \in 1..L
      BY <1>2
    <3> HIDE DEF lo, hi, L
    <3> QED
      BY <1>1, <3>1
  <2> HIDE DEF lo, hi, L
  <2> QED
    BY <2>1
<1> HIDE DEF lo, hi, L, a
<1>5. Min(los) \in los /\ \A y \in los : Min(los) <= y
  <2> HIDE DEF los
  <2>1. \E m \in los : \A y \in los : m <= y
    BY <1>4, LeastNumber
  <2> QED
    BY <2>1 DEF Min
<1>6. Max(his) \in his /\ \A y \in his : Max(his) >= y
  <2> HIDE DEF his
  <2>1. \E m \in his : \A y \in his : m >= y
    BY <1>1, <1>4, GreatestNumber
  <2> QED
    BY <2>1 DEF Max
<1>7. PICK u \in cards : a.lo = lo(u)
  BY <1>3, <1>5
<1>8. PICK v \in cards : a.hi = hi(v)
  BY <1>3, <1>6
<1>9. ASSUME NEW i \in S PROVE a.lo < i /\ i <= a.hi
  <2>1. PICK x \in cards : i \in Where(chars, x)
    OBVIOUS
  <2>2. lo(x) < i /\ i <= hi(x) /\ lo(x) \in Int /\ hi(x) \in Int /\ i \in 1..L
    BY <1>2, <2>1
  <2>3. a.lo <= lo(x) /\ a.hi >= hi(x)
    BY <1>3, <1>5, <1>6
  <2>4. a.lo \in Int /\ a.hi \in Int
    BY <1>2, <1>7, <1>8
  <2> QED
    BY <2>2, <2>3, <2>4
<1>10. a.lo \in Int /\ a.hi \in Int /\ a.lo + 1 \in S /\ a.hi \in S
  <2>1. lo(u) + 1 \in S /\ hi(v) \in S
    BY <1>2
  <2> QED
    BY <1>2, <1>7, <1>8, <2>1
<1>11. Bounds(a, S)
  BY <1>9, <1>10 DEF Bounds
<1> QED
  BY <1>11 DEF a

\* What touches a range touches every range around it.
LEMMA WiderTouches ==
  ASSUME NEW S, NEW T, NEW R, S \subseteq R,
         NEW a, Bounds(a, S), NEW b, Bounds(b, T), NEW c, Bounds(c, R),
         Gap(a, b) <= MergeTolerance
  PROVE  Gap(c, b) = 0 /\ Gap(c, b) <= MergeTolerance
<1>1. /\ a.lo \in Int /\ a.hi \in Int /\ b.lo \in Int /\ b.hi \in Int
      /\ c.lo \in Int /\ c.hi \in Int
  BY DEF Bounds
<1>2. a.lo < a.hi /\ b.lo < b.hi /\ c.lo < a.lo + 1 /\ a.hi <= c.hi
  BY DEF Bounds
<1>3. a.lo <= b.hi /\ b.lo <= a.hi
  BY <1>1, <1>2 DEF Gap, MergeTolerance
<1>4. Gap(c, b) = 0
  BY <1>1, <1>2, <1>3 DEF Gap
<1> QED
  BY <1>4 DEF MergeTolerance

\* s stands in e for itself and the cards that have been absorbed since d: it covers what
\* they covered, all others are where they were, and the closure of s holds what it stands
\* for.
Gathered(d, e, s) == (Open(d) \ Open(e)) \cup {s}
Gathers(d, e, seg, s) ==
    LET before == d.segments[seg]
        after == e.segments[seg]
    IN /\ Where(after, s) = UNION {Where(before, x) : x \in Gathered(d, e, s)}
       /\ \A x \in Open(e) \ {s} : Where(after, x) = Where(before, x)
       /\ Gathered(d, e, s) \subseteq MergeClass(d, seg, s)

\* Before the first turn s stands for itself.
LEMMA GathersItself ==
  ASSUME NEW d, NEW seg, NEW s, s \in MarkedIn(d.segments[seg])
  PROVE  Gathers(d, d, seg, s)
<1>1. Gathered(d, d, s) = {s}
  BY DEF Gathered
<1>2. s \in MergeClass(d, seg, s)
  BY DEF MergeClass
<1> QED
  BY <1>1, <1>2 DEF Gathers

LEMMA MarkedWhere ==
  ASSUME NEW chars, NEW x
  PROVE  x \in MarkedIn(chars) <=> Where(chars, x) # {}
BY DEF MarkedIn, Where

\* One more turn: the partner touches what s stands for, so every closed set holds it.
LEMMA MergeGathers ==
  ASSUME NEW d, NEW seg \in Segments, NEW s, d.segments[seg] \in Seq(Chars),
         NEW e, Settling(e, seg, s), Open(e) \subseteq Open(d), Gathers(d, e, seg, s),
         NEW t \in Partners(e, seg, s), NEW h, h = Merge(e, s, t)
  PROVE  Gathers(d, h, seg, s)
<1> DEFINE before == d.segments[seg]
           after == e.segments[seg]
           last == h.segments[seg]
           C == Gathered(d, e, s)
           own == {x \in MarkedIn(before) : AuthorOf(x) = AuthorOf(s)}
<1>0. \A x : x \in MergeClass(d, seg, s) <=>
                /\ x \in own
                /\ \A cards \in SUBSET own :
                     s \in cards /\ Closed(before, cards, own) => x \in cards
  BY DEF MergeClass
<1>1. /\ s \in MarkedIn(after) /\ t \in MarkedIn(after) /\ t \in Open(e) /\ t # s
      /\ AuthorOf(t) = AuthorOf(s)
      /\ Gap(Span(after, s), Span(after, t)) <= MergeTolerance
  BY DEF Partners
<1>2. Typed(e) /\ s \in Open(e) /\ after \in Seq(Chars) /\ s \in Ids /\ t \in Ids
  BY <1>1 DEF Settling, Typed
<1>3. /\ Open(h) = Open(e) \ {t} /\ DOMAIN last = DOMAIN after
      /\ \A i \in DOMAIN after : last[i] = Renamed(after[i], t, s)
  BY <1>1, <1>2, MergeFields
<1>4. \A i \in DOMAIN after :
        /\ t \notin Marks(after[i]) => Marks(last[i]) = Marks(after[i])
        /\ t \in Marks(after[i]) => Marks(last[i]) = (Marks(after[i]) \ {t}) \cup {s}
  <2> SUFFICES ASSUME NEW i \in DOMAIN after
      PROVE  /\ t \notin Marks(after[i]) => Marks(last[i]) = Marks(after[i])
             /\ t \in Marks(after[i]) => Marks(last[i]) = (Marks(after[i]) \ {t}) \cup {s}
    OBVIOUS
  <2>1. after[i] \in Chars
    BY <1>2, CharsOf
  <2> HIDE DEF after, last
  <2> QED
    BY <1>1, <1>2, <1>3, <2>1, RenamedMarks
<1> HIDE DEF after, last
<1>5. Where(last, s) = Where(after, s) \cup Where(after, t)
  BY <1>1, <1>3, <1>4 DEF Where
<1>6. \A x \in Open(h) \ {s} : Where(last, x) = Where(after, x)
  BY <1>3, <1>4 DEF Where
<1>7. Gathered(d, h, s) = C \cup {t}
  BY <1>1, <1>3 DEF Gathered
<1>8. /\ Where(after, s) = UNION {Where(before, x) : x \in C}
      /\ \A x \in Open(e) \ {s} : Where(after, x) = Where(before, x)
      /\ C \subseteq MergeClass(d, seg, s)
  BY DEF Gathers, after
<1>9. Where(after, t) = Where(before, t) /\ Where(after, t) # {} /\ Where(after, s) # {}
  BY <1>1, <1>8, MarkedWhere
<1>10. t \in MergeClass(d, seg, s)
  <2>1. t \in own
    BY <1>1, <1>9, MarkedWhere
  <2>2. ASSUME NEW cards \in SUBSET own, s \in cards, Closed(before, cards, own)
        PROVE  t \in cards
    <3>1. C \subseteq cards
      <4> HIDE DEF own, before, C
      <4> QED
        BY <1>0, <1>8, <2>2
    <3> DEFINE R == UNION {Where(before, x) : x \in cards}
    <3>2. Bounds(Covered(before, cards), R)
      <4>1. \A x \in cards : Where(before, x) # {}
        BY MarkedWhere
      <4>2. cards # {}
        BY <2>2
      <4> HIDE DEF own
      <4> QED
        BY <4>1, <4>2, CoveredBounds
    <3>3. Where(after, s) \subseteq R
      BY <1>8, <3>1
    <3>4. /\ Bounds(Span(after, s), Where(after, s))
          /\ Bounds(Span(after, t), Where(after, t))
          /\ Bounds(Span(before, t), Where(before, t))
      BY <1>2, <1>9, SpanBounds
    <3>5. Span(after, t) = Span(before, t)
      BY <1>9 DEF Span
    <3> HIDE DEF R, own, before
    <3>6. Gap(Covered(before, cards), Span(before, t)) = 0
      BY <1>1, <3>2, <3>3, <3>4, <3>5, WiderTouches
    <3> QED
      BY <2>1, <2>2, <3>6 DEF Closed
  <2> HIDE DEF own, before
  <2> QED
    BY <1>0, <2>1, <2>2
<1>11. /\ Where(last, s) = UNION {Where(before, x) : x \in C \cup {t}}
       /\ \A x \in Open(h) \ {s} : Where(last, x) = Where(before, x)
       /\ C \cup {t} \subseteq MergeClass(d, seg, s)
  <2> HIDE DEF C, before
  <2>1. Where(last, s) = UNION {Where(before, x) : x \in C \cup {t}}
    BY <1>5, <1>8, <1>9
  <2>2. \A x \in Open(h) \ {s} : Where(last, x) = Where(before, x)
    BY <1>3, <1>6, <1>8
  <2> QED
    BY <1>8, <1>10, <2>1, <2>2
<1> QED
  BY <1>7, <1>11 DEF Gathers, last

\* When no partner is left, what s stands for is closed.
LEMMA NothingTouches ==
  ASSUME NEW d, NEW seg \in Segments, NEW s, d.segments[seg] \in Seq(Chars),
         Marked(d) \subseteq Open(d), s \in MarkedIn(d.segments[seg]),
         NEW e, Settling(e, seg, s), Open(e) \subseteq Open(d), Gathers(d, e, seg, s),
         Partners(e, seg, s) = {}
  PROVE  Gathered(d, e, s) = MergeClass(d, seg, s)
<1> DEFINE before == d.segments[seg]
           after == e.segments[seg]
           C == Gathered(d, e, s)
           own == {x \in MarkedIn(before) : AuthorOf(x) = AuthorOf(s)}
<1>0. \A x : x \in MergeClass(d, seg, s) <=>
                /\ x \in own
                /\ \A cards \in SUBSET own :
                     s \in cards /\ Closed(before, cards, own) => x \in cards
  BY DEF MergeClass
<1>1. /\ Where(after, s) = UNION {Where(before, x) : x \in C}
      /\ \A x \in Open(e) \ {s} : Where(after, x) = Where(before, x)
      /\ C \subseteq MergeClass(d, seg, s)
  BY DEF Gathers
<1>2. after \in Seq(Chars)
  BY DEF Settling, Typed
<1>3. C \subseteq own /\ s \in C
  <2>1. s \in C
    BY DEF Gathered
  <2> HIDE DEF own, before, C
  <2> QED
    BY <1>0, <1>1, <2>1
<1>4. Closed(before, C, own)
  <2> SUFFICES ASSUME NEW t \in own, t \notin C,
                      Gap(Covered(before, C), Span(before, t)) = 0
               PROVE  FALSE
    BY DEF Closed
  <2>1. t \in Open(e) /\ t # s
    BY DEF Gathered, Marked
  <2>2. Where(before, t) # {} /\ Where(after, t) = Where(before, t)
        /\ Span(after, t) = Span(before, t)
    BY <1>1, <2>1, MarkedWhere DEF Span
  <2>3. Bounds(Covered(before, C), Where(after, s))
    <3>1. \A x \in C : Where(before, x) # {}
      BY <1>3, MarkedWhere
    <3>2. C # {}
      BY <1>3
    <3> HIDE DEF C
    <3> QED
      BY <1>1, <3>1, <3>2, CoveredBounds
  <2>4. Where(after, s) # {}
    BY <2>3 DEF Bounds
  <2>5. Bounds(Span(after, s), Where(after, s)) /\ Bounds(Span(after, t), Where(after, t))
    BY <1>2, <2>2, <2>4, SpanBounds
  <2>6. Gap(Span(after, s), Span(after, t)) <= MergeTolerance
    <3>1. Gap(Covered(before, C), Span(after, t)) <= MergeTolerance
      BY <2>2 DEF MergeTolerance
    <3> HIDE DEF C, before, after
    <3> QED
      BY <2>3, <2>5, <3>1, WiderTouches
  <2>7. t \in Partners(e, seg, s)
    BY <2>1, <2>2, <2>4, <2>6, MarkedWhere DEF Partners
  <2> QED
    BY <2>7
<1>5. MergeClass(d, seg, s) \subseteq C
  <2> HIDE DEF own, before, C
  <2> QED
    BY <1>0, <1>3, <1>4
<1> QED
  BY <1>1, <1>5

-----------------------------------------------------------------------------
(* The turns of the loop. *)

\* One turn of the loop: the newest card absorbs a partner, or the loop is done.
LEMMA AbsorbOne ==
  ASSUME NEW d, NEW seg \in Segments, NEW s, Settling(d, seg, s),
         NEW r, r = [doc |-> d, sid |-> s]
  PROVE  /\ Partners(d, seg, s) = {} => Absorb(r, seg) = r
         /\ Partners(d, seg, s) # {} =>
              \E t \in Partners(d, seg, s) :
                Absorb(r, seg) = [doc |-> Merge(d, s, t), sid |-> s]
<1> DEFINE chars == d.segments[seg]
           found == Partners(d, seg, s)
           lo(u) == Span(chars, u).lo
           t == Leftmost(chars, found)
<1>1. Partners(d, seg, s) = {} => Absorb(r, seg) = r
  BY DEF Absorb
<1>2. ASSUME found # {} PROVE t \in found
  <2>1. chars \in Seq(Chars)
    BY DEF Settling, Typed
  <2>2. \A u \in found : lo(u) \in Nat
    <3>1. \A u \in found : u \in MarkedIn(chars)
      BY DEF Partners
    <3> QED
      BY <2>1, <3>1, SpanCovers
  <2> DEFINE T == {lo(u) : u \in found}
  <2>3. T \subseteq Nat /\ T # {}
    BY <1>2, <2>2
  <2>4. \E x \in T : \A y \in T : x <= y
    <3> HIDE DEF T
    <3> QED
      BY <2>3, LeastNumber
  <2>5. \E u \in found : \A v \in found : lo(u) <= lo(v)
    BY <2>4
  <2> HIDE DEF found
  <2> QED
    BY <2>5 DEF Leftmost
<1>3. ASSUME found # {}
      PROVE  Absorb(r, seg) = [doc |-> Merge(d, s, t), sid |-> s]
  <2>1. t \in found /\ t \in Open(d) /\ t # s
    <3>1. \A u \in found : u \in Open(d) /\ u # s
      BY DEF Partners
    <3> HIDE DEF t, found
    <3> QED
      BY <1>2, <1>3, <3>1
  <2>2. d.registry[s].touched >= d.registry[t].touched
    <3>1. d.registry[s].touched = d.clock /\ d.clock \in Nat
          /\ d.registry[t].touched <= d.clock /\ d.registry[t].touched \in Nat
      BY <2>1 DEF Settling, Timed, Typed
    <3> QED
      BY <3>1
  <2>3. r.doc = d /\ r.sid = s
    OBVIOUS
  <2>4. Absorb(r, seg) =
          LET kept == IF d.registry[s].touched >= d.registry[t].touched THEN s ELSE t
              gone == IF kept = t THEN s ELSE t
          IN [doc |-> Merge(d, kept, gone), sid |-> kept]
    BY <1>3, <2>3 DEF Absorb
  <2> HIDE DEF t
  <2> QED
    BY <2>1, <2>2, <2>4
<1> HIDE DEF t, found
<1> QED
  BY <1>1, <1>2, <1>3 DEF found

\* f lists the turns of the loop, from the first to the n-th.
Turns(f, d, seg, s, n) ==
    f = [k \in 0..n |-> IF k = 0 THEN [doc |-> d, sid |-> s] ELSE Absorb(f[k - 1], seg)]

\* The loop has as many turns as asked for.
LEMMA TurnsExist ==
  ASSUME NEW d, NEW seg, NEW s, NEW n \in Nat
  PROVE  \E f : Turns(f, d, seg, s, n)
<1> DEFINE Bad == {m \in Nat : ~ \E f : Turns(f, d, seg, s, m)}
<1>1. SUFFICES ASSUME Bad # {} PROVE FALSE
  OBVIOUS
<1>2. PICK m \in Bad : \A k \in Bad : m <= k
  <2>1. Bad \subseteq Nat
    OBVIOUS
  <2> HIDE DEF Bad
  <2> QED
    BY <1>1, <2>1, LeastNumber
<1>3. m \in Nat /\ ~ \E f : Turns(f, d, seg, s, m)
  OBVIOUS
<1>4. m # 0
  <2> DEFINE f == [k \in 0..0 |-> [doc |-> d, sid |-> s]]
  <2>1. Turns(f, d, seg, s, 0)
    <3>1. \A k \in 0..0 : k = 0
      OBVIOUS
    <3> QED
      BY <3>1 DEF Turns
  <2> QED
    BY <1>3, <2>1
<1>5. m - 1 \in Nat /\ m - 1 \notin Bad
  BY <1>2, <1>3, <1>4
<1>6. PICK f : Turns(f, d, seg, s, m - 1)
  BY <1>5
<1> DEFINE g == [k \in 0..m |-> IF k = m THEN Absorb(f[m - 1], seg) ELSE f[k]]
<1>7. \A k \in 0..m : g[k] = IF k = 0 THEN [doc |-> d, sid |-> s]
                             ELSE Absorb(g[k - 1], seg)
  <2> SUFFICES ASSUME NEW k \in 0..m
               PROVE  g[k] = IF k = 0 THEN [doc |-> d, sid |-> s]
                             ELSE Absorb(g[k - 1], seg)
    OBVIOUS
  <2>0. \A j \in 0..(m - 1) : f[j] = IF j = 0 THEN [doc |-> d, sid |-> s]
                                    ELSE Absorb(f[j - 1], seg)
    BY <1>6 DEF Turns
  <2>1. CASE k = m
    <3>1. k # 0 /\ k - 1 \in 0..m /\ k - 1 # m
      BY <1>3, <1>4, <2>1
    <3> QED
      BY <2>1, <3>1
  <2>2. CASE k # m
    <3>1. k \in 0..(m - 1) /\ (k # 0 => k - 1 \in 0..m /\ k - 1 # m)
      BY <1>3, <1>4, <2>2
    <3> QED
      BY <2>0, <2>2, <3>1
  <2> QED
    BY <2>1, <2>2
<1>8. Turns(g, d, seg, s, m)
  <2>1. g = [k \in 0..m |-> g[k]]
    OBVIOUS
  <2> HIDE DEF g
  <2> QED
    BY <1>7, <2>1 DEF Turns
<1> QED
  BY <1>3, <1>8

\* What the loop computes is its last turn.
LEMMA MergeAroundTurns ==
  ASSUME NEW d, NEW seg, NEW s, Cardinality(Open(d)) \in Nat
  PROVE  \E f : /\ Turns(f, d, seg, s, Cardinality(Open(d)))
                /\ MergeAround(d, seg, s) = f[Cardinality(Open(d))]
<1> DEFINE n == Cardinality(Open(d))
           f == CHOOSE f : Turns(f, d, seg, s, n)
<1>1. MergeAround(d, seg, s) = f[n]
  BY DEF MergeAround, Turns
<1>2. Turns(f, d, seg, s, n)
  <2>1. \E h : Turns(h, d, seg, s, n)
    BY TurnsExist
  <2> QED
    BY <2>1
<1> QED
  BY <1>1, <1>2

\* There are finitely many ids, so open cards can be counted.
LEMMA OpenCount ==
  ASSUME NEW d, Typed(d)
  PROVE  IsFiniteSet(Open(d)) /\ Cardinality(Open(d)) \in Nat
<1>1. IsFiniteSet(1..MaxSuggestions)
  BY DocAssumption, CountInterval
<1>2. IsFiniteSet(Ids)
  BY DocAssumption, <1>1, FS_Product DEF Ids
<1>3. Open(d) \subseteq Ids
  BY DEF Typed
<1> QED
  BY <1>2, <1>3, Counts

\* Absorption upon absorption.
LEMMA FollowsOn ==
  ASSUME NEW d, NEW e, NEW h, NEW s, Follows(d, e, s), Follows(e, h, s)
  PROVE  Follows(d, h, s)
<1>1. Merged(d, h, s)
  <2>1. d.mergeLog \subseteq h.mergeLog
    BY DEF Follows, Merged
  <2>2. ASSUME NEW m \in h.mergeLog \ d.mergeLog
        PROVE  \E t \in Open(d) \ Open(h) :
                 m = <<s, t>> /\ t # s /\ AuthorOf(t) = AuthorOf(s)
    <3>1. CASE m \in e.mergeLog
      BY <3>1 DEF Follows, Merged
    <3>2. CASE m \notin e.mergeLog
      BY <3>2 DEF Follows, Merged
    <3> QED
      BY <3>1, <3>2
  <2> QED
    BY <2>1, <2>2 DEF Merged
<1>2. MarksStay(d, h, s)
  BY DEF Follows, MarksStay
<1>4. Converses(d, h) /\ (Blocks(d) => Blocks(h))
  BY DEF Follows, Converses
<1>3. /\ \A g \in Segments : Len(h.segments[g]) = Len(d.segments[g])
      /\ h.counters = d.counters /\ Open(h) \subseteq Open(d)
      /\ \A accepted \in SUBSET (Open(h) \ {s}) :
           Outcome(h, accepted) = Outcome(d, accepted)
  BY DEF Follows
<1> QED
  BY <1>1, <1>2, <1>3, <1>4 DEF Follows

\* r is where the loop may be after k of n turns: done, or with a card less for
\* every turn.
After(r, d, seg, s, k, n) ==
    \E e : /\ r = [doc |-> e, sid |-> s] /\ Settling(e, seg, s) /\ Follows(d, e, s)
           /\ s \in MarkedIn(d.segments[seg]) => Gathers(d, e, seg, s)
           /\ Partners(e, seg, s) = {} \/ Cardinality(Open(e)) + k <= n

\* Every turn either absorbs a card or finds none.
LEMMA TurnSettles ==
  ASSUME NEW d, NEW seg \in Segments, d.segments[seg] \in Seq(Chars),
         NEW s, NEW k \in Nat, NEW n \in Nat,
         NEW r, After(r, d, seg, s, k, n)
  PROVE  After(Absorb(r, seg), d, seg, s, k + 1, n)
<1>1. PICK e : /\ r = [doc |-> e, sid |-> s] /\ Settling(e, seg, s) /\ Follows(d, e, s)
               /\ s \in MarkedIn(d.segments[seg]) => Gathers(d, e, seg, s)
               /\ Partners(e, seg, s) = {} \/ Cardinality(Open(e)) + k <= n
  BY DEF After
<1>2. CASE Partners(e, seg, s) = {}
  <2>1. Absorb(r, seg) = r
    BY <1>1, <1>2, AbsorbOne
  <2> QED
    BY <1>1, <1>2, <2>1 DEF After
<1>3. CASE Partners(e, seg, s) # {}
  <2>1. PICK t \in Partners(e, seg, s) :
          Absorb(r, seg) = [doc |-> Merge(e, s, t), sid |-> s]
    BY <1>1, <1>3, AbsorbOne
  <2> DEFINE h == Merge(e, s, t)
  <2>2. /\ Settling(h, seg, s) /\ Follows(e, h, s)
        /\ t \in Open(e) /\ Open(h) = Open(e) \ {t}
    BY <1>1, <2>1, MergeSettles
  <2> HIDE DEF h
  <2>3. Cardinality(Open(e)) + k <= n
    BY <1>1, <1>3
  <2>4. IsFiniteSet(Open(e)) /\ Cardinality(Open(e)) \in Nat
    BY <1>1, OpenCount DEF Settling
  <2>5. Cardinality(Open(h)) = Cardinality(Open(e)) - 1
    BY <2>2, <2>4, FS_RemoveElement
  <2>6. Cardinality(Open(h)) + (k + 1) <= n
    BY <2>3, <2>4, <2>5
  <2>7. Follows(d, h, s)
    BY <1>1, <2>2, FollowsOn
  <2>8. s \in MarkedIn(d.segments[seg]) => Gathers(d, h, seg, s)
    <3>1. Open(e) \subseteq Open(d)
      BY <1>1 DEF Follows
    <3> QED
      BY <1>1, <2>1, <3>1, MergeGathers DEF h
  <2> QED
    BY <2>1, <2>2, <2>6, <2>7, <2>8 DEF After, h
<1> QED
  BY <1>2, <1>3

\* The loop ends with the newest card, all its partners absorbed.
LEMMA LoopSettles ==
  ASSUME NEW d, NEW seg \in Segments, NEW s, Settling(d, seg, s)
  PROVE  \E e : /\ MergeAround(d, seg, s) = [doc |-> e, sid |-> s]
                /\ Settling(e, seg, s) /\ Follows(d, e, s)
                /\ s \in MarkedIn(d.segments[seg]) => Gathers(d, e, seg, s)
                /\ Partners(e, seg, s) = {}
<1> DEFINE n == Cardinality(Open(d))
<1>1. n \in Nat /\ Typed(d) /\ d.segments[seg] \in Seq(Chars)
  BY OpenCount DEF Settling, Typed
<1>2. PICK f : Turns(f, d, seg, s, n) /\ MergeAround(d, seg, s) = f[n]
  BY <1>1, MergeAroundTurns
<1>3. /\ f[0] = [doc |-> d, sid |-> s]
      /\ \A k \in 0..n : k # 0 => f[k] = Absorb(f[k - 1], seg)
  BY <1>1, <1>2 DEF Turns
<1> HIDE DEF n
<1>4. After(f[0], d, seg, s, 0, n)
  <2>1. Follows(d, d, s)
    BY DEF Follows, Merged, MarksStay, Converses
  <2>2. Cardinality(Open(d)) + 0 <= n
    BY <1>1 DEF n
  <2>3. s \in MarkedIn(d.segments[seg]) => Gathers(d, d, seg, s)
    BY GathersItself
  <2> QED
    BY <1>3, <2>1, <2>2, <2>3 DEF After
<1> DEFINE Bad == {k \in 0..n : ~After(f[k], d, seg, s, k, n)}
<1>5. Bad = {}
  <2>1. SUFFICES ASSUME Bad # {} PROVE FALSE
    OBVIOUS
  <2>2. PICK k \in Bad : \A j \in Bad : k <= j
    <3>1. Bad \subseteq Nat
      BY <1>1
    <3> HIDE DEF Bad
    <3> QED
      BY <2>1, <3>1, LeastNumber
  <2>3. k \in 0..n /\ ~After(f[k], d, seg, s, k, n)
    OBVIOUS
  <2>4. k # 0
    BY <1>4, <2>3
  <2>5. k - 1 \in Nat /\ k - 1 \in 0..n /\ k - 1 \notin Bad /\ (k - 1) + 1 = k
    BY <1>1, <2>2, <2>3, <2>4
  <2>6. After(f[k - 1], d, seg, s, k - 1, n)
    BY <2>5
  <2> HIDE DEF Bad
  <2>7. After(Absorb(f[k - 1], seg), d, seg, s, (k - 1) + 1, n)
    BY <1>1, <2>5, <2>6, TurnSettles
  <2> QED
    BY <1>3, <2>3, <2>4, <2>5, <2>7
<1>6. After(f[n], d, seg, s, n, n)
  BY <1>1, <1>5
<1>7. PICK e : /\ f[n] = [doc |-> e, sid |-> s] /\ Settling(e, seg, s) /\ Follows(d, e, s)
               /\ s \in MarkedIn(d.segments[seg]) => Gathers(d, e, seg, s)
               /\ Partners(e, seg, s) = {} \/ Cardinality(Open(e)) + n <= n
  BY <1>6 DEF After
<1>8. ASSUME Cardinality(Open(e)) + n <= n PROVE FALSE
  <2>1. IsFiniteSet(Open(e)) /\ Cardinality(Open(e)) \in Nat /\ s \in Open(e)
    BY <1>7, OpenCount DEF Settling
  <2>2. Cardinality(Open(e)) # 0
    BY <2>1, FS_EmptySet
  <2> QED
    BY <1>1, <1>8, <2>1, <2>2
<1> QED
  BY <1>2, <1>7, <1>8

\* Settling restores the invariant: the new card is left, or marks nothing.
LEMMA SettleInv ==
  ASSUME NEW d, NEW seg \in Segments, NEW s, Settling(d, seg, s)
  PROVE  LET r == Settle(d, seg, s) IN
         /\ r.sid = s /\ DocInv(r.doc) /\ Follows(d, r.doc, s)
         /\ Partners(r.doc, seg, s) = {}
<1>1. PICK e : /\ MergeAround(d, seg, s) = [doc |-> e, sid |-> s]
               /\ Settling(e, seg, s) /\ Follows(d, e, s)
               /\ Partners(e, seg, s) = {}
  BY LoopSettles
<1>2. Settle(d, seg, s) = [doc |-> GC(e), sid |-> s]
  BY <1>1 DEF Settle
<1> DEFINE h == GC(e)
<1>3. /\ h.segments = e.segments /\ h.clock = e.clock /\ h.mergeLog = e.mergeLog
      /\ h.counters = e.counters /\ Open(h) = Open(e) \cap Marked(e)
      /\ \A x \in Open(h) : h.registry[x] = e.registry[x]
      /\ Marked(h) = Marked(e) /\ Typed(h)
  BY <1>1, GCFields DEF Settling
<1> HIDE DEF h
<1>4. OneCard(e)
  BY <1>1, NoPartners
<1>5. /\ OneCard(h) /\ OneSegment(h) /\ Timed(h) /\ Open(h) \subseteq Minted(h)
      /\ Marked(h) = Open(h)
  BY <1>1, <1>3, <1>4 DEF OneCard, OneSegment, Timed, Minted, Settling
<1>6. DocInv(h)
  BY <1>3, <1>5 DEF DocInv
<1>7. \A accepted : Outcome(h, accepted) = Outcome(e, accepted)
  BY <1>3, OutcomeIsText
<1>11. Converses(e, h)
  <2> SUFFICES ASSUME Marked(e) = Open(e), Threaded(e)
               PROVE  Threaded(h) /\ Posts(e) \subseteq Posts(h)
    BY <1>5 DEF Converses
  <2>1. Open(h) = Open(e) /\ e.clock \in Nat /\ e.clock <= e.clock
    BY <1>1, <1>3 DEF Settling, Typed
  <2>2. Threaded(h)
    BY <1>3, <2>1, FewerThreads
  <2>3. Posts(h) = Posts(e)
    BY <1>3, <2>1 DEF Posts
  <2> QED
    BY <2>2, <2>3
<1>12. Blocks(e) => Blocks(h)
  BY <1>3, SameBlocks
<1>8. Follows(e, h, s)
  BY <1>3, <1>7, <1>11, <1>12 DEF Follows, Merged, MarksStay
<1>9. Follows(d, h, s)
  BY <1>1, <1>8, FollowsOn
<1>10. Partners(h, seg, s) = {}
  <2>1. Partners(h, seg, s) \subseteq Partners(e, seg, s)
    BY <1>3 DEF Partners
  <2> QED
    BY <1>1, <2>1
<1> QED
  BY <1>2, <1>6, <1>9, <1>10 DEF h

\* Settling around s keeps s and absorbs the rest of its closure, no other card.
Closes(d, seg, s) ==
    LET r == Settle(d, seg, s)
    IN r.sid = s /\ Open(r.doc) = (Open(d) \ MergeClass(d, seg, s)) \cup {s}

LEMMA SettleCloses ==
  ASSUME NEW d, NEW seg \in Segments, NEW s, Settling(d, seg, s), Marked(d) = Open(d),
         s \in MarkedIn(d.segments[seg])
  PROVE  Closes(d, seg, s)
<1>1. PICK e : /\ MergeAround(d, seg, s) = [doc |-> e, sid |-> s]
               /\ Settling(e, seg, s) /\ Follows(d, e, s)
               /\ Gathers(d, e, seg, s) /\ Partners(e, seg, s) = {}
  BY LoopSettles
<1>2. Settle(d, seg, s) = [doc |-> GC(e), sid |-> s]
  BY <1>1 DEF Settle
<1>3. Open(GC(e)) = Open(e) \cap Marked(e)
  BY <1>1, GCFields DEF Settling
<1>4. Open(e) \subseteq Open(d) /\ s \in Open(e) /\ d.segments[seg] \in Seq(Chars)
  BY <1>1 DEF Follows, Settling, Typed
<1>5. Open(e) \subseteq Marked(e)
  <2> SUFFICES ASSUME NEW x \in Open(e) PROVE x \in Marked(e)
    OBVIOUS
  <2>1. PICK g \in Segments : \E i \in DOMAIN d.segments[g] : x \in Marks(d.segments[g][i])
    BY <1>4 DEF Marked, MarkedIn
  <2>2. \E i \in DOMAIN e.segments[g] : x \in Marks(e.segments[g][i])
    BY <1>1, <2>1 DEF Follows, MarksStay
  <2> QED
    BY <2>2 DEF Marked, MarkedIn
<1>6. Gathered(d, e, s) = MergeClass(d, seg, s)
  BY <1>1, <1>4, NothingTouches
<1>7. Open(e) = (Open(d) \ Gathered(d, e, s)) \cup {s}
  BY <1>4 DEF Gathered
<1> QED
  BY <1>2, <1>3, <1>5, <1>6, <1>7 DEF Closes

-----------------------------------------------------------------------------
(* Suggested edits. *)

\* e is d with the new card s of author a, which marks nothing yet.
Proposed(d, a, e, s) ==
    /\ Typed(e) /\ e.segments = d.segments /\ e.clock = d.clock + 1
    /\ Open(e) = Open(d) \cup {s} /\ e.registry[s].touched = e.clock
    /\ e.registry[s].thread = <<>>
    /\ \A x \in Open(d) \ {s} : e.registry[x] = d.registry[x]
    /\ s \in Ids /\ s \notin Minted(d) /\ s \in Minted(e)
    /\ Minted(d) \subseteq Minted(e) /\ e.mergeLog = d.mergeLog
    /\ e.counters = [d.counters EXCEPT ![a] = d.counters[a] + 1]
    /\ s = <<a, d.counters[a] + 1>>

\* A new card has the next number of its author, and is touched now.
LEMMA ProposeFields ==
  ASSUME NEW d, Typed(d), NEW a \in Authors, d.counters[a] < MaxSuggestions,
         NEW e, e = NewSuggestion(d, a), NEW s, s = Newest(e, a)
  PROVE  Proposed(d, a, e, s)
<1> DEFINE n == d.counters[a] + 1
           new == <<a, n>>
           cards == [x \in Open(d) \cup {new} |->
                      IF x = new THEN [touched |-> d.clock + 1, thread |-> <<>>]
                      ELSE d.registry[x]]
           counters == [d.counters EXCEPT ![a] = n]
<1>1. d = [field \in Fields |-> d[field]] /\ d.clock \in Nat
      /\ d.counters \in [Authors -> 0..MaxSuggestions] /\ MaxSuggestions \in Nat
  BY DocAssumption DEF Typed
<1>2. /\ e = [field \in Fields |-> e[field]]
      /\ e.segments = d.segments /\ e.registry = cards
      /\ e.clock = d.clock + 1 /\ e.counters = counters
      /\ e.mergeLog = d.mergeLog
  <2> HIDE DEF cards
  <2>1. e = [d EXCEPT !.counters[a] = n, !.clock = d.clock + 1, !.registry = cards]
    BY DEF NewSuggestion, cards
  <2> QED
    BY <1>1, <2>1 DEF Fields
<1>3. n \in 1..MaxSuggestions /\ counters \in [Authors -> 0..MaxSuggestions]
      /\ counters[a] = n /\ \A b \in Authors : b # a => counters[b] = d.counters[b]
  BY <1>1
<1>4. s = new /\ s \in Ids /\ s \notin Minted(d) /\ s \in Minted(e)
  <2>1. s = new
    BY <1>2, <1>3 DEF Newest
  <2>2. new \in Ids /\ AuthorOf(new) = a /\ new[2] = n
    BY <1>3 DEF Ids, AuthorOf
  <2>3. ~(n <= d.counters[a]) /\ n <= n
    BY <1>1, <1>3
  <2> HIDE DEF new, counters, n
  <2> QED
    BY <1>2, <1>3, <2>1, <2>2, <2>3 DEF Minted
<1>5. Minted(d) \subseteq Minted(e)
  <2> SUFFICES ASSUME NEW x \in Minted(d) PROVE x \in Minted(e)
    OBVIOUS
  <2>1. x \in Ids /\ x[2] \in Nat /\ AuthorOf(x) \in Authors
        /\ x[2] <= d.counters[AuthorOf(x)]
    BY DEF Minted, Ids, AuthorOf
  <2>2. d.counters[AuthorOf(x)] <= counters[AuthorOf(x)]
        /\ d.counters[AuthorOf(x)] \in Nat /\ counters[AuthorOf(x)] \in Nat
    BY <1>1, <1>3, <2>1
  <2> HIDE DEF counters
  <2>3. x[2] <= counters[AuthorOf(x)]
    BY <2>1, <2>2
  <2> QED
    BY <1>2, <2>1, <2>3 DEF Minted
<1>6. Open(e) = Open(d) \cup {s}
      /\ e.registry[s] = [touched |-> d.clock + 1, thread |-> <<>>]
      /\ \A x \in Open(d) \ {s} : e.registry[x] = d.registry[x]
  BY <1>2, <1>4 DEF Open
<1>10. s = <<a, d.counters[a] + 1>>
  BY <1>4
<1> HIDE DEF cards, new, counters
<1>7. Typed(e)
  <2>1. ASSUME NEW x \in Open(e)
        PROVE  /\ e.registry[x] = [touched |-> e.registry[x].touched,
                                   thread |-> e.registry[x].thread]
               /\ e.registry[x].touched \in Nat
    <3>1. CASE x = s
      <4>1. e.registry[x] = [touched |-> d.clock + 1, thread |-> <<>>]
        BY <1>6, <3>1
      <4>2. d.clock + 1 \in Nat
        BY <1>1
      <4> QED
        BY <4>1, <4>2
    <3>2. CASE x # s
      BY <1>6, <3>2 DEF Typed
    <3> QED
      BY <3>1, <3>2
  <2>2. e.clock \in Nat /\ Open(e) \subseteq Ids
    <3>1. Open(d) \subseteq Ids
      BY DEF Typed
    <3>2. e.clock \in Nat
      BY <1>1, <1>2
    <3> QED
      BY <1>4, <1>6, <3>1, <3>2
  <2>3. e.segments \in [Segments -> Seq(Chars)]
    BY <1>2 DEF Typed
  <2> QED
    BY <1>2, <1>3, <2>1, <2>2, <2>3 DEF Typed
<1>8. e.registry[s].touched = e.clock /\ e.registry[s].thread = <<>>
  BY <1>2, <1>6
<1>9. e.counters = [d.counters EXCEPT ![a] = d.counters[a] + 1]
  BY <1>2 DEF counters
<1> QED
  BY <1>2, <1>4, <1>5, <1>6, <1>7, <1>8, <1>9, <1>10 DEF Proposed

\* An edit of one segment that adds marks of the new card only, and copies marks
\* of one character at most to any other, can settle.
LEMMA ProposalSettles ==
  ASSUME NEW d, DocInv(d), NEW a \in Authors, d.counters[a] < MaxSuggestions,
         NEW seg \in Segments, NEW chars \in Seq(Chars),
         NEW s, s = Newest(NewSuggestion(d, a), a),
         \A k \in DOMAIN chars :
           \/ Marks(chars[k]) \subseteq {s}
           \/ \E m \in DOMAIN d.segments[seg] :
                Marks(chars[k]) \subseteq Marks(d.segments[seg][m]) \cup {s},
         NEW e, e = WithText(NewSuggestion(d, a), seg, chars)
  PROVE  Settling(e, seg, s) /\ e.segments[seg] = chars
         /\ \A g \in Segments \ {seg} : e.segments[g] = d.segments[g]
<1> DEFINE with == NewSuggestion(d, a)
<1>1. /\ Typed(d) /\ Marked(d) = Open(d) /\ OneSegment(d) /\ OneCard(d) /\ Timed(d)
      /\ Open(d) \subseteq Minted(d)
  BY DEF DocInv
<1>2. /\ Typed(with) /\ with.segments = d.segments /\ with.clock = d.clock + 1
      /\ Open(with) = Open(d) \cup {s} /\ with.registry[s].touched = with.clock
      /\ \A x \in Open(d) \ {s} : with.registry[x] = d.registry[x]
      /\ s \in Ids /\ s \notin Minted(d) /\ s \in Minted(with)
      /\ Minted(d) \subseteq Minted(with)
  <2>1. with = NewSuggestion(d, a) /\ s = Newest(with, a)
    OBVIOUS
  <2> HIDE DEF with
  <2>2. Proposed(d, a, with, s)
    BY <1>1, <2>1, ProposeFields
  <2> QED
    BY <2>2 DEF Proposed
<1> HIDE DEF with
<1>3. e = WithText(with, seg, chars)
  BY DEF with
<1>4. /\ Typed(e) /\ e.registry = with.registry /\ e.clock = with.clock
      /\ e.counters = with.counters /\ Open(e) = Open(with)
      /\ e.segments[seg] = chars
      /\ \A g \in Segments \ {seg} : e.segments[g] = d.segments[g]
  <2>1. /\ Typed(e) /\ e.registry = with.registry /\ e.clock = with.clock
        /\ e.counters = with.counters /\ Open(e) = Open(with)
        /\ e.segments[seg] = chars
        /\ \A g \in Segments \ {seg} : e.segments[g] = with.segments[g]
    BY <1>2, <1>3, WithTextFields
  <2> QED
    BY <1>2, <2>1
<1>5. s \notin Open(d) /\ s \notin Marked(d)
  BY <1>1, <1>2
<1>6. \A g \in Segments : \A x \in MarkedIn(e.segments[g]) :
        \/ x = s /\ g = seg
        \/ x # s /\ x \in MarkedIn(d.segments[g])
  <2> SUFFICES ASSUME NEW g \in Segments, NEW x \in MarkedIn(e.segments[g])
               PROVE  (x = s /\ g = seg) \/ (x # s /\ x \in MarkedIn(d.segments[g]))
    OBVIOUS
  <2>1. CASE g = seg
    <3>1. PICK i \in DOMAIN e.segments[g] : x \in Marks(e.segments[g][i])
      BY DEF MarkedIn
    <3> QED
      BY <1>4, <2>1, <3>1 DEF MarkedIn
  <2>2. CASE g # seg
    <3>1. x \in MarkedIn(d.segments[g])
      BY <1>4, <2>2 DEF MarkedIn
    <3> QED
      BY <1>5, <3>1 DEF Marked
  <2> QED
    BY <2>1, <2>2
<1>7. Marked(e) \subseteq Open(e)
  BY <1>1, <1>2, <1>4, <1>6 DEF Marked
<1>8. OneSegment(e)
  BY <1>1, <1>6 DEF OneSegment
<1>9. Timed(e)
  <2> SUFFICES ASSUME NEW x \in Open(e) PROVE e.registry[x].touched <= e.clock
    BY DEF Timed
  <2>1. d.clock \in Nat /\ e.clock = d.clock + 1
    BY <1>1, <1>2, <1>4 DEF Typed
  <2>2. CASE x = s
    BY <1>2, <1>4, <2>1, <2>2
  <2>3. CASE x # s
    <3>1. x \in Open(d) /\ e.registry[x] = d.registry[x]
      BY <1>2, <1>4, <2>3
    <3>2. d.registry[x].touched <= d.clock /\ d.registry[x].touched \in Nat
      BY <1>1, <3>1 DEF Timed, Typed
    <3> QED
      BY <2>1, <3>1, <3>2
  <2> QED
    BY <2>2, <2>3
<1>10. Open(e) \subseteq Minted(e)
  <2>1. Minted(e) = Minted(with)
    BY <1>4 DEF Minted
  <2> QED
    BY <1>1, <1>2, <1>4, <2>1
<1>11. ASSUME NEW g \in Segments, NEW i \in DOMAIN e.segments[g],
              NEW x \in Marks(e.segments[g][i]), NEW y \in Marks(e.segments[g][i]),
              AuthorOf(x) = AuthorOf(y), x # y
       PROVE  g = seg /\ (x = s \/ y = s)
  <2>1. CASE g = seg
    <3>1. ASSUME x # s, y # s PROVE FALSE
      <4>1. PICK m \in DOMAIN d.segments[seg] :
              Marks(chars[i]) \subseteq Marks(d.segments[seg][m]) \cup {s}
        BY <1>4, <2>1, <3>1
      <4>2. x \in Marks(d.segments[seg][m]) /\ y \in Marks(d.segments[seg][m])
        BY <1>4, <2>1, <3>1, <4>1
      <4> QED
        BY <1>1, <1>11, <4>2 DEF OneCard
    <3> QED
      BY <2>1, <3>1
  <2>2. CASE g # seg
    BY <1>1, <1>4, <1>11, <2>2 DEF OneCard
  <2> QED
    BY <2>1, <2>2
<1>12. s \in Open(e) /\ e.registry[s].touched = e.clock
  BY <1>2, <1>4
<1> QED
  BY <1>4, <1>7, <1>8, <1>9, <1>10, <1>11, <1>12 DEF Settling

\* What a settled edit of author a has done: it opened one card, s, may have
\* absorbed others, and changed no decision that leaves s rejected.
Suggested(d, e, a, s) ==
    /\ DocInv(e) /\ s \in Minted(e) \ Minted(d) /\ Minted(d) \subseteq Minted(e)
    /\ e.counters = [d.counters EXCEPT ![a] = d.counters[a] + 1]
    /\ s = <<a, d.counters[a] + 1>>
    /\ Open(e) \subseteq Open(d) \cup {s} /\ Merged(d, e, s)
    /\ \A accepted \in SUBSET (Open(e) \ {s}) :
         Outcome(e, accepted) = Outcome(d, accepted)

\* e is d with the text of one segment replaced, and settled around the new card s. If
\* the text shows s and what was marked before, no post is lost; if it keeps cards in
\* one block each, they stay blocks.
Settled(d, e, seg, chars, s) ==
    /\ \A g \in Segments : Len(e.segments[g])
                             = IF g = seg THEN Len(chars) ELSE Len(d.segments[g])
    /\ \A k \in DOMAIN chars : \A x \in Open(e) \cup {s} :
         x \in Marks(chars[k]) => x \in Marks(e.segments[seg][k])
    /\ Partners(e, seg, s) = {}
    /\ MarkedIn(d.segments[seg]) \cup {s} \subseteq MarkedIn(chars) => Keeps(d, e)
    /\ (\A x \in Ids : Blocked(d.segments[seg], x) => Blocked(chars, x)) =>
         (Blocks(d) => Blocks(e))

\* An edit that can settle and proposes only does so when it has settled.
LEMMA SettledProposal ==
  ASSUME NEW d, DocInv(d), NEW a \in Authors, d.counters[a] < MaxSuggestions,
         NEW seg \in Segments, NEW chars,
         NEW s, s = Newest(NewSuggestion(d, a), a),
         NEW with, with = WithText(NewSuggestion(d, a), seg, chars),
         chars \in Seq(Chars), Settling(with, seg, s),
         \A accepted : s \notin accepted =>
           Text(chars, accepted) = Text(d.segments[seg], accepted),
         NEW r, r = Settle(with, seg, s)
  PROVE  /\ r.sid = s /\ Suggested(d, r.doc, a, s) /\ Settled(d, r.doc, seg, chars, s)
         /\ MarkedIn(d.segments[seg]) \cup {s} \subseteq MarkedIn(chars) =>
              Closes(with, seg, s) /\ Newest(with, a) = s
<1> DEFINE new == NewSuggestion(d, a)
<1>1. Proposed(d, a, new, s)
  <2>1. new = NewSuggestion(d, a) /\ s = Newest(new, a) /\ Typed(d)
    BY DEF DocInv
  <2> HIDE DEF new
  <2> QED
    BY <2>1, ProposeFields
<1>2. with = WithText(new, seg, chars)
  OBVIOUS
<1> HIDE DEF new
<1>3. /\ with.counters = new.counters /\ Open(with) = Open(d) \cup {s}
      /\ with.segments[seg] = chars /\ with.mergeLog = d.mergeLog
      /\ with.registry = new.registry /\ with.clock = new.clock
      /\ \A g \in Segments \ {seg} : with.segments[g] = d.segments[g]
  <2>1. Typed(new) /\ new.segments = d.segments /\ Open(new) = Open(d) \cup {s}
        /\ new.mergeLog = d.mergeLog
    BY <1>1 DEF Proposed
  <2>2. /\ with.counters = new.counters /\ Open(with) = Open(new)
        /\ with.segments[seg] = chars /\ with.mergeLog = new.mergeLog
        /\ with.registry = new.registry /\ with.clock = new.clock
        /\ \A g \in Segments \ {seg} : with.segments[g] = new.segments[g]
    BY <1>2, <2>1, WithTextFields
  <2> QED
    BY <2>1, <2>2
<1> DEFINE e == r.doc
<1>4. r.sid = s /\ DocInv(e) /\ Follows(with, e, s) /\ Partners(e, seg, s) = {}
  BY SettleInv
<1> HIDE DEF e
<1>5. ASSUME NEW accepted, s \notin accepted
      PROVE  Outcome(with, accepted) = Outcome(d, accepted)
  <2>1. \A g \in Segments :
          Text(with.segments[g], accepted) = Text(d.segments[g], accepted)
    BY <1>3, <1>5
  <2> QED
    BY <2>1, OutcomeIsText
<1>6. ASSUME NEW accepted \in SUBSET (Open(e) \ {s})
      PROVE  Outcome(e, accepted) = Outcome(d, accepted)
  <2>1. Outcome(e, accepted) = Outcome(with, accepted)
    BY <1>4 DEF Follows
  <2>2. Outcome(with, accepted) = Outcome(d, accepted)
    BY <1>5
  <2> QED
    BY <2>1, <2>2
<1>7. e.counters = new.counters /\ Open(e) \subseteq Open(d) \cup {s}
      /\ \A g \in Segments : Len(e.segments[g]) = Len(with.segments[g])
  BY <1>3, <1>4 DEF Follows
<1>8. Minted(e) = Minted(new)
  BY <1>7 DEF Minted
<1>9. /\ s \in Minted(new) \ Minted(d) /\ Minted(d) \subseteq Minted(new)
      /\ new.counters = [d.counters EXCEPT ![a] = d.counters[a] + 1]
      /\ s = <<a, d.counters[a] + 1>>
  BY <1>1 DEF Proposed
<1>12. Merged(d, e, s)
  BY <1>3, <1>4 DEF Follows, Merged
<1>13. \A k \in DOMAIN chars : \A x \in Open(e) \cup {s} :
         x \in Marks(chars[k]) => x \in Marks(e.segments[seg][k])
  BY <1>3, <1>4 DEF Follows, MarksStay
<1>10. Suggested(d, e, a, s)
  BY <1>4, <1>6, <1>7, <1>8, <1>9, <1>12 DEF Suggested
<1>11. \A g \in Segments : Len(e.segments[g])
                            = IF g = seg THEN Len(chars) ELSE Len(d.segments[g])
  BY <1>3, <1>7
<1>18. ASSUME MarkedIn(d.segments[seg]) \cup {s} \subseteq MarkedIn(chars)
       PROVE  Marked(with) = Open(with)
  <2>1. Marked(with) \subseteq Open(with) /\ Marked(d) = Open(d)
    BY DEF Settling, DocInv
  <2>2. \A g \in Segments : MarkedIn(d.segments[g]) \subseteq MarkedIn(with.segments[g])
    BY <1>3, <1>18
  <2>3. Marked(d) \cup {s} \subseteq Marked(with)
    BY <1>3, <1>18, <2>2 DEF Marked
  <2> QED
    BY <1>3, <2>1, <2>3
<1>19. ASSUME MarkedIn(d.segments[seg]) \cup {s} \subseteq MarkedIn(chars)
       PROVE  Closes(with, seg, s) /\ Newest(with, a) = s
  <2>1. s \in MarkedIn(with.segments[seg])
    BY <1>3, <1>19
  <2>2. Newest(with, a) = s
    BY <1>3 DEF Newest, new
  <2> QED
    BY <1>18, <1>19, <2>1, <2>2, SettleCloses
<1>15. ASSUME MarkedIn(d.segments[seg]) \cup {s} \subseteq MarkedIn(chars), Threaded(d)
       PROVE  Threaded(e) /\ Posts(d) \subseteq Posts(e)
  <2>1. Typed(d) /\ Marked(d) = Open(d) /\ s \notin Open(d)
    BY <1>1 DEF DocInv, Proposed
  <2>2. Threaded(new) /\ Posts(d) \subseteq Posts(new)
    <3>1. d.clock \in Nat
      BY <2>1 DEF Typed
    <3>2. /\ Open(new) = Open(d) \cup {s} /\ new.clock = d.clock + 1
          /\ new.registry[s].thread = <<>>
          /\ \A t \in Open(d) : new.registry[t].thread = d.registry[t].thread
      BY <1>1, <2>1 DEF Proposed
    <3> QED
      BY <1>15, <2>1, <3>1, <3>2, OneThreadMore
  <2>3. Threaded(with) /\ Posts(with) = Posts(new)
    BY <1>3, <2>2, SameThreads
  <2>4. Marked(with) = Open(with)
    BY <1>15, <1>18
  <2> QED
    BY <1>4, <2>2, <2>3, <2>4 DEF Follows, Converses
<1>16. MarkedIn(d.segments[seg]) \cup {s} \subseteq MarkedIn(chars) => Keeps(d, e)
  BY <1>15 DEF Keeps
<1>17. ASSUME \A x \in Ids : Blocked(d.segments[seg], x) => Blocked(chars, x), Blocks(d)
       PROVE  Blocks(e)
  <2>1. /\ Typed(d) /\ Marked(d) = Open(d) /\ s \notin Open(d) /\ s \in Ids
        /\ Open(with) \subseteq Ids
    BY <1>1 DEF DocInv, Proposed, Settling, Typed
  <2>2. ASSUME NEW x \in Open(with), NEW g \in Segments,
               \A m \in with.mergeLog : m[1] # x
        PROVE  Blocked(with.segments[g], x)
    <3>1. Blocked(d.segments[g], x)
      <4>1. CASE x = s
        <5>1. s \notin MarkedIn(d.segments[g])
          BY <2>1 DEF Marked
        <5>2. Inserts(d.segments[g], x) = {} /\ Strikes(d.segments[g], x) = {}
          BY <4>1, <5>1 DEF Inserts, Strikes, MarkedIn, Marks
        <5> QED
          BY <5>2 DEF Blocked, Contiguous
      <4>2. CASE x # s
        BY <1>3, <1>17, <2>2, <4>2 DEF Blocks
      <4> QED
        BY <4>1, <4>2
    <3>2. x \in Ids
      BY <2>1
    <3> QED
      BY <1>3, <1>17, <3>1, <3>2
  <2>3. Blocks(with)
    BY <2>2 DEF Blocks
  <2> QED
    BY <1>4, <2>3 DEF Follows
<1>14. Settled(d, e, seg, chars, s)
  BY <1>4, <1>11, <1>13, <1>16, <1>17 DEF Settled
<1> QED
  BY <1>4, <1>10, <1>14, <1>19 DEF e

\* Characters that do not survive may be spliced in.
LEMMA SplicedText ==
  ASSUME NEW chars \in Seq(Chars), NEW i \in 0..Len(chars), NEW n \in Nat, NEW c,
         NEW spliced, Spliced(chars, i, n, c, spliced),
         NEW accepted, ~Survives(c, accepted)
  PROVE  Text(spliced, accepted) = Text(chars, accepted)
<1> DEFINE A == Surviving(chars, accepted)
           B == Surviving(spliced, accepted)
           g == [k \in A |-> IF k <= i THEN k ELSE k + n]
<1>1. /\ Len(chars) \in Nat /\ DOMAIN chars = 1..Len(chars) /\ i \in Nat
      /\ spliced \in Seq(Chars) /\ DOMAIN spliced = 1..(Len(chars) + n)
  BY CharsOf DEF Spliced
<1>2. A \subseteq 1..Len(chars) /\ \A k \in A : Survives(chars[k], accepted)
  BY <1>1 DEF Surviving
<1>3. B = {k \in 1..(Len(chars) + n) : Survives(spliced[k], accepted)}
  BY <1>1 DEF Surviving
<1>4. \A k \in 1..(Len(chars) + n) :
        spliced[k] = IF k <= i THEN chars[k]
                     ELSE IF k <= i + n THEN c ELSE chars[k - n]
  BY DEF Spliced
<1>5. \A k \in A : k \in Nat /\ (g[k] = IF k <= i THEN k ELSE k + n)
  BY <1>2
<1>6. A = {k \in 1..Len(chars) : Survives(chars[k], accepted)}
  BY <1>1 DEF Surviving
<1> HIDE DEF A, B, g
<1>7. ASSUME NEW k \in A PROVE g[k] \in B /\ spliced[g[k]] = chars[k]
  <2>1. k \in 1..Len(chars)
    BY <1>2
  <2>2. CASE k <= i
    <3>1. k \in 1..(Len(chars) + n) /\ g[k] = k
      BY <1>1, <1>5, <2>1, <2>2
    <3>2. spliced[k] = chars[k]
      BY <1>4, <2>2, <3>1
    <3> QED
      BY <1>2, <1>3, <3>1, <3>2
  <2>3. CASE ~(k <= i)
    <3>1. k + n \in 1..(Len(chars) + n) /\ g[k] = k + n
          /\ ~(k + n <= i) /\ ~(k + n <= i + n) /\ (k + n) - n = k
      BY <1>1, <1>5, <2>1, <2>3
    <3>2. spliced[k + n] = chars[k]
      BY <1>4, <3>1
    <3> QED
      BY <1>2, <1>3, <3>1, <3>2
  <2> QED
    BY <2>2, <2>3
<1>8. \A j, k \in A : j < k => g[j] < g[k]
  <2> SUFFICES ASSUME NEW j \in A, NEW k \in A, j < k PROVE g[j] < g[k]
    OBVIOUS
  <2>1. j \in Nat /\ k \in Nat /\ (g[j] = IF j <= i THEN j ELSE j + n)
        /\ (g[k] = IF k <= i THEN k ELSE k + n)
    BY <1>5
  <2> QED
    BY <1>1, <2>1
<1>9. \A b \in B : \E k \in A : g[k] = b
  <2> SUFFICES ASSUME NEW b \in B PROVE \E k \in A : g[k] = b
    OBVIOUS
  <2>1. b \in 1..(Len(chars) + n) /\ Survives(spliced[b], accepted)
    BY <1>3
  <2>2. CASE b <= i
    <3>1. b \in 1..Len(chars) /\ spliced[b] = chars[b]
      BY <1>1, <1>4, <2>1, <2>2
    <3>2. b \in A
      BY <1>6, <2>1, <3>1
    <3> QED
      BY <1>5, <2>2, <3>2
  <2>3. CASE ~(b <= i) /\ b <= i + n
    <3>1. spliced[b] = c
      BY <1>4, <2>1, <2>3
    <3> QED
      BY <2>1, <3>1
  <2>4. CASE ~(b <= i) /\ ~(b <= i + n)
    <3>1. b - n \in 1..Len(chars) /\ spliced[b] = chars[b - n] /\ ~(b - n <= i)
          /\ (b - n) + n = b
      BY <1>1, <1>4, <2>1, <2>4
    <3>2. b - n \in A
      BY <1>6, <2>1, <3>1
    <3>3. g[b - n] = b
      BY <1>5, <3>1, <3>2
    <3> QED
      BY <3>2, <3>3
  <2> QED
    BY <2>2, <2>3, <2>4
<1>10. Pairs(g, A, B)
  <2>1. g = [k \in A |-> g[k]]
    BY DEF g
  <2>2. g \in [A -> B]
    BY <1>7, <2>1
  <2> QED
    BY <1>8, <1>9, <2>2 DEF Pairs
<1>11. \A k \in A : spliced[g[k]].cp = chars[k].cp
  BY <1>7
<1> QED
  BY <1>1, <1>10, <1>11, SameText DEF A, B

\* Inserted text is its card's, and carries what the text before it carries.
LEMMA InsertProposes ==
  ASSUME NEW d, DocInv(d), NEW a \in Authors, d.counters[a] < MaxSuggestions,
         NEW seg \in Segments, NEW i \in 0..Len(d.segments[seg]), NEW n \in Nat,
         NEW s, s = Newest(NewSuggestion(d, a), a),
         NEW r, r = Insert(d, seg, i, n, a)
  PROVE  /\ r.sid = s /\ Suggested(d, r.doc, a, s)
         /\ \A g \in Segments : Len(r.doc.segments[g]) >= Len(d.segments[g])
         /\ n # 0 /\ i < Len(d.segments[seg]) =>
              \A t \in Marks(d.segments[seg][i + 1]) \cap Open(r.doc) : AuthorOf(t) # a
         /\ n # 0 => Keeps(d, r.doc)
         /\ n # 0 => LET with == Inserted(d, seg, i, n, a)
                     IN Newest(with, a) = s /\ Closes(with, seg, s)
         /\ Blocks(d) => Blocks(r.doc)
<1> DEFINE chars == d.segments[seg]
           new == NewSuggestion(d, a)
           c == [cp |-> s, ins |-> InsMarks(s, InheritedIns(chars, i)),
                 dels |-> InheritedDels(chars, i)]
           spliced == Splice(chars, i, Copies(n, c))
           with == WithText(new, seg, spliced)
<1>1. Typed(d) /\ chars \in Seq(Chars)
  BY DEF DocInv, Typed
<1>2. Proposed(d, a, new, s)
  <2>1. new = NewSuggestion(d, a) /\ s = Newest(new, a)
    OBVIOUS
  <2> HIDE DEF new
  <2> QED
    BY <1>1, <2>1, ProposeFields
<1>3. Inserted(d, seg, i, n, a) = with
  <2> HIDE DEF new
  <2>1. new = NewSuggestion(d, a) /\ s = Newest(new, a)
    BY DEF new
  <2>2. new = [field \in Fields |-> new[field]] /\ new.segments = d.segments
    BY <1>2 DEF Proposed, Typed
  <2>3. with = [new EXCEPT !.segments[seg] = Splice(chars, i, [k \in 1..n |-> c])]
    BY DEF WithText, Copies
  <2> HIDE DEF with
  <2> QED
    BY <2>1, <2>2, <2>3 DEF Inserted
<1>4. /\ Len(chars) \in Nat /\ DOMAIN chars = 1..Len(chars)
      /\ i \in 0..Len(chars) /\ \A k \in 1..Len(chars) : chars[k] \in Chars
  BY <1>1, CharsOf
<1>5. s \in Ids
  BY <1>2 DEF Proposed
<1>6. /\ c \in Chars /\ s \in c.ins
      /\ i = 0 => Marks(c) \subseteq {s}
      /\ i # 0 => i \in DOMAIN chars /\ Marks(c) \subseteq Marks(chars[i]) \cup {s}
  <2>1. CASE i = 0
    <3>1. c.ins = {s} /\ c.dels = {} /\ c = [cp |-> s, ins |-> {s}, dels |-> {}]
      BY <2>1 DEF InsMarks, InheritedIns, InheritedDels
    <3> HIDE DEF c
    <3> QED
      BY <1>5, <2>1, <3>1 DEF Chars, Marks
  <2>2. CASE i # 0
    <3>1. i \in 1..Len(chars) /\ chars[i] \in Chars
      BY <1>4, <2>2
    <3>2. chars[i].ins \in SUBSET Ids /\ chars[i].dels \in SUBSET Ids
      BY <3>1 DEF Chars
    <3>3. InheritedIns(chars, i) \subseteq chars[i].ins
      BY DEF InheritedIns
    <3>4. InheritedDels(chars, i) = chars[i].dels
      BY <1>4, <2>2 DEF InheritedDels
    <3>5. c.ins = {s} \cup InheritedIns(chars, i) /\ c.dels = chars[i].dels
          /\ c = [cp |-> s, ins |-> c.ins, dels |-> c.dels]
      BY <3>4 DEF InsMarks
    <3> HIDE DEF c
    <3> QED
      BY <1>4, <1>5, <2>2, <3>1, <3>2, <3>3, <3>5 DEF Chars, Marks
  <2> QED
    BY <2>1, <2>2
<1>20. c.ins = {s} \cup InheritedIns(chars, i) /\ c.dels = InheritedDels(chars, i)
  BY DEF InsMarks
<1> HIDE DEF c
<1>7. Spliced(chars, i, n, c, spliced)
  <2>1. spliced = Splice(chars, i, Copies(n, c))
    OBVIOUS
  <2> HIDE DEF spliced, chars
  <2> QED
    BY <1>1, <1>4, <1>6, <2>1, SpliceChars
<1> HIDE DEF spliced
<1>8. spliced \in Seq(Chars) /\ DOMAIN spliced = 1..(Len(chars) + n)
  BY <1>7, CharsOf DEF Spliced
<1>9. ASSUME NEW k \in DOMAIN spliced
      PROVE  \/ Marks(spliced[k]) \subseteq {s}
             \/ \E m \in DOMAIN chars :
                  Marks(spliced[k]) \subseteq Marks(chars[m]) \cup {s}
  <2>1. k \in 1..(Len(chars) + n)
        /\ (spliced[k] = IF k <= i THEN chars[k]
                         ELSE IF k <= i + n THEN c ELSE chars[k - n])
    BY <1>7, <1>8 DEF Spliced
  <2>2. CASE k <= i
    <3>1. k \in DOMAIN chars /\ spliced[k] = chars[k]
      BY <1>4, <2>1, <2>2
    <3> QED
      BY <3>1
  <2>3. CASE ~(k <= i) /\ k <= i + n
    <3>1. spliced[k] = c
      BY <2>1, <2>3
    <3> QED
      BY <1>6, <3>1
  <2>4. CASE ~(k <= i) /\ ~(k <= i + n)
    <3>1. k - n \in DOMAIN chars /\ spliced[k] = chars[k - n]
      BY <1>4, <2>1, <2>4
    <3> QED
      BY <3>1
  <2> QED
    BY <2>2, <2>3, <2>4
<1> HIDE DEF with
<1>10. with = WithText(NewSuggestion(d, a), seg, spliced)
  BY DEF with
<1>11. Settling(with, seg, s)
  BY <1>8, <1>9, <1>10, ProposalSettles
<1>12. ASSUME NEW accepted, s \notin accepted
       PROVE  Text(spliced, accepted) = Text(chars, accepted)
  <2>1. ~Survives(c, accepted)
    BY <1>6, <1>12 DEF Survives
  <2> HIDE DEF chars
  <2> QED
    BY <1>1, <1>4, <1>7, <2>1, SplicedText
<1>13. r = Settle(with, seg, s)
  <2>1. r = Settle(with, seg, Newest(with, a))
    BY <1>3 DEF Insert
  <2>2. Typed(new)
    BY <1>2 DEF Proposed
  <2> HIDE DEF new
  <2>3. with = WithText(new, seg, spliced)
    BY DEF with
  <2>4. with.counters = new.counters
    BY <1>8, <1>10, <2>2, <2>3, WithTextFields
  <2>5. Newest(with, a) = s
    BY <2>4 DEF Newest, new
  <2> QED
    BY <2>1, <2>5
<1>14. /\ r.sid = s /\ Suggested(d, r.doc, a, s)
       /\ Settled(d, r.doc, seg, spliced, s)
       /\ MarkedIn(d.segments[seg]) \cup {s} \subseteq MarkedIn(spliced) =>
            Closes(with, seg, s) /\ Newest(with, a) = s
  <2>1. \A accepted : s \notin accepted =>
          Text(spliced, accepted) = Text(d.segments[seg], accepted)
    BY <1>12
  <2> HIDE DEF chars, new
  <2> QED
    BY <1>8, <1>10, <1>11, <1>13, <2>1, SettledProposal
<1>15. /\ r.sid = s /\ Suggested(d, r.doc, a, s)
       /\ \A g \in Segments : Len(r.doc.segments[g])
                                = IF g = seg THEN Len(spliced) ELSE Len(d.segments[g])
       /\ \A k \in DOMAIN spliced : \A x \in Open(r.doc) \cup {s} :
            x \in Marks(spliced[k]) => x \in Marks(r.doc.segments[seg][k])
       /\ Partners(r.doc, seg, s) = {}
       /\ MarkedIn(chars) \cup {s} \subseteq MarkedIn(spliced) => Keeps(d, r.doc)
       /\ (\A x \in Ids : Blocked(chars, x) => Blocked(spliced, x)) =>
            (Blocks(d) => Blocks(r.doc))
  BY <1>14 DEF Settled
<1> DEFINE e == r.doc
           after == e.segments[seg]
<1> HIDE DEF e
<1>16. Len(spliced) = Len(chars) + n
  BY <1>7 DEF Spliced
<1>17. \A g \in Segments : Len(e.segments[g]) >= Len(d.segments[g])
  <2>1. \A g \in Segments : d.segments[g] \in Seq(Chars) /\ Len(d.segments[g]) \in Nat
    BY <1>1 DEF Typed
  <2> QED
    BY <1>15, <1>16, <2>1 DEF e
<1>18. ASSUME n # 0, i < Len(chars),
              NEW t \in Marks(chars[i + 1]) \cap Open(e), AuthorOf(t) = a
       PROVE  FALSE
  <2>1. i + n \in DOMAIN spliced /\ i + n + 1 \in DOMAIN spliced
        /\ spliced[i + n] = c /\ spliced[i + n + 1] = chars[i + 1]
    <3>1. i + n \in 1..(Len(chars) + n) /\ i + n + 1 \in 1..(Len(chars) + n)
          /\ ~(i + n <= i) /\ ~(i + n + 1 <= i + n) /\ ~(i + n + 1 <= i)
          /\ (i + n + 1) - n = i + 1
      <4> DEFINE L == Len(chars)
      <4>1. L \in Nat /\ i \in 0..L /\ i < L /\ n # 0
        BY <1>4, <1>18
      <4> HIDE DEF L
      <4>2. /\ i + n \in 1..(L + n) /\ i + n + 1 \in 1..(L + n)
            /\ ~(i + n <= i) /\ ~(i + n + 1 <= i + n) /\ ~(i + n + 1 <= i)
            /\ (i + n + 1) - n = i + 1
        BY <4>1
      <4> QED
        BY <4>2 DEF L
    <3>2. \A k \in 1..(Len(chars) + n) :
            spliced[k] = IF k <= i THEN chars[k] ELSE IF k <= i + n THEN c ELSE chars[k - n]
      BY <1>7 DEF Spliced
    <3>3. spliced[i + n] = c
      <4>1. spliced[i + n] = IF i + n <= i THEN chars[i + n]
                             ELSE IF i + n <= i + n THEN c ELSE chars[(i + n) - n]
        BY <3>1, <3>2
      <4> QED
        BY <1>4, <3>1, <4>1
    <3>4. spliced[i + n + 1] = chars[i + 1]
      <4>1. spliced[i + n + 1] = IF i + n + 1 <= i THEN chars[i + n + 1]
                                 ELSE IF i + n + 1 <= i + n THEN c
                                 ELSE chars[(i + n + 1) - n]
        BY <3>1, <3>2
      <4> QED
        BY <3>1, <4>1
    <3> QED
      BY <1>8, <3>1, <3>3, <3>4
  <2>2. s \in Marks(after[i + n]) /\ t \in Marks(after[i + n + 1])
    BY <1>6, <1>15, <1>18, <2>1 DEF Marks, e
  <2>3. after \in Seq(Chars) /\ DOMAIN after = DOMAIN spliced
    <3>1. after \in Seq(Chars) /\ Len(after) = Len(spliced)
      BY <1>15 DEF e, Suggested, DocInv, Typed
    <3> QED
      BY <1>8, <1>16, <3>1, CharsOf
  <2>4. Gap(Span(after, s), Span(after, t)) <= MergeTolerance
    BY <2>1, <2>2, <2>3, NextCharacter
  <2>5. s \in MarkedIn(after) /\ t \in MarkedIn(after)
    BY <2>1, <2>2, <2>3 DEF MarkedIn
  <2>6. t # s
    <3>1. t \in Marked(d)
      <4>1. i + 1 \in DOMAIN chars
        BY <1>4, <1>18
      <4> QED
        BY <1>18, <4>1 DEF Marked, MarkedIn
    <3> QED
      BY <1>2, <3>1 DEF DocInv, Proposed
  <2>7. AuthorOf(s) = a
    BY <1>2 DEF Proposed, AuthorOf
  <2>8. t \in Partners(e, seg, s)
    BY <1>18, <2>4, <2>5, <2>6, <2>7 DEF Partners
  <2> QED
    BY <1>15, <2>8 DEF e
<1>19. ASSUME n # 0 PROVE Keeps(d, e) /\ Closes(with, seg, s) /\ Newest(with, a) = s
  <2>1. s \in MarkedIn(spliced)
    <3>1. i + 1 \in 1..(Len(chars) + n) /\ ~(i + 1 <= i) /\ i + 1 <= i + n
      BY <1>4, <1>19
    <3>2. i + 1 \in DOMAIN spliced /\ spliced[i + 1] = c
      BY <1>7, <1>8, <3>1 DEF Spliced
    <3> QED
      BY <1>6, <3>2 DEF MarkedIn, Marks
  <2>2. ASSUME NEW m \in DOMAIN chars
        PROVE  \E k \in DOMAIN spliced : spliced[k] = chars[m]
    <3>1. CASE m <= i
      <4>1. m \in 1..(Len(chars) + n)
        BY <1>4
      <4> QED
        BY <1>7, <1>8, <3>1, <4>1 DEF Spliced
    <3>2. CASE ~(m <= i)
      <4>1. m + n \in 1..(Len(chars) + n) /\ ~(m + n <= i) /\ ~(m + n <= i + n)
            /\ (m + n) - n = m
        BY <1>4, <3>2
      <4> QED
        BY <1>7, <1>8, <4>1 DEF Spliced
    <3> QED
      BY <3>1, <3>2
  <2>3. MarkedIn(chars) \subseteq MarkedIn(spliced)
    BY <2>2 DEF MarkedIn
  <2> QED
    BY <1>14, <1>15, <2>1, <2>3 DEF e
<1>21. Blocks(d) => Blocks(e)
  <2>1. s \notin MarkedIn(chars)
    <3>1. s \notin Open(d) /\ Marked(d) = Open(d)
      BY <1>2 DEF DocInv, Proposed
    <3> QED
      BY <3>1 DEF Marked
  <2>2. \A x \in Ids : Blocked(chars, x) => Blocked(spliced, x)
    <3> HIDE DEF chars
    <3> QED
      BY <1>1, <1>4, <1>7, <1>20, <2>1, SplicedBlocks
  <2> QED
    BY <1>15, <2>2 DEF e
<1> QED
  BY <1>3, <1>15, <1>17, <1>18, <1>19, <1>21 DEF e

\* Struck text keeps its place and takes the mark of the new card.
LEMMA DeleteProposes ==
  ASSUME NEW d, DocInv(d), NEW a \in Authors, d.counters[a] < MaxSuggestions,
         NEW seg \in Segments, NEW i, NEW j,
         NEW s, s = Newest(NewSuggestion(d, a), a),
         NEW r, r = Delete(d, seg, i, j, a)
  PROVE  /\ r.sid = s /\ Suggested(d, r.doc, a, s)
         /\ \A g \in Segments : Len(r.doc.segments[g]) = Len(d.segments[g])
         /\ \A k \in DOMAIN d.segments[seg] : i < k /\ k <= j =>
              s \in Marks(r.doc.segments[seg][k])
         /\ (\E k \in DOMAIN d.segments[seg] : i < k /\ k <= j) =>
              LET with == Deleted(d, seg, i, j, a)
              IN Keeps(d, r.doc) /\ Newest(with, a) = s /\ Closes(with, seg, s)
         /\ i \in Nat /\ j \in Nat => (Blocks(d) => Blocks(r.doc))
<1> DEFINE chars == d.segments[seg]
           new == NewSuggestion(d, a)
           struck == [k \in DOMAIN chars |->
                       IF i < k /\ k <= j
                       THEN [chars[k] EXCEPT !.dels = chars[k].dels \cup {s}]
                       ELSE chars[k]]
           with == WithText(new, seg, struck)
<1>1. Typed(d) /\ chars \in Seq(Chars)
  BY DEF DocInv, Typed
<1>2. Proposed(d, a, new, s)
  <2>1. new = NewSuggestion(d, a) /\ s = Newest(new, a)
    OBVIOUS
  <2> HIDE DEF new
  <2> QED
    BY <1>1, <2>1, ProposeFields
<1>3. Deleted(d, seg, i, j, a) = with
  <2> HIDE DEF new
  <2>1. new = NewSuggestion(d, a) /\ s = Newest(new, a)
    BY DEF new
  <2>2. new = [field \in Fields |-> new[field]] /\ new.segments = d.segments
        /\ d.segments \in [Segments -> Seq(Chars)]
    BY <1>1, <1>2 DEF Proposed, Typed
  <2>3. Deleted(d, seg, i, j, a) = [new EXCEPT !.segments[seg] = struck]
    BY <2>1, <2>2 DEF Deleted
  <2> QED
    BY <2>3 DEF WithText
<1>4. /\ Len(chars) \in Nat /\ DOMAIN chars = 1..Len(chars)
      /\ \A k \in 1..Len(chars) : chars[k] \in Chars
  BY <1>1, CharsOf
<1>5. s \in Ids
  BY <1>2 DEF Proposed
<1>6. ASSUME NEW k \in 1..Len(chars)
      PROVE  /\ struck[k] \in Chars /\ struck[k].cp = chars[k].cp
             /\ Marks(struck[k]) \subseteq Marks(chars[k]) \cup {s}
             /\ Marks(chars[k]) \subseteq Marks(struck[k])
             /\ struck[k].ins = chars[k].ins
             /\ struck[k].dels = IF i < k /\ k <= j THEN chars[k].dels \cup {s}
                                 ELSE chars[k].dels
             /\ i < k /\ k <= j => s \in Marks(struck[k])
             /\ \A accepted : s \notin accepted =>
                  (Survives(struck[k], accepted) <=> Survives(chars[k], accepted))
  <2>1. chars[k] \in Chars
    BY <1>4
  <2>4. \/ struck[k] = chars[k] /\ ~(i < k /\ k <= j)
        \/ struck[k] = [chars[k] EXCEPT !.dels = chars[k].dels \cup {s}] /\ i < k /\ k <= j
    BY <1>4
  <2> HIDE DEF struck, chars
  <2>2. CASE struck[k] = chars[k] /\ ~(i < k /\ k <= j)
    BY <2>1, <2>2
  <2>3. CASE struck[k] = [chars[k] EXCEPT !.dels = chars[k].dels \cup {s}] /\ i < k /\ k <= j
    <3>1. struck[k] \in Chars /\ struck[k].cp = chars[k].cp
          /\ struck[k].ins = chars[k].ins /\ struck[k].dels = chars[k].dels \cup {s}
      BY <1>5, <2>1, <2>3 DEF Chars
    <3> QED
      BY <2>3, <3>1 DEF Marks, Survives
  <2> QED
    BY <2>2, <2>3, <2>4
<1>7. struck \in Seq(Chars) /\ Len(struck) = Len(chars)
      /\ DOMAIN struck = DOMAIN chars
  <2>1. struck = [k \in 1..Len(chars) |-> struck[k]]
    BY <1>4
  <2> HIDE DEF struck
  <2>2. struck \in [1..Len(chars) -> Chars]
    BY <1>6, <2>1
  <2> QED
    BY <1>4, <2>2, CharsFrom
<1> HIDE DEF struck, with
<1>8. with = WithText(NewSuggestion(d, a), seg, struck)
  BY DEF with
<1>9. \A k \in DOMAIN struck : \E m \in DOMAIN chars :
        Marks(struck[k]) \subseteq Marks(chars[m]) \cup {s}
  BY <1>4, <1>6, <1>7
<1>10. Settling(with, seg, s)
  BY <1>7, <1>8, <1>9, ProposalSettles
<1>11. ASSUME NEW accepted, s \notin accepted
       PROVE  Text(struck, accepted) = Text(chars, accepted)
  <2>1. \A k \in 1..Len(chars) :
          /\ Survives(struck[k], accepted) <=> Survives(chars[k], accepted)
          /\ struck[k].cp = chars[k].cp
    BY <1>6, <1>11
  <2> HIDE DEF chars
  <2> QED
    BY <1>1, <1>7, <2>1, SameTextInPlace
<1>12. r = Settle(with, seg, s)
  <2>1. r = Settle(with, seg, Newest(with, a))
    BY <1>3 DEF Delete
  <2>2. Typed(new)
    BY <1>2 DEF Proposed
  <2> HIDE DEF new
  <2>3. with = WithText(new, seg, struck)
    BY DEF with
  <2>4. with.counters = new.counters
    BY <1>7, <1>8, <2>2, <2>3, WithTextFields
  <2>5. Newest(with, a) = s
    BY <2>4 DEF Newest, new
  <2> QED
    BY <2>1, <2>5
<1>13. /\ r.sid = s /\ Suggested(d, r.doc, a, s)
       /\ Settled(d, r.doc, seg, struck, s)
       /\ MarkedIn(d.segments[seg]) \cup {s} \subseteq MarkedIn(struck) =>
            Closes(with, seg, s) /\ Newest(with, a) = s
  BY <1>7, <1>8, <1>10, <1>11, <1>12, SettledProposal
<1>14. \A k \in DOMAIN chars : i < k /\ k <= j => s \in Marks(r.doc.segments[seg][k])
  BY <1>4, <1>6, <1>7, <1>13 DEF Settled
<1>15. \A g \in Segments : Len(r.doc.segments[g]) = Len(d.segments[g])
  BY <1>7, <1>13 DEF Settled
<1>18. \A k \in 1..Len(chars) :
         /\ Marks(chars[k]) \subseteq Marks(struck[k])
         /\ struck[k].ins = chars[k].ins
         /\ struck[k].dels = IF i < k /\ k <= j THEN chars[k].dels \cup {s}
                             ELSE chars[k].dels
  BY <1>6
<1>19. DOMAIN chars = 1..Len(chars) /\ DOMAIN struck = 1..Len(chars)
  BY <1>4, <1>7
<1>16. ASSUME NEW k \in DOMAIN chars, i < k, k <= j
       PROVE  Keeps(d, r.doc) /\ Closes(with, seg, s) /\ Newest(with, a) = s
  <2>1. s \in MarkedIn(struck)
    BY <1>4, <1>6, <1>7, <1>16 DEF MarkedIn
  <2>2. MarkedIn(chars) \subseteq MarkedIn(struck)
    <3> HIDE DEF chars
    <3> QED
      BY <1>18, <1>19 DEF MarkedIn
  <2>3. MarkedIn(chars) \cup {s} \subseteq MarkedIn(struck) =>
          Keeps(d, r.doc) /\ Closes(with, seg, s) /\ Newest(with, a) = s
    BY <1>13 DEF Settled
  <2> HIDE DEF chars
  <2> QED
    BY <2>1, <2>2, <2>3
<1>17. ASSUME i \in Nat, j \in Nat, Blocks(d) PROVE Blocks(r.doc)
  <2>1. s \notin MarkedIn(chars)
    <3>1. s \notin Open(d) /\ Marked(d) = Open(d)
      BY <1>2 DEF DocInv, Proposed
    <3> QED
      BY <3>1 DEF Marked
  <2>2. ASSUME NEW x, Blocked(chars, x) PROVE Blocked(struck, x)
    <3>1. Inserts(struck, x) = Inserts(chars, x)
      <4> HIDE DEF chars
      <4> QED
        BY <1>18, <1>19 DEF Inserts
    <3>2. Contiguous(Strikes(struck, x))
      <4>1. CASE x # s
        <5>1. Strikes(struck, x) = Strikes(chars, x)
          <6> HIDE DEF chars
          <6> QED
            BY <1>18, <1>19, <4>1 DEF Strikes
        <5> QED
          BY <2>2, <5>1 DEF Blocked
      <4>2. CASE x = s
        <5>1. Strikes(struck, x) = {k \in 1..Len(chars) : i < k /\ k <= j}
          <6> HIDE DEF chars
          <6>1. \A k \in 1..Len(chars) : s \notin chars[k].dels
            BY <1>19, <2>1 DEF MarkedIn, Marks
          <6> QED
            BY <1>18, <1>19, <4>2, <6>1 DEF Strikes
        <5> DEFINE L == Len(chars)
        <5>2. L \in Nat
          BY <1>4
        <5> HIDE DEF L
        <5>3. Contiguous({k \in 1..L : i < k /\ k <= j})
          BY <1>17, <5>2 DEF Contiguous
        <5> QED
          BY <5>1, <5>3 DEF L
      <4> QED
        BY <4>1, <4>2
    <3> QED
      BY <2>2, <3>1, <3>2 DEF Blocked
  <2>3. (\A x \in Ids : Blocked(chars, x) => Blocked(struck, x)) =>
          (Blocks(d) => Blocks(r.doc))
    BY <1>13 DEF Settled
  <2> HIDE DEF chars
  <2> QED
    BY <1>17, <2>2, <2>3
<1> QED
  BY <1>3, <1>13, <1>14, <1>15, <1>16, <1>17

\* Minted ids can be counted.
LEMMA MintedCount ==
  ASSUME NEW d, Typed(d)
  PROVE  IsFiniteSet(Minted(d)) /\ Cardinality(Minted(d)) \in Nat
<1>1. IsFiniteSet(1..MaxSuggestions)
  BY DocAssumption, CountInterval
<1>2. IsFiniteSet(Ids)
  BY DocAssumption, <1>1, FS_Product DEF Ids
<1> QED
  BY <1>2, Counts DEF Minted

\* Ids left to mint leave numbers to every author.
LEMMA RoomLeft ==
  ASSUME NEW d, Typed(d), NEW n \in Nat, NEW a \in Authors,
         Cardinality(Minted(d)) + n <= MaxSuggestions
  PROVE  d.counters[a] \in Nat /\ MaxSuggestions \in Nat
         /\ d.counters[a] + n <= MaxSuggestions
<1> DEFINE c == d.counters[a]
           f == [k \in 1..c |-> <<a, k>>]
<1>1. c \in 0..MaxSuggestions /\ MaxSuggestions \in Nat
  BY DocAssumption DEF Typed
<1>2. IsFiniteSet(Minted(d)) /\ Cardinality(Minted(d)) \in Nat
  BY MintedCount
<1>3. \A k \in 1..c : <<a, k>> \in Minted(d)
  BY <1>1 DEF Minted, Ids, AuthorOf
<1>4. IsFiniteSet(1..c) /\ Cardinality(1..c) = c
  BY <1>1, CountInterval
<1> HIDE DEF c
<1>5. f \in Injection(1..c, Minted(d))
  BY <1>3 DEF Injection, IsInjective
<1>6. c <= Cardinality(Minted(d))
  BY <1>2, <1>4, <1>5, FS_Injection
<1>7. c + n <= MaxSuggestions
  BY <1>1, <1>2, <1>6
<1> QED
  BY <1>1, <1>7 DEF c

\* A suggested edit mints one id.
LEMMA OneMore ==
  ASSUME NEW d, DocInv(d), NEW e, NEW a, NEW s, Suggested(d, e, a, s)
  PROVE  Cardinality(Minted(e)) <= Cardinality(Minted(d)) + 1
<1> DEFINE c == d.counters[a]
<1>1. /\ Typed(d) /\ Typed(e) /\ d.counters \in [Authors -> 0..MaxSuggestions]
      /\ e.counters = [d.counters EXCEPT ![a] = c + 1] /\ s = <<a, c + 1>>
      /\ s \in Ids
  BY DEF DocInv, Suggested, Typed, Minted
<1>2. a \in Authors /\ c \in Nat /\ MaxSuggestions \in Nat
  BY <1>1, DocAssumption DEF Ids
<1> HIDE DEF c
<1>3. ASSUME NEW t \in Minted(e), t # s
      PROVE  t \in Minted(d)
  <2>1. t = <<t[1], t[2]>> /\ t \in Ids /\ t[1] \in Authors /\ t[2] \in Nat
        /\ t[2] <= e.counters[t[1]]
    BY <1>2 DEF Minted, Ids, AuthorOf
  <2>2. CASE t[1] = a
    <3>1. t[2] <= c + 1 /\ t[2] # c + 1
      BY <1>1, <1>2, <1>3, <2>1, <2>2
    <3>2. t[2] <= d.counters[t[1]]
      BY <1>2, <2>1, <2>2, <3>1 DEF c
    <3> QED
      BY <2>1, <3>2 DEF Minted, AuthorOf
  <2>3. CASE t[1] # a
    BY <1>1, <2>1, <2>3 DEF Minted, AuthorOf
  <2> QED
    BY <2>2, <2>3
<1>4. Minted(e) \subseteq Minted(d) \cup {s}
  BY <1>3
<1>5. IsFiniteSet(Minted(d)) /\ Cardinality(Minted(d)) \in Nat
  BY <1>1, MintedCount
<1>6. /\ IsFiniteSet(Minted(d) \cup {s})
      /\ Cardinality(Minted(d) \cup {s}) <= Cardinality(Minted(d)) + 1
  BY <1>5, FS_AddElement
<1>7. Cardinality(Minted(e)) <= Cardinality(Minted(d) \cup {s})
  BY <1>4, <1>6, FS_Subset
<1> QED
  BY <1>1, <1>5, <1>6, <1>7, MintedCount, FS_CardinalityType

\* What one or two suggested edits have in common.
Edited(d, e) ==
    /\ DocInv(e) /\ Minted(d) \subseteq Minted(e) /\ Minted(e) # Minted(d)
    /\ Cardinality(Minted(e)) <= Cardinality(Minted(d)) + 2
    /\ Open(e) \subseteq Open(d) \cup (Minted(e) \ Minted(d))
    /\ \A accepted \in SUBSET (Open(d) \cap Open(e)) :
         Outcome(e, accepted) = Outcome(d, accepted)
    /\ Keeps(d, e) /\ (Blocks(d) => Blocks(e))

\* One edit: its card is not among those of before.
LEMMA SuggestedIsEdited ==
  ASSUME NEW d, DocInv(d), NEW e, NEW a, NEW s, Suggested(d, e, a, s), Keeps(d, e),
         Blocks(d) => Blocks(e)
  PROVE  Edited(d, e)
<1>1. s \notin Open(d) /\ s \in Minted(e) \ Minted(d)
  BY DEF DocInv, Suggested
<1>2. Cardinality(Minted(e)) <= Cardinality(Minted(d)) + 2
  <2>1. Cardinality(Minted(d)) \in Nat /\ Cardinality(Minted(e)) \in Nat
    BY MintedCount DEF DocInv, Suggested
  <2>2. Cardinality(Minted(e)) <= Cardinality(Minted(d)) + 1
    BY OneMore
  <2> QED
    BY <2>1, <2>2
<1> QED
  BY <1>1, <1>2 DEF Edited, Suggested

\* Inserting.
LEMMA InsertEdits ==
  ASSUME NEW d, DocInv(d), NEW a \in Authors, NEW seg \in Segments,
         NEW i \in 0..Len(d.segments[seg]), NEW n \in Nat \ {0},
         Cardinality(Minted(d)) + 1 <= MaxSuggestions
  PROVE  Edited(d, Insert(d, seg, i, n, a).doc)
<1>1. d.counters[a] < MaxSuggestions
  <2>1. Typed(d)
    BY DEF DocInv
  <2>2. d.counters[a] \in Nat /\ MaxSuggestions \in Nat
        /\ d.counters[a] + 1 <= MaxSuggestions
    BY <2>1, RoomLeft
  <2> QED
    BY <2>2
<1>2. /\ Suggested(d, Insert(d, seg, i, n, a).doc, a, Newest(NewSuggestion(d, a), a))
      /\ Keeps(d, Insert(d, seg, i, n, a).doc)
      /\ Blocks(d) => Blocks(Insert(d, seg, i, n, a).doc)
  BY <1>1, InsertProposes
<1> QED
  BY <1>2, SuggestedIsEdited

\* A selection holds its last character.
LEMMA Struck ==
  ASSUME NEW d, DocInv(d), NEW seg \in Segments,
         NEW i \in 0..Len(d.segments[seg]), NEW j \in 0..Len(d.segments[seg]), i < j
  PROVE  \E k \in DOMAIN d.segments[seg] : i < k /\ k <= j
<1>1. Len(d.segments[seg]) \in Nat /\ DOMAIN d.segments[seg] = 1..Len(d.segments[seg])
  BY CharsOf DEF DocInv, Typed
<1>2. j \in 1..Len(d.segments[seg]) /\ j <= j
  BY <1>1
<1> QED
  BY <1>1, <1>2

\* Deleting.
LEMMA DeleteEdits ==
  ASSUME NEW d, DocInv(d), NEW a \in Authors, NEW seg \in Segments,
         NEW i \in 0..Len(d.segments[seg]), NEW j \in 0..Len(d.segments[seg]), i < j,
         Cardinality(Minted(d)) + 1 <= MaxSuggestions
  PROVE  Edited(d, Delete(d, seg, i, j, a).doc)
<1>1. d.counters[a] < MaxSuggestions
  <2>1. Typed(d)
    BY DEF DocInv
  <2>2. d.counters[a] \in Nat /\ MaxSuggestions \in Nat
        /\ d.counters[a] + 1 <= MaxSuggestions
    BY <2>1, RoomLeft
  <2> QED
    BY <2>2
<1>2. Suggested(d, Delete(d, seg, i, j, a).doc, a, Newest(NewSuggestion(d, a), a))
  BY <1>1, DeleteProposes
<1>3. \E k \in DOMAIN d.segments[seg] : i < k /\ k <= j
  BY Struck
<1>5. i \in Nat /\ j \in Nat
  OBVIOUS
<1>4. /\ Keeps(d, Delete(d, seg, i, j, a).doc)
      /\ Blocks(d) => Blocks(Delete(d, seg, i, j, a).doc)
  BY <1>1, <1>3, <1>5, DeleteProposes
<1> QED
  BY <1>2, <1>4, SuggestedIsEdited

\* Replacing is deleting and then inserting, and the second edit may absorb the
\* card of the first.
LEMMA ReplaceEdits ==
  ASSUME NEW d, DocInv(d), NEW a \in Authors, NEW seg \in Segments,
         NEW i \in 0..Len(d.segments[seg]), NEW j \in 0..Len(d.segments[seg]), i < j,
         NEW n \in Nat \ {0}, Cardinality(Minted(d)) + 2 <= MaxSuggestions
  PROVE  Edited(d, Replace(d, seg, i, j, n, a).doc)
<1> DEFINE s == Newest(NewSuggestion(d, a), a)
           e == Delete(d, seg, i, j, a).doc
           t == Newest(NewSuggestion(e, a), a)
           h == Insert(e, seg, i, n, a).doc
<1>1. d.counters[a] \in Nat /\ d.counters[a] + 2 <= MaxSuggestions
      /\ MaxSuggestions \in Nat /\ Typed(d)
  <2>1. Typed(d)
    BY DEF DocInv
  <2>2. d.counters[a] \in Nat /\ MaxSuggestions \in Nat
        /\ d.counters[a] + 2 <= MaxSuggestions
    BY <2>1, RoomLeft
  <2> QED
    BY <2>1, <2>2
<1>2. /\ Suggested(d, e, a, s) /\ Len(e.segments[seg]) = Len(d.segments[seg])
      /\ Keeps(d, e) /\ (Blocks(d) => Blocks(e))
  <2>3. i \in Nat /\ j \in Nat
    OBVIOUS
  <2>1. d.counters[a] < MaxSuggestions
    BY <1>1
  <2>2. \E k \in DOMAIN d.segments[seg] : i < k /\ k <= j
    BY Struck
  <2> QED
    BY <2>1, <2>2, <2>3, DeleteProposes
<1>3. e.counters[a] = d.counters[a] + 1
  BY <1>2 DEF Suggested, DocInv, Typed
<1> HIDE DEF e
<1>4. Suggested(e, h, a, t) /\ Keeps(e, h) /\ (Blocks(e) => Blocks(h))
  <2>1. e.counters[a] < MaxSuggestions
    BY <1>1, <1>3
  <2>2. DocInv(e) /\ i \in 0..Len(e.segments[seg]) /\ n \in Nat /\ n # 0
    BY <1>2 DEF Suggested
  <2> DEFINE r == Insert(e, seg, i, n, a)
  <2>3. h = r.doc /\ t = Newest(NewSuggestion(e, a), a)
    OBVIOUS
  <2> HIDE DEF h, t
  <2>4. Suggested(e, r.doc, a, t)
    BY <2>1, <2>2, <2>3, InsertProposes
  <2>5. Keeps(e, r.doc)
    BY <2>1, <2>2, <2>3, InsertProposes
  <2>6. Blocks(e) => Blocks(r.doc)
    BY <2>1, <2>2, <2>3, InsertProposes
  <2> QED
    BY <2>3, <2>4, <2>5, <2>6
<1>5. Replace(d, seg, i, j, n, a).doc = h
  BY DEF Replace, e
<1> HIDE DEF h, s, t
<1>6. /\ DocInv(h) /\ Minted(d) \subseteq Minted(h)
      /\ s \in Minted(e) \ Minted(d) /\ t \in Minted(h) \ Minted(e)
      /\ Minted(d) \subseteq Minted(e) /\ Minted(e) \subseteq Minted(h)
      /\ Open(h) \subseteq Open(e) \cup {t} /\ Open(e) \subseteq Open(d) \cup {s}
  BY <1>2, <1>4 DEF Suggested
<1>7. s \notin Open(d) /\ t \notin Open(d)
  BY <1>2, <1>6 DEF DocInv, Suggested
<1>8. ASSUME NEW accepted \in SUBSET (Open(d) \cap Open(h))
      PROVE  Outcome(h, accepted) = Outcome(d, accepted)
  <2>1. accepted \in SUBSET (Open(h) \ {t}) /\ accepted \in SUBSET (Open(e) \ {s})
    BY <1>6, <1>7
  <2> QED
    BY <1>2, <1>4, <2>1 DEF Suggested
<1>9. Minted(h) # Minted(d) /\ Open(h) \subseteq Open(d) \cup (Minted(h) \ Minted(d))
  BY <1>6
<1>11. Keeps(d, h) /\ (Blocks(d) => Blocks(h))
  BY <1>2, <1>4 DEF Keeps
<1>12. Cardinality(Minted(h)) <= Cardinality(Minted(d)) + 2
  <2>1. DocInv(e) /\ Typed(d) /\ Typed(e) /\ Typed(h)
    BY <1>1, <1>2, <1>6 DEF DocInv, Suggested
  <2>2. /\ Cardinality(Minted(d)) \in Nat /\ Cardinality(Minted(e)) \in Nat
        /\ Cardinality(Minted(h)) \in Nat
    BY <2>1, MintedCount
  <2>3. /\ Cardinality(Minted(e)) <= Cardinality(Minted(d)) + 1
        /\ Cardinality(Minted(h)) <= Cardinality(Minted(e)) + 1
    BY <1>2, <1>4, <2>1, OneMore
  <2> QED
    BY <2>2, <2>3
<1>10. Edited(d, h)
  BY <1>6, <1>8, <1>9, <1>11, <1>12 DEF Edited
<1> QED
  BY <1>5, <1>10

-----------------------------------------------------------------------------
(* The theorems. *)

\* A document begins without marks and cards.
LEMMA InitInv == DocInv(InitialDoc)
<1> DEFINE d == InitialDoc
<1>1. /\ d = [field \in Fields |-> d[field]] /\ d.clock = 0
      /\ d.counters = [a \in Authors |-> 0] /\ Open(d) = {}
      /\ d.segments = [seg \in Segments |->
           [i \in 1..Base[seg] |-> [cp |-> <<"base", i>>, ins |-> {}, dels |-> {}]]]
  BY DEF InitialDoc, Fields, Open
<1> HIDE DEF d
<1>2. ASSUME NEW seg \in Segments
      PROVE  /\ d.segments[seg] \in Seq(Chars)
             /\ \A i \in DOMAIN d.segments[seg] : Marks(d.segments[seg][i]) = {}
  <2>1. Base[seg] \in Nat
    BY DocAssumption DEF Segments
  <2>2. d.segments[seg] = [i \in 1..Base[seg] |->
                             [cp |-> <<"base", i>>, ins |-> {}, dels |-> {}]]
    BY <1>1
  <2>3. d.segments[seg] \in [1..Base[seg] -> Chars]
    BY <2>1, <2>2 DEF Chars
  <2>4. d.segments[seg] \in Seq(Chars)
    BY <2>1, <2>3, CharsFrom
  <2>5. \A i \in DOMAIN d.segments[seg] : Marks(d.segments[seg][i]) = {}
    BY <2>2 DEF Marks
  <2> QED
    BY <2>4, <2>5
<1>3. Typed(d)
  <2>1. d.segments \in [Segments -> Seq(Chars)]
    BY <1>1, <1>2
  <2>2. d.counters \in [Authors -> 0..MaxSuggestions]
    BY <1>1, DocAssumption
  <2> QED
    BY <1>1, <2>1, <2>2 DEF Typed
<1>4. \A seg \in Segments : MarkedIn(d.segments[seg]) = {}
  BY <1>2 DEF MarkedIn
<1>5. Marked(d) = Open(d) /\ OneSegment(d) /\ Timed(d) /\ Open(d) \subseteq Minted(d)
  BY <1>1, <1>4 DEF Marked, OneSegment, Timed
<1>6. OneCard(d)
  BY <1>2 DEF OneCard
<1>7. DocInv(d)
  BY <1>3, <1>5, <1>6 DEF DocInv
<1> QED
  BY <1>7 DEF d

\* What a step does to the document: an edit, a decision, or neither.
Untouched(d, e) ==
    /\ DocInv(e) /\ e.counters = d.counters /\ Open(e) \subseteq Open(d)
    /\ Threaded(d) => Threaded(e)
    /\ "edit" \notin Kinds /\ Blocks(d) => Blocks(e)

\* Requests that leave the conversations alone.
LEMMA ThreadsUntouched ==
  ASSUME NEW d, DocInv(d), NEW e, DocInv(e),
         e.counters = d.counters, Open(e) \subseteq Open(d), e.clock = d.clock,
         \A t \in Open(e) : e.registry[t] = d.registry[t],
         "edit" \notin Kinds /\ Blocks(d) => Blocks(e)
  PROVE  Untouched(d, e)
<1>1. d.clock \in Nat /\ d.clock <= d.clock
  BY DEF DocInv, Typed
<1>2. Threaded(d) => Threaded(e)
  BY <1>1, FewerThreads
<1> QED
  BY <1>2 DEF Untouched

\* Every step is one of a suggested edit, or of a request that opens no card.
LEMMA DocSteps ==
  ASSUME DocInv(doc), Next
  PROVE  Edited(doc, doc') \/ Untouched(doc, doc')
<1> DEFINE Good == Edited(doc, doc') \/ Untouched(doc, doc')
<1>1. Typed(doc) /\ Lengths \subseteq Nat \ {0}
  BY DocAssumption DEF DocInv
<1>2. CASE SuggestInsert
  <2>1. PICK a \in Authors, seg \in Segments, n \in Lengths :
          \E i \in Cursors(seg) : doc' = Insert(doc, seg, i, n, a).doc
    BY <1>2 DEF SuggestInsert
  <2>2. PICK i \in 0..Len(doc.segments[seg]) : doc' = Insert(doc, seg, i, n, a).doc
    BY <2>1 DEF Cursors
  <2>3. Cardinality(Minted(doc)) + 1 <= MaxSuggestions /\ n \in Nat \ {0}
    BY <1>1, <1>2 DEF SuggestInsert, RoomFor
  <2> QED
    BY <2>2, <2>3, InsertEdits
<1>3. CASE SuggestDelete
  <2>1. PICK a \in Authors, seg \in Segments :
          \E i, j \in Cursors(seg) : i < j /\ doc' = Delete(doc, seg, i, j, a).doc
    BY <1>3 DEF SuggestDelete
  <2>3. PICK i \in 0..Len(doc.segments[seg]), j \in 0..Len(doc.segments[seg]) :
          i < j /\ doc' = Delete(doc, seg, i, j, a).doc
    BY <2>1 DEF Cursors
  <2>2. Cardinality(Minted(doc)) + 1 <= MaxSuggestions
    BY <1>3 DEF SuggestDelete, RoomFor
  <2> QED
    BY <2>2, <2>3, DeleteEdits
<1>4. CASE SuggestReplace
  <2>1. PICK a \in Authors, seg \in Segments, n \in Lengths :
          \E i, j \in Cursors(seg) : i < j /\ doc' = Replace(doc, seg, i, j, n, a).doc
    BY <1>4 DEF SuggestReplace
  <2>2. PICK i \in 0..Len(doc.segments[seg]), j \in 0..Len(doc.segments[seg]) :
          i < j /\ doc' = Replace(doc, seg, i, j, n, a).doc
    BY <2>1 DEF Cursors
  <2>3. Cardinality(Minted(doc)) + 2 <= MaxSuggestions /\ n \in Nat \ {0}
    BY <1>1, <1>4 DEF SuggestReplace, RoomFor
  <2> QED
    BY <2>2, <2>3, ReplaceEdits
<1>5. CASE AcceptSuggestion
  <2>1. PICK s \in Open(doc) : doc' = Accept(doc, s)
    BY <1>5 DEF AcceptSuggestion
  <2>2. s \in Ids
    BY <1>1 DEF Typed
  <2>3. /\ doc'.counters = doc.counters /\ Open(doc') \subseteq Open(doc)
        /\ doc'.clock = doc.clock
        /\ \A t \in Open(doc') : doc'.registry[t] = doc.registry[t]
    BY <1>1, <2>1, <2>2, AcceptFields
  <2>4. DocInv(doc')
    BY <2>1, <2>2, DecisionInv
  <2>5. Blocks(doc) => Blocks(doc')
    BY <1>1, <2>1, <2>2, DecisionBlocks
  <2> QED
    BY <2>3, <2>4, <2>5, ThreadsUntouched
<1>6. CASE RejectSuggestion
  <2>1. PICK s \in Open(doc) : doc' = Reject(doc, s)
    BY <1>6 DEF RejectSuggestion
  <2>2. s \in Ids
    BY <1>1 DEF Typed
  <2>3. /\ doc'.counters = doc.counters /\ Open(doc') \subseteq Open(doc)
        /\ doc'.clock = doc.clock
        /\ \A t \in Open(doc') : doc'.registry[t] = doc.registry[t]
    BY <1>1, <2>1, <2>2, RejectFields
  <2>4. DocInv(doc')
    BY <2>1, <2>2, DecisionInv
  <2>5. Blocks(doc) => Blocks(doc')
    BY <1>1, <2>1, <2>2, DecisionBlocks
  <2> QED
    BY <2>3, <2>4, <2>5, ThreadsUntouched
<1>7. CASE InsertText
  <2>1. PICK seg \in Segments, n \in Lengths : \E i \in Cursors(seg) :
          doc' = EditInsert(doc, seg, i, n)
    BY <1>7 DEF InsertText
  <2>2. PICK i \in 0..Len(doc.segments[seg]) : doc' = EditInsert(doc, seg, i, n)
    BY <2>1 DEF Cursors
  <2>3. /\ DocInv(doc') /\ doc'.counters = doc.counters /\ Open(doc') = Open(doc)
        /\ doc'.registry = doc.registry /\ doc'.clock = doc.clock
    BY <1>1, <2>2, EditInsertInv
  <2>4. "edit" \in Kinds
    BY <1>7 DEF InsertText
  <2> QED
    BY <2>3, <2>4, ThreadsUntouched
<1>8. CASE DeleteText
  <2>1. PICK seg \in Segments : \E i, j \in Cursors(seg) :
          doc' = EditDelete(doc, seg, i, j)
    BY <1>8 DEF DeleteText
  <2>2. PICK i \in 0..Len(doc.segments[seg]), j \in 0..Len(doc.segments[seg]) :
          doc' = EditDelete(doc, seg, i, j)
    BY <2>1 DEF Cursors
  <2>3. /\ DocInv(doc') /\ doc'.counters = doc.counters /\ Open(doc') \subseteq Open(doc)
        /\ doc'.clock = doc.clock
        /\ \A t \in Open(doc') : doc'.registry[t] = doc.registry[t]
    BY <2>2, EditDeleteInv
  <2>4. "edit" \in Kinds
    BY <1>8 DEF DeleteText
  <2> QED
    BY <2>3, <2>4, ThreadsUntouched
<1>9. CASE AddReply
  <2>1. PICK s \in Open(doc) : doc' = Reply(doc, s)
    BY <1>9 DEF AddReply
  <2>2. /\ DocInv(doc') /\ doc'.counters = doc.counters /\ Open(doc') = Open(doc)
        /\ doc'.segments = doc.segments /\ doc'.mergeLog = doc.mergeLog
        /\ Threaded(doc) => Threaded(doc')
    BY <2>1, ReplyInv
  <2> QED
    BY <2>2, SameBlocks DEF Untouched
<1>10. CASE RemoveReply
  <2>1. PICK s \in Open(doc) : \E p : doc' = DeleteReply(doc, s, p)
    BY <1>10 DEF RemoveReply
  <2>2. PICK p : doc' = DeleteReply(doc, s, p)
    BY <2>1
  <2>3. /\ DocInv(doc') /\ doc'.counters = doc.counters /\ Open(doc') = Open(doc)
        /\ doc'.segments = doc.segments /\ doc'.mergeLog = doc.mergeLog
        /\ Threaded(doc) => Threaded(doc')
    BY <2>2, DeleteReplyInv
  <2> QED
    BY <2>3, SameBlocks DEF Untouched
<1> QED
  BY <1>2, <1>3, <1>4, <1>5, <1>6, <1>7, <1>8, <1>9, <1>10 DEF Next

\* Every document a sequence of requests leads to is one of these: well-formed, its
\* marks those of its open cards, every card in one segment, and no two cards of one
\* author on one character.
THEOREM InvHolds == Spec => []DocInv(doc)
<1>1. Init => DocInv(doc)
  BY InitInv DEF Init
<1>2. DocInv(doc) /\ [Next]_doc => DocInv(doc)'
  <2> SUFFICES ASSUME DocInv(doc), [Next]_doc PROVE DocInv(doc')
    OBVIOUS
  <2>1. CASE Next
    BY <2>1, DocSteps DEF Edited, Untouched
  <2>2. CASE UNCHANGED doc
    BY <2>2
  <2> QED
    BY <2>1, <2>2
<1> QED
  BY <1>1, <1>2, PTL DEF Spec

\* Accepting or rejecting one card is deciding that one and nothing else, in every
\* document that can be reached and whatever is decided about the others.
THEOREM DecisionsHold == Spec => []DecisionsAreIndependent
<1>1. DocInv(doc) => DecisionsAreIndependent
  <2> SUFFICES ASSUME DocInv(doc), NEW s \in Open(doc),
                      NEW accepted \in SUBSET (Open(doc) \ {s})
               PROVE  /\ Outcome(Accept(doc, s), accepted)
                           = Outcome(doc, accepted \cup {s})
                      /\ Outcome(Reject(doc, s), accepted) = Outcome(doc, accepted)
    BY DEF DecisionsAreIndependent
  <2>1. Typed(doc) /\ s \in Ids /\ s \notin accepted
    BY DEF DocInv, Typed
  <2> QED
    BY <2>1, DecisionsCommute
<1> QED
  BY <1>1, InvHolds, PTL

\* Every mark names an open card, every open card marks a character, and those it
\* marks are in one segment.
THEOREM RegistryHolds == Spec => []RegistryMatchesMarks
<1>1. DocInv(doc) => RegistryMatchesMarks
  <2> SUFFICES ASSUME DocInv(doc)
               PROVE  /\ Marked(doc) = Open(doc)
                      /\ \A s \in Open(doc) :
                           Cardinality({seg \in Segments :
                             s \in MarkedIn(doc.segments[seg])}) = 1
    BY DEF RegistryMatchesMarks
  <2>1. Marked(doc) = Open(doc) /\ OneSegment(doc) /\ Open(doc) \subseteq Ids
    BY DEF DocInv, Typed
  <2>2. ASSUME NEW s \in Open(doc)
        PROVE  Cardinality({seg \in Segments : s \in MarkedIn(doc.segments[seg])}) = 1
    <3>1. PICK g \in Segments : s \in MarkedIn(doc.segments[g])
      BY <2>1 DEF Marked
    <3>2. {seg \in Segments : s \in MarkedIn(doc.segments[seg])} = {g}
      BY <2>1, <3>1 DEF OneSegment
    <3> QED
      BY <3>2, FS_Singleton
  <2> QED
    BY <2>1, <2>2
<1> QED
  BY <1>1, InvHolds, PTL

\* No character carries marks of two cards of one author.
THEOREM OneCardHolds == Spec => []OneCardPerAuthorAndChar
<1>1. DocInv(doc) => OneCardPerAuthorAndChar
  BY DEF DocInv, OneCard, OneCardPerAuthorAndChar
<1> QED
  BY <1>1, InvHolds, PTL

\* A suggested edit only proposes: with its card rejected, every decision about the
\* cards that are left has the outcome it had before the edit, whatever the merges
\* absorbed and the text inherited.
THEOREM ProposalsHold == Spec => SuggestingOnlyProposes
<1> DEFINE Proposes == doc'.counters # doc.counters =>
             \A accepted \in SUBSET (Open(doc) \cap Open(doc')) :
               Outcome(doc', accepted) = Outcome(doc, accepted)
<1>1. DocInv(doc) /\ [Next]_doc => [Proposes]_doc
  <2> SUFFICES ASSUME DocInv(doc), Next PROVE Proposes
    OBVIOUS
  <2>1. Edited(doc, doc') \/ Untouched(doc, doc')
    BY DocSteps
  <2> QED
    BY <2>1 DEF Edited, Untouched
<1> QED
  BY <1>1, InvHolds, PTL DEF Spec, SuggestingOnlyProposes

\* The conversations, with the fact that keeps them in order: no post is from the
\* future.
LEMMA ThreadedHolds == Spec => []Threaded(doc)
<1>1. Init => Threaded(doc)
  <2> SUFFICES ASSUME Init PROVE Open(doc) = {}
    BY DEF Threaded
  <2>1. doc.registry = [s \in {} |-> [touched |-> 0, thread |-> <<>>]]
    BY DEF Init, InitialDoc
  <2> QED
    BY <2>1 DEF Open
<1>2. DocInv(doc) /\ Threaded(doc) /\ [Next]_doc => Threaded(doc)'
  <2> SUFFICES ASSUME DocInv(doc), Threaded(doc), [Next]_doc PROVE Threaded(doc')
    OBVIOUS
  <2>1. CASE Next
    BY <2>1, DocSteps DEF Edited, Untouched, Keeps
  <2>2. CASE UNCHANGED doc
    BY <2>2
  <2> QED
    BY <2>1, <2>2
<1> QED
  BY <1>1, <1>2, InvHolds, PTL DEF Spec

\* The posts of a thread are in the order they were made, and no post is in two
\* threads, whatever has merged and whichever replies were taken back.
THEOREM ThreadsHold == Spec => []ThreadsAreOrdered
<1>1. Threaded(doc) => ThreadsAreOrdered
  BY DEF Threaded, InOrder, PostsOf, ThreadsAreOrdered
<1> QED
  BY <1>1, ThreadedHolds, PTL

\* A suggested edit loses no post, however many cards it absorbs.
THEOREM PostsHold == Spec => PostsSurviveEdits
<1> DEFINE Survive == doc'.counters # doc.counters =>
             Posts(doc) \subseteq Posts(doc') /\ ThreadsAreOrdered'
<1>1. DocInv(doc) /\ Threaded(doc) /\ [Next]_doc => [Survive]_doc
  <2> SUFFICES ASSUME DocInv(doc), Threaded(doc), Next PROVE Survive
    OBVIOUS
  <2>1. Edited(doc, doc') \/ Untouched(doc, doc')
    BY DocSteps
  <2> QED
    BY <2>1 DEF Edited, Untouched, Keeps, Threaded, InOrder, PostsOf, ThreadsAreOrdered
<1> QED
  BY <1>1, InvHolds, ThreadedHolds, PTL DEF Spec, PostsSurviveEdits

\* What is typed into the middle of a card belongs to it: where nobody edits the text
\* directly, a card that absorbed no other inserts one block and strikes one.
THEOREM BlocksHold ==
  ASSUME "edit" \notin Kinds
  PROVE  Spec => []CardsAreBlocks
<1>1. Init => Blocks(doc)
  <2> SUFFICES ASSUME Init PROVE Open(doc) = {}
    BY DEF Blocks
  <2>1. doc.registry = [s \in {} |-> [touched |-> 0, thread |-> <<>>]]
    BY DEF Init, InitialDoc
  <2> QED
    BY <2>1 DEF Open
<1>2. DocInv(doc) /\ Blocks(doc) /\ [Next]_doc => Blocks(doc)'
  <2> SUFFICES ASSUME DocInv(doc), Blocks(doc), [Next]_doc PROVE Blocks(doc')
    OBVIOUS
  <2>1. CASE Next
    BY <2>1, DocSteps DEF Edited, Untouched
  <2>2. CASE UNCHANGED doc
    BY <2>2
  <2> QED
    BY <2>1, <2>2
<1>3. Blocks(doc) => CardsAreBlocks
  <2> SUFFICES ASSUME Blocks(doc), NEW s \in Open(doc), NEW seg \in Segments,
                      \A merge \in doc.mergeLog : merge[1] # s
               PROVE  /\ Block(doc.segments[seg], LAMBDA c : s \in c.ins)
                      /\ Block(doc.segments[seg], LAMBDA c : s \in c.dels)
    BY DEF CardsAreBlocks
  <2>1. Blocked(doc.segments[seg], s)
    BY DEF Blocks
  <2> QED
    BY <2>1 DEF Blocked, Contiguous, Inserts, Strikes, Block
<1> QED
  BY <1>1, <1>2, <1>3, InvHolds, PTL DEF Spec

\* The merge loop computes the closure of a new card under touching, whichever edit
\* comes next: the new card is left, every card of the closure is absorbed, no other is.
THEOREM ClosureHolds == Spec => []MergeIsClosure
<1>1. DocInv(doc) => MergeIsClosure
  <2> SUFFICES ASSUME DocInv(doc), RoomFor(1), NEW a \in Authors, NEW seg \in Segments,
                      NEW i \in Cursors(seg), NEW j \in Cursors(seg)
               PROVE  LET with == IF i < j THEN Deleted(doc, seg, i, j, a)
                                  ELSE Inserted(doc, seg, i, 1, a)
                      IN Closes(with, seg, Newest(with, a))
    BY DEF MergeIsClosure, Closes
  <2>1. doc.counters[a] < MaxSuggestions
    <3>1. Typed(doc) /\ Cardinality(Minted(doc)) + 1 <= MaxSuggestions
      BY DEF DocInv, RoomFor
    <3>2. doc.counters[a] \in Nat /\ MaxSuggestions \in Nat
          /\ doc.counters[a] + 1 <= MaxSuggestions
      BY <3>1, RoomLeft
    <3> QED
      BY <3>2
  <2>2. i \in 0..Len(doc.segments[seg]) /\ j \in 0..Len(doc.segments[seg])
    BY DEF Cursors
  <2>3. CASE i < j
    <3>1. \E k \in DOMAIN doc.segments[seg] : i < k /\ k <= j
      BY <2>2, <2>3, Struck
    <3>2. LET with == Deleted(doc, seg, i, j, a)
          IN Closes(with, seg, Newest(with, a))
      BY <2>1, <3>1, DeleteProposes
    <3> QED
      BY <2>3, <3>2
  <2>4. CASE ~(i < j)
    <3>1. LET with == Inserted(doc, seg, i, 1, a)
          IN Closes(with, seg, Newest(with, a))
      BY <2>1, <2>2, InsertProposes
    <3> QED
      BY <2>4, <3>1
  <2> QED
    BY <2>3, <2>4
<1> QED
  BY <1>1, InvHolds, PTL

\* The document implements the registry of ids the ledger of a session relies on: an
\* edit opens cards under ids never used before, and a card that left is gone.
THEOREM ImplementsRegistry == Spec => RegistrySpec
<1>1. Init => Registry!Init
  <2> SUFFICES ASSUME Init PROVE Open(doc) = {} /\ Minted(doc) = {}
    BY DEF Registry!Init
  <2>1. /\ doc.counters = [a \in Authors |-> 0]
        /\ doc.registry = [s \in {} |-> [touched |-> 0, thread |-> <<>>]]
    BY DEF Init, InitialDoc
  <2>2. Open(doc) = {}
    BY <2>1 DEF Open
  <2>3. \A s \in Ids : ~(s[2] <= doc.counters[AuthorOf(s)])
    BY <2>1, DocAssumption DEF Ids, AuthorOf
  <2> QED
    BY <2>2, <2>3 DEF Minted
<1>2. DocInv(doc) /\ [Next]_doc => [Registry!Next]_(Registry!vars)
  <2> SUFFICES ASSUME DocInv(doc), [Next]_doc
               PROVE  [Registry!Next]_(Registry!vars)
    OBVIOUS
  <2>1. CASE UNCHANGED doc
    BY <2>1 DEF Registry!vars, Open, Minted
  <2>2. CASE Edited(doc, doc')
    <3>1. Minted(doc') \subseteq Ids
      BY DEF Minted
    <3>2. Registry!Propose
      BY <2>2, <3>1 DEF Edited, Registry!Propose
    <3> QED
      BY <3>2 DEF Registry!Next
  <2>3. CASE Untouched(doc, doc')
    <3>1. Minted(doc') = Minted(doc)
      BY <2>3 DEF Untouched, Minted
    <3>2. Open(doc') \subseteq Open(doc)
      BY <2>3 DEF Untouched
    <3> QED
      BY <3>1, <3>2 DEF Registry!Next, Registry!Close, Registry!vars
  <2> QED
    BY <2>1, <2>2, <2>3, DocSteps
<1> QED
  BY <1>1, <1>2, InvHolds, PTL DEF Spec, RegistrySpec, Registry!Spec
=============================================================================
