---------------------------- MODULE MCMockBatch -----------------------------
(* Instances of MockBatch small enough for TLC. *)
EXTENDS MockBatch, TLC

CONSTANTS ana, ben

\* A body of one character and a header that is still empty.
BodyAndHeader == [body |-> 1, header |-> 0]

\* What the future of a batch and the answers it gives depend on: of the text the
\* marks, of the clock the order in which cards were touched, of the document a batch
\* found the cards, of the merges those since it began, and of a batch that was
\* refused nothing.  Conversations and outcomes are looked at in MCSuggestionDoc.
\* (TLC stores what a state has computed so far: the comparison makes it compute
\* the characters, which the view itself takes apart.)
Touched(s) == doc.registry[s].touched
Present ==
    <<[seg \in Segments |->
         [i \in DOMAIN doc.segments[seg] |->
            <<doc.segments[seg][i].ins, doc.segments[seg][i].dels>>]],
      doc.counters, doc.segments = doc.segments,
      [s \in Open(doc) |-> Cardinality({t \in Open(doc) : Touched(t) < Touched(s)})],
      IF doc.clock < MaxClock THEN doc.clock ELSE MaxClock,
      IF batch.phase \in {"open", "answered"} THEN doc.mergeLog \ batch.watermark
      ELSE {},
      IF batch.phase = "refused" THEN NoBatch
      ELSE [batch EXCEPT !.watermark = {}]>>

\* Bound: the last id is minted only in documents one author alone has written (a
\* sweep with two hits needs four ids).
LastIdAlone ==
    Cardinality(Minted(doc)) = MaxSuggestions =>
      \E a \in Authors : doc.counters[a] = MaxSuggestions

Symmetric == Permutations(Authors)
=============================================================================
