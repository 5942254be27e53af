--------------------------- MODULE MCSuggestionDoc --------------------------
(* Instances of SuggestionDoc small enough for TLC. *)
EXTENDS SuggestionDoc, TLC

CONSTANTS ana, ben

OneBody == [body |-> 1]
ShortBody == [body |-> 2]

\* For properties that ask for marks and threads: which characters carry them and
\* what has merged is left out, and of the clock only the order of events is kept.
Touched(s) == doc.registry[s].touched
Recency(s) == Cardinality({t \in Open(doc) : Touched(t) < Touched(s)})
Nth(post) == Cardinality({p \in Posts(doc) : p < post})
Conversation(s) ==
    LET thread == doc.registry[s].thread IN [i \in DOMAIN thread |-> Nth(thread[i])]
MarksAndThreads ==
    <<[seg \in Segments |-> [i \in DOMAIN doc.segments[seg] |->
         <<doc.segments[seg][i].ins, doc.segments[seg][i].dels>>]],
      [s \in Open(doc) |-> <<Recency(s), Conversation(s)>>],
      doc.counters, IF doc.clock < MaxClock THEN doc.clock ELSE MaxClock>>

Symmetric == Permutations(Authors)
=============================================================================
