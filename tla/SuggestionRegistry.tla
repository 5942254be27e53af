------------------------- MODULE SuggestionRegistry -------------------------
(***************************************************************************)
(* What a document promises about the ids of its suggestions, and all that *)
(* the ledger of a session relies on: a card is opened under an id nobody  *)
(* used before, may disappear in the step of another card (absorbed by an  *)
(* edit, or collected when its last character goes), and is gone for good. *)
(* SuggestionDoc and ReviewSession both implement it.                      *)
(***************************************************************************)
CONSTANT Ids

VARIABLES
    pending,    \* the open suggestions
    created     \* every suggestion there has been

vars == <<pending, created>>

Init == pending \in SUBSET Ids /\ created = pending

\* An edit opens new cards and may absorb open ones, or its own at once.
Propose ==
    /\ created' \in SUBSET Ids
    /\ created \subseteq created' /\ created' # created
    /\ pending' \subseteq pending \cup (created' \ created)

\* A decision closes cards.
Close ==
    /\ pending' \subseteq pending /\ pending' # pending
    /\ created' = created

Next == Propose \/ Close

Spec == Init /\ [][Next]_vars

-----------------------------------------------------------------------------

PendingWasCreated == pending \subseteq created /\ created \subseteq Ids

\* A suggestion that left the document never comes back under its id.
NeverReturns == [][(created \ pending) \cap pending' = {}]_vars
=============================================================================
