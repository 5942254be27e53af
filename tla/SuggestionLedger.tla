-------------------------- MODULE SuggestionLedger --------------------------
(***************************************************************************)
(* gdocs_preview/suggestion_ledger.py: what one session remembers of the   *)
(* suggestions of one document, and the answers it gives from that memory. *)
(*                                                                         *)
(* An entry of the ledger is a record and every function of the Python     *)
(* module is an operator from entries to entries (or to answers), so that  *)
(* a tool handler, which calls several of them between two awaits, is one  *)
(* step of the module that composes them.  Card texts, time stamps and the *)
(* cause a collateral record names, all of them wording, are left out; the *)
(* (tab, segment) address of a cached card is kept as far as the code      *)
(* tells addresses apart: "named" for a card listed by a complete read,    *)
(* "unnamed" for one listed by the degraded read, which has no tab.        *)
(*                                                                         *)
(* An operator named <definition>_<Change> is a mutant of that definition: *)
(* a bug the code could have had, under which a run fails.                 *)
(***************************************************************************)
EXTENDS Naturals, FiniteSets

CONSTANTS
    Ids,            \* suggestion ids; numbers, because collateral is sorted
    MaxResolutions  \* MAX_RESOLUTIONS

ASSUME IdsAssumption == Ids \subseteq (Nat \ {0}) /\ IsFiniteSet(Ids)
ASSUME MaxResolutionsAssumption == MaxResolutions \in Nat \ {0}

NoId == 0                         \* the empty id, and cause = None

Yes == "yes"                      \* the Python values True, False and None
No == "no"                        \* of an Optional[bool]
Unknown == "unknown"
Tri == {Yes, No, Unknown}

NoCard == "none"
Cards == {"named", "unnamed"}
Actions == {"resolve", "suggest"}   \* accept and reject differ in wording only

Resolution == [action: Actions, direct: BOOLEAN, landed: Tri]
NoResolution == [action |-> "none", direct |-> FALSE, landed |-> Unknown]

\* `place' is the position of an id in the insertion order of the resolutions
\* dict, counted from 1; 0 for an id that has no resolution on file.
Entry == [records: [Ids -> Cards \cup {NoCard}],
          lastReadIds: SUBSET Ids,
          resolutions: [Ids -> Resolution \cup {NoResolution}],
          place: [Ids -> Nat],
          observed: BOOLEAN,
          complete: BOOLEAN]

FreshEntry == [records |-> [s \in Ids |-> NoCard],
               lastReadIds |-> {},
               resolutions |-> [s \in Ids |-> NoResolution],
               place |-> [s \in Ids |-> 0],
               observed |-> FALSE,
               complete |-> FALSE]

OnFile(e, s) == e.resolutions[s] # NoResolution
Filed(e) == {s \in Ids : OnFile(e, s)}

-----------------------------------------------------------------------------
(* observe: a read listed the ids `listed'. *)

\* An id the read lists was not removed by an unverified resolution.
Refuted(e, listed) ==
    [s \in Ids |->
        IF s \in listed /\ OnFile(e, s) /\ e.resolutions[s].landed = Unknown
        THEN [e.resolutions[s] EXCEPT !.landed = No]
        ELSE e.resolutions[s]]

\* A complete read replaces the echo cache, a degraded one merges into it.
Echo(e, listed, complete) ==
    [s \in Ids |->
        IF s \in listed THEN IF complete THEN "named" ELSE "unnamed"
        ELSE IF complete THEN NoCard ELSE e.records[s]]

Observe(e, listed, complete) ==
    [e EXCEPT !.resolutions = Refuted(e, listed),
              !.lastReadIds = listed,
              !.records = Echo(e, listed, complete),
              !.observed = TRUE,
              !.complete = complete]

\* snapshot: the ids of the last read with its coverage, None if never looked.
NoSnapshot == [taken |-> FALSE, ids |-> {}, complete |-> FALSE]
Snapshot(e) ==
    IF e.observed
    THEN [taken |-> TRUE, ids |-> e.lastReadIds, complete |-> e.complete]
    ELSE NoSnapshot

-----------------------------------------------------------------------------
(* record_resolution *)

AttributedTo(sid, cause) == IF sid # NoId THEN sid ELSE cause

\* Mutant: the empty id of an edit is filed like any other.
Recorded_EmptyIdToo(sid, collateral, cause) ==
    {sid} \cup (collateral \ {AttributedTo(sid, cause)})

\* The ids one call files: the one it acted on and its collateral.
Recorded(sid, collateral, cause) ==
    ({sid} \ {NoId}) \cup (collateral \ {sid, AttributedTo(sid, cause)})

\* Every recorded id moves to the end of the dict: the direct one first,
\* its collateral after it in sorted order.
Reordered(e, sid, recorded) ==
    LET kept == Filed(e) \ recorded
        rank(s, S) == Cardinality({t \in S : t <= s})
        others == recorded \ {sid}
        start == Cardinality(kept) + Cardinality(recorded \ others)
    IN [s \in Ids |->
            IF s \in others THEN start + rank(s, others)
            ELSE IF s \in recorded THEN start
            ELSE IF s \in kept
                 THEN Cardinality({t \in kept : e.place[t] <= e.place[s]})
            ELSE 0]

\* Only the MaxResolutions newest entries stay.
Overflow(place) ==
    LET n == Cardinality({s \in Ids : place[s] > 0})
    IN IF n > MaxResolutions THEN n - MaxResolutions ELSE 0

\* Mutant: a dropped entry keeps a position.
Renumbered_KeepsDropped(place, cut) == [s \in Ids |-> place[s] - cut]

\* The places that are left when the `cut' oldest are dropped.
Renumbered(place, cut) ==
    [s \in Ids |-> IF place[s] > cut THEN place[s] - cut ELSE 0]

\* Mutant: the card is dropped whether or not the write is known to have landed.
Popped_Always(recorded, landed) == recorded

\* The cards dropped from the echo cache: those that really left.
Popped(recorded, landed) == IF landed = Yes THEN recorded ELSE {}

RecordResolution(e, action, sid, collateral, landed, cause) ==
    LET recorded == Recorded(sid, collateral, cause)
        place == Reordered(e, sid, recorded)
        cut == Overflow(place)
        filed == [s \in Ids |->
                    IF s \in recorded
                    THEN [action |-> action, direct |-> s = sid, landed |-> landed]
                    ELSE e.resolutions[s]]
    IN [e EXCEPT
          !.resolutions = [s \in Ids |-> IF place[s] > cut THEN filed[s]
                                         ELSE NoResolution],
          !.place = Renumbered(place, cut),
          !.records = [s \in Ids |->
                         IF s \in Popped(recorded, landed) THEN NoCard
                         ELSE e.records[s]]]

-----------------------------------------------------------------------------
(* explain_missing: the rung of the honesty ladder the answer is on. *)

DirectWith(e, verdict) ==
    \E s \in Filed(e) : e.resolutions[s].direct /\ e.resolutions[s].landed = verdict

\* The id has a record: it was resolved by name, or it left with another.
RecordedRung(r) ==
    IF r.direct
    THEN [yes |-> "direct_proven", no |-> "direct_refuted",
          unknown |-> "direct_unverified"][r.landed]
    ELSE IF r.action = "suggest" THEN "collateral_merge"
    ELSE [yes |-> "collateral", no |-> "collateral_refuted",
          unknown |-> "collateral_unverified"][r.landed]

\* It has none: what this session resolved may have removed it.
UnrecordedRung(e, sid) ==
    CASE DirectWith(e, Yes) -> "may_landed"
      [] ~DirectWith(e, Yes) /\ DirectWith(e, Unknown) -> "may_unverified"
      [] OTHER -> IF sid \in e.lastReadIds THEN "was_listed"
                  ELSE IF e.complete THEN "wrong_id" ELSE "degraded"

\* Mutant: the last listing is consulted before the resolutions.
ExplainMissing_ListingFirst(e, sid) ==
    IF ~e.observed THEN "not_read"
    ELSE IF sid \in e.lastReadIds THEN "was_listed"
    ELSE IF OnFile(e, sid) THEN RecordedRung(e.resolutions[sid])
    ELSE UnrecordedRung(e, sid)

ExplainMissing(e, sid) ==
    IF ~e.observed THEN "not_read"
    ELSE IF OnFile(e, sid) THEN RecordedRung(e.resolutions[sid])
    ELSE UnrecordedRung(e, sid)

=============================================================================
