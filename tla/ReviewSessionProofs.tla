------------------------- MODULE ReviewSessionProofs -------------------------
(***************************************************************************)
(* Theorems about ReviewSession.                                           *)
(*                                                                         *)
(* What the review tools may claim: first the types, TypeOK, one case per  *)
(* action; then the safety properties, from one inductive invariant,       *)
(* SafetyInv.                                                              *)
(* The argument: an id the session has heard of never comes back once it   *)
(* has left the document (DocEvolves), so whatever an old read attests of  *)
(* the ids it was asked about stays true while other calls and editors     *)
(* run (EntryStable, CallStable); every conclusion a call draws, and every *)
(* line it files, rests on such an attestation (AbsenceIsReal).            *)
(*                                                                         *)
(* What a session may conclude from what happened before: the resolutions  *)
(* it filed, in which order they happened, and which of its negative       *)
(* answers follow from them.                                               *)
(* The resolutions dict keeps its ids numbered from the oldest to the      *)
(* newest through records, replacements and trims (Numbers).  A resolution *)
(* that a read refuted had no effect because a session that makes one call *)
(* at a time compares what was served after its own write (EffectInv).  A  *)
(* session that forgets nothing has every removal of its own on file and   *)
(* answers from it (Remembered).  At the end, the document under a session *)
(* is shown to be a SuggestionRegistry.                                    *)
(***************************************************************************)
EXTENDS ReviewSession, Counting

-----------------------------------------------------------------------------
(* The ledger's operators preserve the types. *)

\* An entry that was just made is an entry.
LEMMA FreshEntryType == FreshEntry \in Entry
  BY DEF FreshEntry, Entry, NoCard, NoResolution

\* A read leaves an entry an entry.
LEMMA ObserveType ==
  ASSUME NEW e \in Entry, NEW listed \in SUBSET Ids, NEW complete \in BOOLEAN
  PROVE  Observe(e, listed, complete) \in Entry
<1>1. Refuted(e, listed) \in [Ids -> Resolution \cup {NoResolution}]
  BY DEF Refuted, Entry, Resolution, NoResolution, OnFile, Tri, No
<1>2. Echo(e, listed, complete) \in [Ids -> Cards \cup {NoCard}]
  BY DEF Echo, Entry, Cards, NoCard
<1> QED
  BY <1>1, <1>2 DEF Observe, Entry

\* A snapshot names ids only.
LEMMA SnapshotType ==
  ASSUME NEW e \in Entry
  PROVE  Snapshot(e) \in [taken: BOOLEAN, ids: SUBSET Ids, complete: BOOLEAN]
  BY DEF Snapshot, NoSnapshot, Entry

\* Filing a resolution leaves an entry an entry: the positions stay numbers
\* because there are finitely many ids.
LEMMA RecordResolutionType ==
  ASSUME NEW e \in Entry, NEW action \in Actions, NEW sid \in Ids \cup {NoId},
         NEW collateral \in SUBSET Ids, NEW landed \in Tri,
         NEW cause \in Ids \cup {NoId}
  PROVE  RecordResolution(e, action, sid, collateral, landed, cause) \in Entry
<1> DEFINE recorded == Recorded(sid, collateral, cause)
           place == Reordered(e, sid, recorded)
           cut == Overflow(place)
           filed == [s \in Ids |->
                      IF s \in recorded
                      THEN [action |-> action, direct |-> s = sid, landed |-> landed]
                      ELSE e.resolutions[s]]
<1>1. recorded \subseteq Ids
  BY DEF Recorded, AttributedTo, NoId
<1>2. \A S \in SUBSET Ids : Cardinality(S) \in Nat
  BY IdsAssumption, FS_Subset, FS_CardinalityType
<1>3. place \in [Ids -> Nat]
  <2> DEFINE kept == Filed(e) \ recorded
             others == recorded \ {sid}
             start == Cardinality(kept) + Cardinality(recorded \ others)
  <2>1. kept \in SUBSET Ids /\ others \in SUBSET Ids
        /\ recorded \ others \in SUBSET Ids
    BY <1>1 DEF Filed
  <2>2. start \in Nat
    BY <1>2, <2>1
  <2>3. \A s \in Ids : Cardinality({t \in others : t <= s}) \in Nat
    <3>1. \A s \in Ids : {t \in others : t <= s} \in SUBSET Ids
      BY <2>1
    <3> QED BY <3>1, <1>2
  <2>4. \A s \in Ids : Cardinality({t \in kept : e.place[t] <= e.place[s]}) \in Nat
    <3>1. \A s \in Ids : {t \in kept : e.place[t] <= e.place[s]} \in SUBSET Ids
      BY <2>1
    <3> QED BY <3>1, <1>2
  <2> HIDE DEF kept, others, start
  <2>5. \A s \in Ids : start + Cardinality({t \in others : t <= s}) \in Nat
    BY <2>2, <2>3
  <2>6. place = [s \in Ids |->
            IF s \in others THEN start + Cardinality({t \in others : t <= s})
            ELSE IF s \in recorded THEN start
            ELSE IF s \in kept
                 THEN Cardinality({t \in kept : e.place[t] <= e.place[s]})
            ELSE 0]
    BY DEF Reordered, kept, others, start
  <2> QED
    BY <2>2, <2>4, <2>5, <2>6
<1>4. cut \in Nat
  <2>1. {s \in Ids : place[s] > 0} \in SUBSET Ids
    OBVIOUS
  <2>2. Cardinality({s \in Ids : place[s] > 0}) \in Nat
    BY <1>2, <2>1
  <2> QED
    BY <2>2, MaxResolutionsAssumption DEF Overflow
<1>5. Renumbered(place, cut) \in [Ids -> Nat]
  BY <1>3, <1>4 DEF Renumbered
<1>6. filed \in [Ids -> Resolution \cup {NoResolution}]
  BY DEF Entry, Resolution
<1> HIDE DEF place, cut, filed, recorded
<1>7. RecordResolution(e, action, sid, collateral, landed, cause) =
        [e EXCEPT
          !.resolutions = [s \in Ids |-> IF place[s] > cut THEN filed[s]
                                         ELSE NoResolution],
          !.place = Renumbered(place, cut),
          !.records = [s \in Ids |->
                         IF s \in Popped(recorded, landed) THEN NoCard
                         ELSE e.records[s]]]
  BY DEF RecordResolution, place, cut, filed, recorded
<1>8. [s \in Ids |-> IF place[s] > cut THEN filed[s] ELSE NoResolution]
        \in [Ids -> Resolution \cup {NoResolution}]
  BY <1>6
<1>9. [s \in Ids |-> IF s \in Popped(recorded, landed) THEN NoCard
                      ELSE e.records[s]] \in [Ids -> Cards \cup {NoCard}]
  BY DEF Entry
<1> QED
  BY <1>5, <1>7, <1>8, <1>9 DEF Entry

-----------------------------------------------------------------------------
(* The type invariant. *)

\* The values a slot and an answer start with are well typed.
LEMMA ConstantTypes == IdleCall \in Call /\ NoAnswer \in Answer /\ NoRead \in Read
  BY DEF IdleCall, Call, NoAnswer, Answer, NoRead, Read, NoSnapshot, Tri, Unknown,
         Rungs, Coverage, NoCard, NoId

\* What is true of every call: its type, and that a resolving call names its
\* target.
CallsOK(cs) ==
    /\ cs \in [Calls -> Call]
    /\ \A c \in Calls : /\ cs[c].kind = "resolve" => cs[c].target # NoId
                        /\ cs[c].phase = "missing" => cs[c].kind = "resolve"

\* What the type invariant says of one call.
LEMMA CallFacts ==
  ASSUME TypeOK, NEW c \in Calls
  PROVE  /\ CallsOK(calls)
         /\ calls[c] \in Call
         /\ calls[c].kind = "resolve" => calls[c].target # NoId
         /\ calls[c].phase = "missing" => calls[c].kind = "resolve"
<1>1. CallsOK(calls)
  BY DEF TypeOK, CallsOK
<1>2. /\ calls[c].kind = "resolve" => calls[c].target # NoId
      /\ calls[c].phase = "missing" => calls[c].kind = "resolve"
  BY <1>1, Zenon DEF CallsOK
<1> QED
  BY <1>1, <1>2 DEF CallsOK

\* Giving one slot a call leaves the slots well typed.
LEMMA BecomesType ==
  ASSUME CallsOK(calls), NEW c \in Calls, NEW call \in Call,
         call.kind = "resolve" => call.target # NoId,
         call.phase = "missing" => call.kind = "resolve",
         Becomes(c, call)
  PROVE  CallsOK(calls')
  BY DEF Becomes, CallsOK

\* Returning an answer frees the slot and leaves both well typed.
LEMMA ReturnsType ==
  ASSUME TypeOK, NEW c \in Calls, NEW answer \in Answer, Returns(c, answer)
  PROVE  CallsOK(calls') /\ last' \in Answer
<1>1. CallsOK(calls')
  <2>1. Becomes(c, IdleCall)
    BY DEF Returns
  <2>2. CallsOK(calls)
    BY DEF TypeOK, CallsOK
  <2>3. /\ IdleCall.kind = "resolve" => IdleCall.target # NoId
        /\ IdleCall.phase = "missing" => IdleCall.kind = "resolve"
    BY DEF IdleCall
  <2> QED
    BY <2>1, <2>2, <2>3, ConstantTypes, BecomesType
<1>2. calls[c] \in Call
  BY DEF TypeOK
<1>3. calls[c].target \in Ids \cup {NoId} /\ calls[c].made \in SUBSET Ids
  BY <1>2 DEF Call
<1>4. last' = [answer EXCEPT !.target = calls[c].target, !.made = calls[c].made]
  BY DEF Returns
<1>5. last' \in Answer
  BY <1>3, <1>4 DEF Answer
<1> QED
  BY <1>1, <1>5

\* Whatever Google serves is a read.
LEMMA ReadOfType ==
  ASSUME TypeOK, NEW coverage \in Coverage
  PROVE  ReadOf(coverage) \in Read
<1>1. /\ pending \in SUBSET Ids /\ described \in SUBSET Ids
      /\ Body \in SUBSET Ids /\ Mine \in SUBSET Ids
  BY SessionAssumption DEF TypeOK
<1>2. CASE coverage = "complete"
  BY <1>1, <1>2 DEF ReadOf, Read, Coverage
<1>3. CASE coverage = "degraded"
  BY <1>1, <1>3 DEF ReadOf, Read, Coverage
<1>4. CASE coverage = "failed"
  BY <1>4, ConstantTypes DEF ReadOf
<1> QED
  BY <1>2, <1>3, <1>4 DEF Coverage

\* The ladder answers with one of its rungs.
LEMMA ExplainMissingType ==
  ASSUME NEW e \in Entry, NEW sid \in Ids
  PROVE  ExplainMissing(e, sid) \in Rungs
<1>1. CASE e.observed /\ OnFile(e, sid)
  <2>1. e.resolutions[sid] \in Resolution
    BY <1>1 DEF OnFile, Entry
  <2>2. RecordedRung(e.resolutions[sid]) \in Rungs
    <3> DEFINE r == e.resolutions[sid]
    <3>1. r.landed = Yes \/ r.landed = No \/ r.landed = Unknown
      BY <2>1 DEF Resolution, Tri
    <3> HIDE DEF r
    <3>2. RecordedRung(r) \in Rungs
      BY <3>1 DEF RecordedRung, Rungs, Yes, No, Unknown
    <3> QED BY <3>2 DEF r
  <2> QED BY <1>1, <2>2 DEF ExplainMissing
<1>2. CASE ~(e.observed /\ OnFile(e, sid))
  <2>1. UnrecordedRung(e, sid) \in Rungs
    BY DEF UnrecordedRung, Rungs
  <2> QED BY <1>2, <2>1 DEF ExplainMissing, Rungs
<1> QED BY <1>1, <1>2

\* Initially the state is well typed.
LEMMA InitType == Init => TypeOK
  BY ConstantTypes, FreshEntryType, SessionAssumption DEF Init, TypeOK, IdleCall,
     NoHistory, History

\* Starting a write keeps the types.
LEMMA StartType ==
  ASSUME TypeOK, NEW c \in Calls, Start(c)
  PROVE  TypeOK'
<1>1. PICK kind \in Tools \ {"list"}, verify \in BOOLEAN, target \in created \cup Typos :
         Becomes(c, [IdleCall EXCEPT
                       !.phase = "sent", !.kind = kind, !.verify = verify,
                       !.target = IF kind = "resolve" THEN target ELSE NoId,
                       !.before = Snapshot(ledger),
                       !.card = IF kind = "resolve" THEN ledger.records[target]
                                ELSE NoCard])
  BY DEF Start
<1> DEFINE call == [IdleCall EXCEPT
                       !.phase = "sent", !.kind = kind, !.verify = verify,
                       !.target = IF kind = "resolve" THEN target ELSE NoId,
                       !.before = Snapshot(ledger),
                       !.card = IF kind = "resolve" THEN ledger.records[target]
                                ELSE NoCard]
<1>2. target \in Ids /\ target # NoId /\ kind \in {"resolve", "suggest"}
  BY SessionAssumption, IdsAssumption DEF TypeOK, NoId
<1>3. Snapshot(ledger) \in [taken: BOOLEAN, ids: SUBSET Ids, complete: BOOLEAN]
  BY SnapshotType DEF TypeOK
<1>4. ledger.records[target] \in Cards \cup {NoCard}
  BY <1>2 DEF TypeOK, Entry
<1>5. /\ call \in Call
      /\ call.kind = "resolve" => call.target # NoId
      /\ call.phase = "missing" => call.kind = "resolve"
  <2>1. IdleCall \in Call
    BY ConstantTypes
  <2>2. call \in Call
    <3> DEFINE aim == IF kind = "resolve" THEN target ELSE NoId
               before == Snapshot(ledger)
               card == IF kind = "resolve" THEN ledger.records[target] ELSE NoCard
    <3>1. /\ aim \in Ids \cup {NoId} /\ card \in Cards \cup {NoCard}
          /\ before \in [taken: BOOLEAN, ids: SUBSET Ids, complete: BOOLEAN]
      BY <1>2, <1>3, <1>4
    <3>2. call = [IdleCall EXCEPT !.phase = "sent", !.kind = kind, !.verify = verify,
                    !.target = aim, !.before = before, !.card = card]
      OBVIOUS
    <3> HIDE DEF call, aim, before, card
    <3> QED
      BY <1>2, <2>1, <3>1, <3>2 DEF Call
  <2>3. /\ call.kind = kind /\ call.phase = "sent"
        /\ call.target = IF kind = "resolve" THEN target ELSE NoId
    BY <2>1 DEF Call
  <2> HIDE DEF call
  <2> QED
    BY <1>2, <2>2, <2>3
<1>6. CallsOK(calls) /\ Becomes(c, call)
  BY <1>1 DEF TypeOK, CallsOK
<1> HIDE DEF call
<1>7. CallsOK(calls')
  BY <1>5, <1>6, BecomesType
<1> QED
  BY <1>7, ConstantTypes DEF Start, Silent, TypeOK, CallsOK, doc

\* The last step of Google's side: the call goes on, or its response is lost.
LEMMA AnsweredType ==
  ASSUME TypeOK, NEW c \in Calls, NEW call \in Call,
         call.kind = calls[c].kind, call.target = calls[c].target,
         call.phase = "applied",
         (Becomes(c, call) /\ Silent) \/ Returns(c, NoAnswer)
  PROVE  CallsOK(calls') /\ last' \in Answer
<1>1. CallsOK(calls)
  BY DEF TypeOK, CallsOK
<1>2. CASE Becomes(c, call) /\ Silent
  <2>1. calls[c].kind = "resolve" => calls[c].target # NoId
    BY CallFacts
  <2>2. call.kind = "resolve" => call.target # NoId
    BY <2>1
  <2>3. CallsOK(calls')
    BY <1>1, <1>2, <2>2, BecomesType
  <2> QED
    BY <1>2, <2>3, ConstantTypes DEF Silent
<1>3. CASE Returns(c, NoAnswer)
  BY <1>3, ReturnsType, ConstantTypes
<1> QED
  BY <1>2, <1>3

\* Google's steps keep the types, one case per action.
LEMMA GoogleType ==
  ASSUME TypeOK, NEW c \in Calls, Google(c)
  PROVE  TypeOK'
<1>1. /\ calls[c] \in Call /\ CallsOK(calls)
      /\ calls[c].kind = "resolve" => calls[c].target # NoId
  BY CallFacts
<1>2. CASE Resolve(c)
  <2>1. PICK others \in SUBSET (pending \ {calls[c].target}) :
          LET took == others \cup {calls[c].target}
              call == [calls[c] EXCEPT !.took = took, !.phase = "applied"]
          IN /\ pending' = pending \ took
             /\ \/ Becomes(c, call) /\ Silent
                \/ "lost_response" \in Faults /\ Returns(c, NoAnswer)
    BY <1>2 DEF Resolve
  <2> DEFINE call == [calls[c] EXCEPT !.took = others \cup {calls[c].target},
                                      !.phase = "applied"]
  <2>2. calls[c].target \in Ids /\ others \in SUBSET Ids
    BY <1>2 DEF Resolve, TypeOK
  <2>3. call \in Call /\ call.kind = calls[c].kind
        /\ call.target = calls[c].target /\ call.phase = "applied"
    BY <1>1, <2>2 DEF Call
  <2>4. (Becomes(c, call) /\ Silent) \/ Returns(c, NoAnswer)
    BY <2>1
  <2> HIDE DEF call
  <2>5. CallsOK(calls') /\ last' \in Answer
    BY <2>3, <2>4, AnsweredType
  <2> QED
    BY <1>2, <2>1, <2>5 DEF Resolve, TypeOK, CallsOK
<1>3. CASE Suggest(c)
  <2>1. PICK n \in (Mine \ created) \cup {NoId},
             absorbed \in SUBSET (pending \cap Mine), reports \in BOOLEAN :
          LET new == {n} \ {NoId}
              call == [calls[c] EXCEPT !.phase = "applied", !.took = absorbed,
                         !.made = new, !.reported = IF reports THEN new ELSE {}]
          IN /\ pending' = (pending \ absorbed) \cup new
             /\ described' = described \cup new
             /\ created' = created \cup new
             /\ \/ Becomes(c, call) /\ Silent
                \/ "lost_response" \in Faults /\ Returns(c, NoAnswer)
    BY <1>3 DEF Suggest
  <2> DEFINE new == {n} \ {NoId}
             call == [calls[c] EXCEPT !.phase = "applied", !.took = absorbed,
                        !.made = new, !.reported = IF reports THEN new ELSE {}]
  <2>2. new \in SUBSET Ids /\ absorbed \in SUBSET Ids
    BY SessionAssumption DEF TypeOK
  <2>3. call \in Call /\ call.kind = calls[c].kind
        /\ call.target = calls[c].target /\ call.phase = "applied"
    BY <1>1, <2>2 DEF Call
  <2>4. (Becomes(c, call) /\ Silent) \/ Returns(c, NoAnswer)
    BY <2>1
  <2>5. pending' \in SUBSET Ids /\ described' \in SUBSET Ids /\ created' \in SUBSET Ids
    BY <2>1, <2>2 DEF TypeOK
  <2> HIDE DEF call
  <2>6. CallsOK(calls') /\ last' \in Answer
    BY <2>3, <2>4, AnsweredType
  <2> QED
    BY <1>3, <2>5, <2>6 DEF Suggest, TypeOK, CallsOK
<1>4. CASE NoEffect(c)
  <2> DEFINE call == [calls[c] EXCEPT !.phase = "applied"]
  <2>1. call \in Call /\ call.kind = calls[c].kind
        /\ call.target = calls[c].target /\ call.phase = "applied"
    BY <1>1 DEF Call
  <2>2. Becomes(c, call) /\ Silent
    BY <1>4 DEF NoEffect
  <2> HIDE DEF call
  <2>3. CallsOK(calls') /\ last' \in Answer
    BY <2>1, <2>2, AnsweredType
  <2> QED
    BY <1>4, <2>3 DEF NoEffect, TypeOK, CallsOK, doc
<1>5. CASE Refuse(c)
  <2>1. CallsOK(calls') /\ last' \in Answer
    <3>1. CASE Returns(c, NoAnswer)
      BY <3>1, ReturnsType, ConstantTypes
    <3>2. CASE calls[c].kind = "resolve"
               /\ Becomes(c, [calls[c] EXCEPT !.phase = "missing"]) /\ Silent
      <4> DEFINE call == [calls[c] EXCEPT !.phase = "missing"]
      <4>1. call \in Call /\ call.kind = "resolve" /\ call.target = calls[c].target
        BY <1>1, <3>2 DEF Call
      <4>2. call.target # NoId
        BY <1>1, <3>2, <4>1
      <4>3. Becomes(c, call)
        BY <3>2
      <4> HIDE DEF call
      <4>4. CallsOK(calls')
        BY <1>1, <4>1, <4>2, <4>3, BecomesType
      <4> QED
        BY <3>2, <4>4, ConstantTypes DEF Silent
    <3> QED
      BY <1>5, <3>1, <3>2 DEF Refuse
  <2> QED
    BY <1>5, <2>1 DEF Refuse, TypeOK, CallsOK, doc
<1>6. CASE ServeRead(c)
  <2>1. PICK coverage \in Served :
         \/ /\ calls[c].phase = "applied" /\ calls[c].verify
            /\ Becomes(c, [calls[c] EXCEPT !.phase = "read",
                                           !.read = ReadOf(coverage)])
         \/ /\ calls[c].phase = "idle" /\ "list" \in Tools
            /\ Becomes(c, [IdleCall EXCEPT !.phase = "read", !.kind = "list",
                                           !.read = ReadOf(coverage)])
    BY <1>6 DEF ServeRead
  <2>2. ReadOf(coverage) \in Read
    BY ReadOfType DEF Served, Coverage
  <2>3. CallsOK(calls')
    <3>1. CASE Becomes(c, [calls[c] EXCEPT !.phase = "read",
                                           !.read = ReadOf(coverage)])
      <4> DEFINE call == [calls[c] EXCEPT !.phase = "read", !.read = ReadOf(coverage)]
      <4>1. call \in Call /\ call.kind = calls[c].kind
            /\ call.target = calls[c].target /\ call.phase = "read"
        BY <1>1, <2>2 DEF Call
      <4>2. Becomes(c, call)
        BY <3>1
      <4> HIDE DEF call
      <4> QED
        BY <1>1, <4>1, <4>2, BecomesType
    <3>2. CASE Becomes(c, [IdleCall EXCEPT !.phase = "read", !.kind = "list",
                                           !.read = ReadOf(coverage)])
      <4> DEFINE call == [IdleCall EXCEPT !.phase = "read", !.kind = "list",
                                          !.read = ReadOf(coverage)]
      <4>1. call \in Call /\ call.kind = "list"
            /\ call.target = NoId /\ call.phase = "read"
        BY <2>2, ConstantTypes DEF Call, IdleCall
      <4>2. Becomes(c, call)
        BY <3>2
      <4> HIDE DEF call
      <4> QED
        BY <1>1, <4>1, <4>2, BecomesType
    <3> QED
      BY <2>1, <3>1, <3>2
  <2> QED
    BY <1>6, <2>3, ConstantTypes DEF ServeRead, Silent, TypeOK, CallsOK, doc
<1> QED
  BY <1>2, <1>3, <1>4, <1>5, <1>6 DEF Google

\* What a call that ends a write files with the ledger.
LEMMA VanishedType ==
  ASSUME TypeOK, NEW c \in Calls
  PROVE  Vanished(calls[c]) \in SUBSET Ids
<1>1. calls[c].before.ids \in SUBSET Ids
  BY DEF TypeOK, Call
<1> QED
  BY <1>1 DEF Vanished, Gone

\* The history a call leaves is one.
LEMMA HistoryType ==
  ASSUME history \in History, NEW call \in Call, NEW attested
  PROVE  /\ After(call, attested) \in History
         /\ [history EXCEPT !.attested = @ \cup (call.took \cap attested)] \in History
<1>1. call.took \in SUBSET Ids
  BY DEF Call
<1> QED
  BY <1>1 DEF After, History

\* The steps that end a call keep the types, one case per action.
LEMMA SessionType ==
  ASSUME TypeOK, NEW c \in Calls, Session(c)
  PROVE  TypeOK'
<1> DEFINE call == calls[c]
           read == call.read
<1>1. /\ call \in Call /\ call.target \in Ids \cup {NoId} /\ read \in Read
      /\ call.kind = "resolve" => call.target # NoId
      /\ ledger \in Entry /\ history \in History
  <2>1. call \in Call /\ (call.kind = "resolve" => call.target # NoId)
    BY CallFacts
  <2>2. call.target \in Ids \cup {NoId} /\ read \in Read
    BY <2>1 DEF Call
  <2> QED
    BY <2>1, <2>2 DEF TypeOK
<1>2. /\ read.listed \in SUBSET Ids /\ read.authored \in SUBSET Ids
      /\ read.coverage \in Coverage /\ call.reported \in SUBSET Ids
      /\ call.took \in SUBSET Ids
  BY <1>1 DEF Read, Call
<1>3. CASE FinishList(c)
  <2>1. ledger' \in Entry
    BY <1>1, <1>2, <1>3, ObserveType DEF FinishList
  <2>2. CallsOK(calls') /\ last' \in Answer
    BY <1>3, ReturnsType, ConstantTypes DEF FinishList
  <2> QED
    BY <1>3, <2>1, <2>2 DEF FinishList, TypeOK, CallsOK, doc
<1>4. CASE FinishUnverified(c)
  <2>1. ledger' \in Entry
    <3>1. RecordResolution(ledger, "resolve", call.target, {}, Unknown, NoId) \in Entry
      BY <1>1, RecordResolutionType DEF Actions, Tri, NoId
    <3> QED
      BY <1>1, <1>4, <3>1 DEF FinishUnverified
  <2>2. CallsOK(calls') /\ last' \in Answer
    BY <1>4, ReturnsType, ConstantTypes DEF FinishUnverified
  <2>3. history' \in History
    BY <1>1, <1>4, HistoryType DEF FinishUnverified
  <2> QED
    BY <1>4, <2>1, <2>2, <2>3 DEF FinishUnverified, TypeOK, CallsOK, doc
<1>5. CASE FinishResolve(c)
  <2> DEFINE still == PendingState(read, call.target, call.card)
             removed == Vanished(call)
  <2>1. still \in Tri /\ LandedOf(still) \in Tri /\ removed \in SUBSET Ids
    BY VanishedType DEF PendingState, LandedOf, Tri
  <2>2. ledger' \in Entry
    <3>1. RecordResolution(ledger, "resolve", call.target, removed,
                           LandedOf(still), NoId) \in Entry
      BY <1>1, <2>1, RecordResolutionType DEF Actions
    <3> QED
      BY <1>2, <1>5, <3>1, ObserveType DEF FinishResolve, Verified
  <2>3. CallsOK(calls') /\ last' \in Answer
    <3>1. PICK text \in TextChecks(read, call.card) :
             Returns(c, [NoAnswer EXCEPT
                             !.stillPending = still,
                             !.matches = MatchesExpectation(still, text),
                             !.removed = removed,
                             !.coverage = read.coverage])
      BY <1>5 DEF FinishResolve
    <3>2. MatchesExpectation(still, text) \in Tri
      BY DEF MatchesExpectation, TextChecks, Tri
    <3> DEFINE answer == [NoAnswer EXCEPT
                             !.stillPending = still,
                             !.matches = MatchesExpectation(still, text),
                             !.removed = removed,
                             !.coverage = read.coverage]
    <3> HIDE DEF still, removed
    <3>3. answer \in Answer
      BY <1>2, <2>1, <3>2, ConstantTypes DEF Answer
    <3>4. Returns(c, answer)
      BY <3>1
    <3> HIDE DEF answer
    <3> QED
      BY <3>3, <3>4, ReturnsType
  <2>4. history' \in History
    BY <1>1, <1>5, HistoryType DEF FinishResolve
  <2>9. UNCHANGED doc
    BY <1>5 DEF FinishResolve
  <2>10. pending' \in SUBSET Ids /\ described' \in SUBSET Ids /\ created' \in SUBSET Ids
    BY <1>1, <2>9 DEF TypeOK, doc
  <2> QED
    BY <2>2, <2>3, <2>4, <2>10 DEF TypeOK, CallsOK
<1>6. CASE FinishSuggest(c)
  <2> DEFINE reported == call.reported \cap read.listed
             appeared == IF call.before.taken
                         THEN read.listed \ (call.before.ids \cup reported) ELSE {}
             echoed == reported \cup Promoted(call, appeared)
             vanished == Vanished(call)
  <2>1. /\ reported \in SUBSET Ids /\ echoed \in SUBSET Ids
        /\ vanished \in SUBSET Ids
    BY <1>2, VanishedType DEF Promoted
  <2>2. PICK cause \in IF echoed = {} THEN {NoId}
                       ELSE IF reported # {} THEN reported ELSE echoed :
          /\ Returns(c, [NoAnswer EXCEPT !.removed = vanished,
                                         !.echoed = echoed,
                                         !.coverage = read.coverage])
          /\ ledger' = Observe(
               IF vanished = {} THEN ledger
               ELSE RecordResolution(ledger, call.kind, NoId, vanished, Yes, cause),
               read.listed, read.coverage = "complete")
    BY <1>6 DEF FinishSuggest
  <2>3. cause \in Ids \cup {NoId}
    BY <2>1
  <2>4. ledger' \in Entry
    <3>1. RecordResolution(ledger, call.kind, NoId, vanished, Yes, cause) \in Entry
      BY <1>1, <1>6, <2>1, <2>3, RecordResolutionType
         DEF Actions, Tri, FinishSuggest, Verified
    <3> QED
      BY <1>1, <1>2, <2>2, <3>1, ObserveType
  <2>5. CallsOK(calls') /\ last' \in Answer
    <3> DEFINE answer == [NoAnswer EXCEPT !.removed = vanished,
                                          !.echoed = echoed,
                                          !.coverage = read.coverage]
    <3>1. Returns(c, answer)
      BY <2>2
    <3> HIDE DEF vanished, echoed, reported
    <3>2. answer \in Answer
      BY <1>2, <2>1, ConstantTypes DEF Answer
    <3> HIDE DEF answer
    <3> QED
      BY <3>1, <3>2, ReturnsType
  <2>6. history' \in History
    <3>1. history' = [history EXCEPT !.attested = @ \cup (call.took \cap vanished)]
      BY <1>6 DEF FinishSuggest
    <3> HIDE DEF vanished
    <3> QED
      BY <1>1, <3>1, HistoryType
  <2>9. UNCHANGED doc
    BY <1>6 DEF FinishSuggest
  <2>10. pending' \in SUBSET Ids /\ described' \in SUBSET Ids /\ created' \in SUBSET Ids
    BY <1>1, <2>9 DEF TypeOK, doc
  <2> QED
    BY <2>4, <2>5, <2>6, <2>10 DEF TypeOK, CallsOK
<1>7. CASE Explain(c)
  <2>1. call.target \in Ids
    BY <1>1, <1>7, CallFacts DEF Explain
  <2>2. ExplainMissing(ledger, call.target) \in Rungs
    BY <1>1, <2>1, ExplainMissingType
  <2>3. [NoAnswer EXCEPT !.rung = ExplainMissing(ledger, call.target)] \in Answer
    BY <2>2, ConstantTypes DEF Answer
  <2>4. CallsOK(calls') /\ last' \in Answer
    BY <1>7, <2>3, ReturnsType DEF Explain
  <2> QED
    BY <1>7, <2>4 DEF Explain, TypeOK, CallsOK, doc
<1> QED
  BY <1>3, <1>4, <1>5, <1>6, <1>7 DEF Session

\* Eviction and other editors keep the types.
LEMMA OthersType == TypeOK /\ Others => TypeOK'
<1> SUFFICES ASSUME TypeOK, Others PROVE TypeOK'
  OBVIOUS
<1>1. CASE Evict
  BY <1>1, FreshEntryType, ConstantTypes DEF Evict, TypeOK, Silent, doc
<1>2. CASE EditorResolves
  BY <1>2, ConstantTypes DEF EditorResolves, TypeOK, Silent
<1>3. CASE EditorSuggests
  BY <1>3, ConstantTypes DEF EditorSuggests, TypeOK, Silent
<1>4. CASE MarksLost
  BY <1>4, ConstantTypes DEF MarksLost, TypeOK, Silent
<1> QED
  BY <1>1, <1>2, <1>3, <1>4 DEF Others

\* The type invariant is inductive.
LEMMA TypeStep == TypeOK /\ [Next]_vars => TypeOK'
<1> SUFFICES ASSUME TypeOK, [Next]_vars PROVE TypeOK'
  OBVIOUS
<1>1. ASSUME NEW c \in Calls, Start(c) \/ Google(c) \/ Session(c) PROVE TypeOK'
  BY <1>1, StartType, GoogleType, SessionType
<1>2. CASE UNCHANGED vars
  BY <1>2 DEF vars, doc, TypeOK
<1> QED
  BY <1>1, <1>2, OthersType DEF Next

\* Every state of a review session is well typed: the ledger an entry, every
\* call a call, every answer an answer, for any number of calls and ids.
THEOREM TypeCorrect == Spec => []TypeOK
  BY InitType, TypeStep, PTL DEF Spec

-----------------------------------------------------------------------------
(* Facts about the parts of the invariant, for any document. *)

\* From one document to the next: ids are added, and none of the ids that could
\* be named before is opened or described again.
DocEvolves(cr, pe, de, cr2, pe2, de2) ==
    /\ cr \subseteq cr2
    /\ pe2 \cap (cr \cup Typos) \subseteq pe
    /\ pe2 \cap de2 \cap (cr \cup Typos) \subseteq pe \cap de

\* A true entry stays true while the document evolves: ids leave and never return.
LEMMA EntryStable ==
  ASSUME NEW e \in Entry, NEW cr, NEW pe, NEW de, NEW cr2, NEW pe2, NEW de2,
         DocOK(cr, pe), EntryOK(e, cr, pe, de),
         DocEvolves(cr, pe, de, cr2, pe2, de2)
  PROVE  EntryOK(e, cr2, pe2, de2)
<1>1. Filed(e) \subseteq cr2 \cup Typos /\ e.lastReadIds \subseteq cr2
  BY DEF EntryOK, DocEvolves
<1>2. \A s \in Filed(e) : e.resolutions[s].landed = Yes => s \notin pe2 \cap de2
  BY DEF EntryOK, DocEvolves
<1>3. \A s \in e.lastReadIds \cap pe2 \cap de2 : e.records[s] # NoCard
  BY DEF EntryOK, DocEvolves
<1>4. e.complete => Initial \cap pe2 \cap de2 \subseteq e.lastReadIds
  BY DEF EntryOK, DocEvolves, DocOK
<1> QED
  BY <1>1, <1>2, <1>3, <1>4 DEF EntryOK

\* So does what a call in flight rests on.
LEMMA CallStable ==
  ASSUME NEW call \in Call, NEW cr, NEW pe, NEW de, NEW cr2, NEW pe2, NEW de2,
         pe2 \subseteq Ids, DocOK(cr, pe), CallOK(call, cr, pe, de),
         DocEvolves(cr, pe, de, cr2, pe2, de2)
  PROVE  CallOK(call, cr2, pe2, de2)
<1>1. /\ call.target \in cr2 \cup Typos \cup {NoId}
      /\ call.before.ids \subseteq cr2
      /\ call.card = "unnamed" => call.target \in Body
      /\ call.reported \subseteq call.made
  BY DEF CallOK, DocEvolves
<1>2. call.before.complete => Initial \cap pe2 \cap de2 \subseteq call.before.ids
  BY DEF CallOK, DocEvolves, DocOK
<1>3. ASSUME call.phase = "read" PROVE ReadOK(call, cr2, pe2, de2)
  <2> DEFINE read == call.read
  <2>1. ReadOK(call, cr, pe, de)
    BY <1>3 DEF CallOK
  <2>2. NoId \notin pe2
    BY IdsAssumption DEF NoId
  <2>3. Asked(call) \subseteq cr \cup Typos \cup {NoId}
    BY DEF Asked, CallOK
  <2>4. /\ Asked(call) \cap pe2 \subseteq Asked(call) \cap pe
        /\ Asked(call) \cap pe2 \cap de2 \subseteq Asked(call) \cap pe \cap de
    BY <2>2, <2>3 DEF DocEvolves
  <2>5. Initial \cap pe2 \cap de2 \subseteq Initial \cap pe \cap de
    BY DEF DocEvolves, DocOK
  <2>6. read.listed \subseteq cr2
    BY <2>1 DEF ReadOK, DocEvolves
  <2> QED
    BY <2>1, <2>4, <2>5, <2>6 DEF ReadOK
<1> QED
  BY <1>1, <1>2, <1>3 DEF CallOK

\* An observed read keeps the entry truthful: it only refutes, and what it lists
\* has a card.
LEMMA ObserveOK ==
  ASSUME NEW e \in Entry, NEW cr, NEW pe, NEW de, EntryOK(e, cr, pe, de),
         NEW listed \in SUBSET Ids, NEW complete \in BOOLEAN, listed \subseteq cr,
         complete => Initial \cap pe \cap de \subseteq listed,
         ~complete => listed \subseteq Body
  PROVE  EntryOK(Observe(e, listed, complete), cr, pe, de)
<1> DEFINE o == Observe(e, listed, complete)
<1>1. /\ o.resolutions = Refuted(e, listed) /\ o.lastReadIds = listed
      /\ o.records = Echo(e, listed, complete) /\ o.complete = complete
  BY DEF Observe, Entry
<1>2. \A s \in Ids : OnFile(o, s) => OnFile(e, s)
  BY <1>1 DEF Refuted, OnFile
<1>3. Filed(o) \subseteq Filed(e)
  BY <1>2 DEF Filed
<1>4. \A s \in Ids : o.resolutions[s].landed = Yes => e.resolutions[s].landed = Yes
  <2> TAKE s \in Ids
  <2>1. CASE s \in listed /\ OnFile(e, s) /\ e.resolutions[s].landed = Unknown
    <3>1. e.resolutions[s] \in Resolution
      BY <2>1 DEF OnFile, Entry
    <3>2. o.resolutions[s].landed = No
      BY <1>1, <2>1, <3>1 DEF Refuted, Resolution
    <3> QED BY <3>2 DEF No, Yes
  <2>2. CASE ~(s \in listed /\ OnFile(e, s) /\ e.resolutions[s].landed = Unknown)
    BY <1>1, <2>2 DEF Refuted
  <2> QED BY <2>1, <2>2
<1>5. \A s \in Filed(o) : o.resolutions[s].landed = Yes => s \notin pe \cap de
  BY <1>3, <1>4 DEF EntryOK, Filed
<1>6. /\ \A s \in Ids : o.records[s] = "unnamed" => s \in Body
      /\ \A s \in listed : o.records[s] # NoCard
  BY <1>1 DEF Echo, EntryOK, NoCard
<1> HIDE DEF o
<1>7. EntryOK(o, cr, pe, de)
  BY <1>1, <1>3, <1>5, <1>6 DEF EntryOK
<1> QED
  BY <1>7 DEF o

\* Filing a resolution keeps the entry truthful, provided that what is filed as
\* landed has left the document.
LEMMA RecordOK ==
  ASSUME NEW e \in Entry, NEW cr, NEW pe, NEW de, EntryOK(e, cr, pe, de),
         NEW action, NEW sid, NEW collateral, NEW landed \in Tri, NEW cause,
         Recorded(sid, collateral, cause) \subseteq cr \cup Typos,
         landed = Yes => Recorded(sid, collateral, cause) \cap pe \cap de = {}
  PROVE  EntryOK(RecordResolution(e, action, sid, collateral, landed, cause), cr, pe, de)
<1> DEFINE recorded == Recorded(sid, collateral, cause)
           place == Reordered(e, sid, recorded)
           cut == Overflow(place)
           filed == [s \in Ids |->
                      IF s \in recorded
                      THEN [action |-> action, direct |-> s = sid, landed |-> landed]
                      ELSE e.resolutions[s]]
           r == RecordResolution(e, action, sid, collateral, landed, cause)
<1>1. /\ r.resolutions = [s \in Ids |-> IF place[s] > cut THEN filed[s]
                                       ELSE NoResolution]
      /\ r.records = [s \in Ids |-> IF s \in Popped(recorded, landed) THEN NoCard
                                   ELSE e.records[s]]
      /\ r.lastReadIds = e.lastReadIds /\ r.complete = e.complete
  BY DEF RecordResolution, Entry
<1> HIDE DEF place, cut, r
<1>2. \A s \in Ids : OnFile(r, s) => s \in recorded \/ OnFile(e, s)
  BY <1>1 DEF OnFile
<1>3. Filed(r) \subseteq cr \cup Typos
  BY <1>2 DEF Filed, EntryOK
<1>4. \A s \in Filed(r) : r.resolutions[s].landed = Yes => s \notin pe \cap de
  <2> SUFFICES ASSUME NEW s \in Ids, OnFile(r, s), r.resolutions[s].landed = Yes
               PROVE  s \notin pe \cap de
    BY DEF Filed
  <2>1. r.resolutions[s] = filed[s]
    BY <1>1 DEF OnFile
  <2>2. CASE s \in recorded
    BY <2>1, <2>2
  <2>3. CASE s \notin recorded
    <3>1. r.resolutions[s] = e.resolutions[s] /\ s \in Filed(e)
      BY <1>2, <2>1, <2>3 DEF Filed
    <3> QED BY <3>1 DEF EntryOK
  <2> QED BY <2>2, <2>3
<1>5. Popped(recorded, landed) \cap pe \cap de = {}
  BY DEF Popped
<1>6. /\ \A s \in Ids : r.records[s] = "unnamed" => s \in Body
      /\ \A s \in r.lastReadIds \cap pe \cap de : r.records[s] # NoCard
  <2>1. e.lastReadIds \subseteq Ids
    BY DEF Entry
  <2> QED BY <1>1, <1>5, <2>1 DEF EntryOK, NoCard
<1>7. EntryOK(r, cr, pe, de)
  BY <1>1, <1>3, <1>4, <1>6 DEF EntryOK
<1> QED
  BY <1>7 DEF r

\* The heart of it: when a read that could be served says an id it was asked
\* about is gone, the document really lost it.
Sight(coverage, pe, de) == IF coverage = "complete" THEN pe ELSE pe \cap de

\* An id a read says is gone is out of what that read can see.
LEMMA AbsenceIsReal ==
  ASSUME NEW call \in Call, NEW cr, NEW pe, NEW de, ReadOK(call, cr, pe, de),
         call.read.coverage # "failed", NEW s \in Asked(call), NEW card,
         card = "unnamed" => s \in Body, PendingState(call.read, s, card) = No
  PROVE  s \notin Sight(call.read.coverage, pe, de)
<1>1. s \notin call.read.listed \cup call.read.threads
  BY DEF PendingState, Yes, No
<1>2. CASE call.read.coverage = "complete"
  BY <1>1, <1>2 DEF ReadOK, Sight
<1>3. CASE call.read.coverage = "degraded"
  <2>1. card = "unnamed"
    BY <1>1, <1>3 DEF PendingState, No, Unknown
  <2> QED
    BY <1>1, <1>3, <2>1 DEF ReadOK, Sight
<1>4. call.read.coverage \in Coverage
  BY DEF Call, Read
<1> QED
  BY <1>2, <1>3, <1>4 DEF Coverage

-----------------------------------------------------------------------------
(* The steps. *)

\* Every step evolves the document: only new ids are added to it.
LEMMA DocSteps ==
  ASSUME TypeOK, DocOK(created, pending), [Next]_vars
  PROVE  /\ DocEvolves(created, pending, described, created', pending', described')
         /\ DocOK(created', pending')
<1> DEFINE Good ==
             /\ DocEvolves(created, pending, described, created', pending', described')
             /\ DocOK(created', pending')
<1>1. ASSUME UNCHANGED doc
      PROVE  Good
  BY <1>1 DEF doc, DocEvolves, DocOK
<1>2. ASSUME NEW c \in Calls, Resolve(c)
      PROVE  Good
  <2>1. pending' \subseteq pending /\ UNCHANGED <<described, created>>
    BY <1>2 DEF Resolve
  <2> QED
    BY <2>1 DEF DocEvolves, DocOK
<1>3. ASSUME NEW c \in Calls, Suggest(c)
      PROVE  Good
  <2>1. PICK n \in (Mine \ created) \cup {NoId},
             absorbed \in SUBSET (pending \cap Mine) :
          /\ pending' = (pending \ absorbed) \cup ({n} \ {NoId})
          /\ described' = described \cup ({n} \ {NoId})
          /\ created' = created \cup ({n} \ {NoId})
    BY <1>3 DEF Suggest
  <2>2. ({n} \ {NoId}) \cap (created \cup Typos) = {}
    BY SessionAssumption
  <2> QED
    BY <2>1, <2>2 DEF DocEvolves, DocOK
<1>4. ASSUME EditorResolves PROVE Good
  <2>1. pending' \subseteq pending /\ UNCHANGED <<described, created>>
    BY <1>4 DEF EditorResolves
  <2> QED
    BY <2>1 DEF DocEvolves, DocOK
<1>5. ASSUME EditorSuggests PROVE Good
  <2>1. PICK n \in Ids \ (created \cup Typos) :
          /\ pending' = pending \cup {n}
          /\ described' = described \cup {n}
          /\ created' = created \cup {n}
    BY <1>5 DEF EditorSuggests
  <2> QED
    BY <2>1 DEF DocEvolves, DocOK
<1>6. ASSUME MarksLost PROVE Good
  <2>1. described' \subseteq described /\ UNCHANGED <<pending, created>>
    BY <1>6 DEF MarksLost
  <2> QED
    BY <2>1 DEF DocEvolves, DocOK
<1>7. ASSUME NEW c \in Calls, \/ Start(c) \/ NoEffect(c) \/ Refuse(c) \/ ServeRead(c)
                             \/ Session(c)
      PROVE  Good
  <2>1. UNCHANGED doc
    BY <1>7 DEF Start, NoEffect, Refuse, ServeRead, Session, FinishList,
                FinishUnverified, FinishResolve, FinishSuggest, Explain, doc
  <2> QED
    BY <1>1, <2>1
<1>8. ASSUME Evict PROVE Good
  BY <1>1, <1>8 DEF Evict
<1>9. ASSUME UNCHANGED vars PROVE Good
  BY <1>1, <1>9 DEF vars, doc
<1> HIDE DEF Good
<1>10. Good
  BY <1>2, <1>3, <1>4, <1>5, <1>6, <1>7, <1>8, <1>9 DEF Next, Google, Others
<1> QED
  BY <1>10 DEF Good

\* What a call that ends tells, if anything, about the document it left behind.
AnswerOK(answer) ==
    /\ answer.stillPending = No \/ answer.matches = Yes =>
         answer.target \notin Sight(answer.coverage, pending, described)
    /\ answer.removed \cap Sight(answer.coverage, pending, described) = {}
    /\ answer.echoed \subseteq answer.made \cup (Mine \ Initial)

\* Saying nothing is true.
LEMMA NoAnswerOK == AnswerOK(NoAnswer)
  BY DEF AnswerOK, NoAnswer, Unknown, No, Yes

\* An idle slot claims nothing.
LEMMA IdleOK == ASSUME NEW cr, NEW pe, NEW de PROVE CallOK(IdleCall, cr, pe, de)
  BY DEF CallOK, IdleCall, NoSnapshot, NoCard

\* A step that gives one call a new state and leaves the ledger alone.
LEMMA CallStep ==
  ASSUME TypeOK, SafetyInv, [Next]_vars, NEW c \in Calls, NEW call,
         Becomes(c, call), CallOK(call, created', pending', described'),
         EntryOK(ledger', created', pending', described')
  PROVE  SafetyInv'
<1>1. DocEvolves(created, pending, described, created', pending', described')
      /\ DocOK(created', pending')
  BY DocSteps DEF SafetyInv
<1>2. pending' \subseteq Ids
  <2>1. TypeOK'
    BY TypeStep
  <2> QED
    BY <2>1 DEF TypeOK
<1>3. ASSUME NEW d \in Calls
      PROVE  CallOK(calls'[d], created', pending', described')
  <2>1. CASE d = c
    BY <2>1 DEF Becomes, TypeOK
  <2>2. CASE d # c
    <3>1. calls'[d] = calls[d] /\ calls[d] \in Call
      BY <2>2 DEF Becomes, TypeOK
    <3>2. CallOK(calls[d], created, pending, described)
          /\ DocOK(created, pending)
      BY DEF SafetyInv
    <3> QED
      BY <1>1, <1>2, <3>1, <3>2, CallStable
  <2> QED
    BY <2>1, <2>2
<1> QED
  BY <1>1, <1>3 DEF SafetyInv

\* The ledger is only disturbed by the document.
LEMMA SameLedger ==
  ASSUME TypeOK, SafetyInv, [Next]_vars, ledger' = ledger
  PROVE  EntryOK(ledger', created', pending', described')
<1>1. ledger \in Entry /\ EntryOK(ledger, created, pending, described)
      /\ DocOK(created, pending)
  BY DEF TypeOK, SafetyInv
<1>2. DocEvolves(created, pending, described, created', pending', described')
  BY <1>1, DocSteps
<1> QED
  BY <1>1, <1>2, EntryStable

\* Start: the call is asked about ids the session knows, and its snapshot is the
\* last listing.
LEMMA StartSafe ==
  ASSUME TypeOK, SafetyInv, NEW c \in Calls, Start(c)
  PROVE  SafetyInv'
<1>1. [Next]_vars /\ ledger' = ledger /\ UNCHANGED doc
  BY DEF Next, Start
<1>2. PICK kind \in Tools \ {"list"}, verify \in BOOLEAN, target \in created \cup Typos :
         Becomes(c, [IdleCall EXCEPT
                       !.phase = "sent", !.kind = kind, !.verify = verify,
                       !.target = IF kind = "resolve" THEN target ELSE NoId,
                       !.before = Snapshot(ledger),
                       !.card = IF kind = "resolve" THEN ledger.records[target]
                                ELSE NoCard])
  BY DEF Start
<1> DEFINE call == [IdleCall EXCEPT
                       !.phase = "sent", !.kind = kind, !.verify = verify,
                       !.target = IF kind = "resolve" THEN target ELSE NoId,
                       !.before = Snapshot(ledger),
                       !.card = IF kind = "resolve" THEN ledger.records[target]
                                ELSE NoCard]
<1>3. target \in Ids /\ EntryOK(ledger, created, pending, described)
  BY SessionAssumption DEF TypeOK, SafetyInv
<1>4. /\ call.phase = "sent" /\ call.before = Snapshot(ledger)
      /\ call.target = (IF kind = "resolve" THEN target ELSE NoId)
      /\ call.card = (IF kind = "resolve" THEN ledger.records[target] ELSE NoCard)
      /\ call.reported = {} /\ call.made = {}
  BY DEF IdleCall
<1>5. /\ Snapshot(ledger).ids \subseteq created
      /\ Snapshot(ledger).complete =>
           Initial \cap pending \cap described \subseteq Snapshot(ledger).ids
  BY <1>3 DEF Snapshot, NoSnapshot, EntryOK
<1>6. call.card = "unnamed" => call.target \in Body
  BY <1>3, <1>4 DEF EntryOK, NoCard
<1>7. Becomes(c, call)
  BY <1>2
<1> HIDE DEF call
<1>8. CallOK(call, created, pending, described)
  BY <1>4, <1>5, <1>6 DEF CallOK
<1>9. CallOK(call, created', pending', described')
  BY <1>1, <1>8 DEF doc
<1> QED
  BY <1>1, <1>7, <1>9, CallStep, SameLedger

\* A write is answered or its response is lost: nothing is concluded yet.
LEMMA AnsweredSafe ==
  ASSUME TypeOK, SafetyInv, [Next]_vars, ledger' = ledger, NEW c \in Calls,
         NEW call, call.phase # "read", call.before = calls[c].before,
         call.target = calls[c].target, call.card = calls[c].card,
         call.reported \subseteq call.made,
         Becomes(c, call) \/ Becomes(c, IdleCall)
  PROVE  SafetyInv'
<1>1. DocEvolves(created, pending, described, created', pending', described')
      /\ pending' \subseteq Ids
  <2>1. DocOK(created, pending) /\ TypeOK'
    BY TypeStep DEF SafetyInv
  <2> QED
    BY <2>1, DocSteps DEF TypeOK
<1>2. CallOK(calls[c], created', pending', described')
  BY <1>1, CallStable DEF SafetyInv, TypeOK
<1>3. CallOK(call, created', pending', described')
  BY <1>2 DEF CallOK
<1> QED
  BY <1>3, IdleOK, CallStep, SameLedger

\* Google's steps keep the invariant, one case per action.
LEMMA GoogleSafe ==
  ASSUME TypeOK, SafetyInv, NEW c \in Calls, Google(c)
  PROVE  SafetyInv'
<1>1. [Next]_vars
  BY DEF Next
<1>2. calls[c] \in Call /\ CallOK(calls[c], created, pending, described)
  BY DEF TypeOK, SafetyInv
<1>3. calls[c].reported \subseteq calls[c].made
  BY <1>2 DEF CallOK
<1>4. CASE Resolve(c)
  <2>1. PICK others \in SUBSET (pending \ {calls[c].target}) :
          Becomes(c, [calls[c] EXCEPT !.took = others \cup {calls[c].target},
                                      !.phase = "applied"])
          \/ Becomes(c, IdleCall)
    BY <1>4 DEF Resolve, Returns
  <2> DEFINE call == [calls[c] EXCEPT !.took = others \cup {calls[c].target},
                                      !.phase = "applied"]
  <2>2. /\ call.phase # "read" /\ call.before = calls[c].before
        /\ call.target = calls[c].target /\ call.card = calls[c].card
        /\ call.reported \subseteq call.made
    BY <1>2, <1>3 DEF Call
  <2>3. ledger' = ledger
    BY <1>4 DEF Resolve
  <2>4. Becomes(c, call) \/ Becomes(c, IdleCall)
    BY <2>1
  <2> HIDE DEF call
  <2> QED
    BY <1>1, <2>2, <2>3, <2>4, AnsweredSafe
<1>5. CASE Suggest(c)
  <2>1. PICK new \in SUBSET Mine, absorbed \in SUBSET pending, reports \in BOOLEAN :
          Becomes(c, [calls[c] EXCEPT !.phase = "applied", !.took = absorbed,
                        !.made = new, !.reported = IF reports THEN new ELSE {}])
          \/ Becomes(c, IdleCall)
    <3>1. PICK n \in (Mine \ created) \cup {NoId},
               absorbed \in SUBSET (pending \cap Mine), reports \in BOOLEAN :
            LET new == {n} \ {NoId}
                call == [calls[c] EXCEPT !.phase = "applied", !.took = absorbed,
                           !.made = new, !.reported = IF reports THEN new ELSE {}]
            IN \/ Becomes(c, call) /\ Silent
               \/ "lost_response" \in Faults /\ Returns(c, NoAnswer)
      BY <1>5 DEF Suggest
    <3>2. {n} \ {NoId} \in SUBSET Mine /\ absorbed \in SUBSET pending
      OBVIOUS
    <3> QED
      BY <3>1, <3>2 DEF Returns
  <2> DEFINE call == [calls[c] EXCEPT !.phase = "applied", !.took = absorbed,
                        !.made = new, !.reported = IF reports THEN new ELSE {}]
  <2>2. /\ call.phase # "read" /\ call.before = calls[c].before
        /\ call.target = calls[c].target /\ call.card = calls[c].card
        /\ call.reported \subseteq call.made
    BY <1>2 DEF Call
  <2>3. ledger' = ledger
    BY <1>5 DEF Suggest
  <2>4. Becomes(c, call) \/ Becomes(c, IdleCall)
    BY <2>1
  <2> HIDE DEF call
  <2> QED
    BY <1>1, <2>2, <2>3, <2>4, AnsweredSafe
<1>6. CASE NoEffect(c) \/ Refuse(c)
  <2>1. PICK phase \in {"applied", "missing"} :
          Becomes(c, [calls[c] EXCEPT !.phase = phase]) \/ Becomes(c, IdleCall)
    BY <1>6 DEF NoEffect, Refuse, Returns
  <2> DEFINE call == [calls[c] EXCEPT !.phase = phase]
  <2>2. /\ call.phase # "read" /\ call.before = calls[c].before
        /\ call.target = calls[c].target /\ call.card = calls[c].card
        /\ call.reported \subseteq call.made
    BY <1>2, <1>3 DEF Call
  <2>3. ledger' = ledger
    BY <1>6 DEF NoEffect, Refuse
  <2>4. Becomes(c, call) \/ Becomes(c, IdleCall)
    BY <2>1
  <2> HIDE DEF call
  <2> QED
    BY <1>1, <2>2, <2>3, <2>4, AnsweredSafe
<1>7. CASE ServeRead(c)
  <2>1. PICK coverage \in Served, base \in {calls[c], [IdleCall EXCEPT !.kind = "list"]} :
          Becomes(c, [base EXCEPT !.phase = "read", !.read = ReadOf(coverage)])
    <3>1. [IdleCall EXCEPT !.phase = "read", !.kind = "list", !.read = ReadOf("failed")]
          = [[IdleCall EXCEPT !.kind = "list"] EXCEPT !.phase = "read",
                                                      !.read = ReadOf("failed")]
      BY DEF IdleCall
    <3> QED
      BY <1>7, <3>1 DEF ServeRead, IdleCall
  <2> DEFINE call == [base EXCEPT !.phase = "read", !.read = ReadOf(coverage)]
  <2>2. base \in Call /\ CallOK(base, created, pending, described)
    <3>1. [IdleCall EXCEPT !.kind = "list"] \in Call
      BY ConstantTypes DEF Call
    <3>2. CallOK([IdleCall EXCEPT !.kind = "list"], created, pending, described)
      BY DEF CallOK, IdleCall, NoSnapshot, NoCard
    <3> QED
      BY <1>2, <3>1, <3>2
  <2>3. /\ call.read = ReadOf(coverage) /\ call.before = base.before
        /\ call.target = base.target /\ call.card = base.card
        /\ call.reported = base.reported /\ call.made = base.made
    BY <2>2 DEF Call
  <2>4. ReadOK(call, created, pending, described)
    <3>0. DocOK(created, pending)
          /\ (call.before.complete =>
                Initial \cap pending \cap described \subseteq call.before.ids)
      BY <2>2, <2>3 DEF SafetyInv, CallOK
    <3> HIDE DEF call
    <3>1. CASE coverage = "complete"
      <4>1. /\ call.read.listed = pending \cap described
            /\ call.read.threads = pending /\ call.read.authored = Mine \cap pending
            /\ call.read.coverage = "complete"
        BY <2>3, <3>1 DEF ReadOf
      <4> QED
        BY <3>0, <4>1 DEF ReadOK, DocOK
    <3>2. CASE coverage = "degraded"
      <4>1. /\ call.read.listed = pending \cap described \cap Body
            /\ call.read.threads = {} /\ call.read.authored = {}
            /\ call.read.coverage = "degraded"
        BY <2>3, <3>2 DEF ReadOf
      <4> QED
        BY <3>0, <4>1 DEF ReadOK, DocOK
    <3>3. CASE coverage = "failed"
      <4>1. /\ call.read.listed = {} /\ call.read.authored = {}
            /\ call.read.coverage = "failed"
        BY <2>3, <3>3 DEF ReadOf, NoRead
      <4> QED
        BY <4>1 DEF ReadOK
    <3> QED
      BY <3>1, <3>2, <3>3 DEF Served
  <2>5. CallOK(call, created, pending, described)
    BY <2>2, <2>3, <2>4 DEF CallOK
  <2>6. UNCHANGED doc /\ ledger' = ledger
    BY <1>7 DEF ServeRead
  <2>7. Becomes(c, call)
    BY <2>1
  <2> HIDE DEF call
  <2>8. CallOK(call, created', pending', described')
    BY <2>5, <2>6 DEF doc
  <2> QED
    BY <1>1, <2>6, <2>7, <2>8, CallStep, SameLedger
<1> QED
  BY <1>4, <1>5, <1>6, <1>7 DEF Google

\* What a verifying read lets the ledger and the response say of other cards.
LEMMA VanishedIsGone ==
  ASSUME TypeOK, SafetyInv, NEW c \in Calls, calls[c].phase = "read",
         calls[c].read.coverage # "failed"
  PROVE  /\ Vanished(calls[c]) \subseteq created
         /\ Vanished(calls[c]) \cap Sight(calls[c].read.coverage, pending, described) = {}
<1> DEFINE call == calls[c]
           read == call.read
<1>1. call \in Call /\ ReadOK(call, created, pending, described)
      /\ call.before.ids \subseteq created
  BY DEF TypeOK, SafetyInv, CallOK
<1>2. ASSUME NEW s \in Vanished(call)
      PROVE  s \in created /\ s \notin Sight(read.coverage, pending, described)
  <2>1. s \in call.before.ids /\ PendingState(read, s, ledger.records[s]) = No
    BY <1>2 DEF Vanished, Gone
  <2>2. s \in Asked(call) /\ s \in created /\ s \in Ids
    BY <1>1, <2>1 DEF Asked, TypeOK
  <2>3. ledger.records[s] = "unnamed" => s \in Body
    BY <2>2 DEF SafetyInv, EntryOK
  <2> QED
    BY <1>1, <2>1, <2>2, <2>3, AbsenceIsReal
<1> QED
  BY <1>2

\* Whatever the coverage, what is out of sight is not visible.
LEMMA SightCoversVisible ==
  ASSUME NEW coverage, NEW pe, NEW de
  PROVE  pe \cap de \subseteq Sight(coverage, pe, de)
  BY DEF Sight

\* The end of a call: what it files and what it answers is about cards that left.
LEMMA SessionSafe ==
  ASSUME TypeOK, SafetyInv, NEW c \in Calls, Session(c)
  PROVE  /\ EntryOK(ledger', created, pending, described)
         /\ AnswerOK(last)'
         /\ Becomes(c, IdleCall)
         /\ UNCHANGED doc
<1> DEFINE call == calls[c]
           read == call.read
<1>1. /\ call \in Call /\ CallOK(call, created, pending, described)
      /\ ledger \in Entry /\ EntryOK(ledger, created, pending, described)
  BY DEF TypeOK, SafetyInv
<1>2. /\ read.listed \in SUBSET Ids /\ read.coverage \in Coverage
      /\ call.target \in Ids \cup {NoId} /\ call.took \in SUBSET Ids
  BY <1>1 DEF Call, Read
<1>3. /\ Becomes(c, IdleCall)
      /\ UNCHANGED doc
  BY DEF Session, FinishList, FinishUnverified, FinishResolve, FinishSuggest, Explain,
         Returns, doc
<1>4. ASSUME Returns(c, NoAnswer) PROVE AnswerOK(last)'
  <2>1. /\ last'.stillPending = Unknown /\ last'.matches = Unknown
        /\ last'.removed = {} /\ last'.echoed = {}
    BY <1>4 DEF Returns, NoAnswer
  <2> QED
    BY <2>1 DEF AnswerOK, Unknown, No, Yes
<1>5. ASSUME NEW e \in Entry, EntryOK(e, created, pending, described),
             call.phase = "read", read.coverage # "failed"
      PROVE  EntryOK(Observe(e, read.listed, read.coverage = "complete"),
                     created, pending, described)
  <2>1. ReadOK(call, created, pending, described)
    BY <1>1, <1>5 DEF CallOK
  <2>2. /\ read.listed \subseteq created
        /\ read.coverage = "complete" => Initial \cap pending \cap described \subseteq read.listed
        /\ read.coverage # "complete" => read.listed \subseteq Body
    BY <1>2, <1>5, <2>1 DEF ReadOK, Coverage
  <2>3. (read.coverage = "complete") \in BOOLEAN
    OBVIOUS
  <2> QED
    BY <1>2, <1>5, <2>2, <2>3, ObserveOK
<1>6. CASE FinishList(c)
  <2>1. EntryOK(ledger', created, pending, described)
    BY <1>1, <1>5, <1>6 DEF FinishList
  <2>2. AnswerOK(last)'
    BY <1>4, <1>6 DEF FinishList
  <2> QED
    BY <1>3, <2>1, <2>2
<1>7. CASE FinishUnverified(c)
  <2>1. EntryOK(RecordResolution(ledger, call.kind, call.target, {}, Unknown, NoId),
                created, pending, described)
    <3>1. Recorded(call.target, {}, NoId) \subseteq created \cup Typos
      BY <1>1 DEF Recorded, CallOK
    <3>2. Unknown \in Tri /\ Unknown # Yes
      BY DEF Tri, Unknown, Yes
    <3> QED
      BY <1>1, <3>1, <3>2, RecordOK
  <2>2. EntryOK(ledger', created, pending, described)
    BY <1>1, <1>7, <2>1 DEF FinishUnverified
  <2>3. AnswerOK(last)'
    BY <1>4, <1>7 DEF FinishUnverified
  <2> QED
    BY <1>3, <2>2, <2>3
<1>8. CASE FinishResolve(c)
  <2> DEFINE still == PendingState(read, call.target, call.card)
             removed == Vanished(call)
  <2>1. call.phase = "read" /\ call.kind = "resolve" /\ read.coverage # "failed"
    BY <1>8 DEF FinishResolve, Verified
  <2>2. /\ removed \subseteq created
        /\ removed \cap Sight(read.coverage, pending, described) = {}
    BY <2>1, VanishedIsGone
  <2>3. still = No => call.target \notin Sight(read.coverage, pending, described)
    <3>1. ReadOK(call, created, pending, described)
          /\ (call.card = "unnamed" => call.target \in Body)
      BY <1>1, <2>1 DEF CallOK
    <3>2. call.target \in Asked(call)
      BY DEF Asked
    <3> QED
      BY <1>1, <2>1, <3>1, <3>2, AbsenceIsReal
  <2>4. still \in Tri /\ LandedOf(still) \in Tri
    BY DEF PendingState, LandedOf, Tri
  <2>5. LandedOf(still) = Yes => still = No
    BY <2>4 DEF LandedOf, Tri, Yes, No, Unknown
  <2> DEFINE filed == RecordResolution(ledger, call.kind, call.target, removed,
                                       LandedOf(still), NoId)
  <2>6. EntryOK(filed, created, pending, described)
    <3>1. Recorded(call.target, removed, NoId) \subseteq {call.target} \cup removed
      BY DEF Recorded
    <3>2. Recorded(call.target, removed, NoId) \subseteq created \cup Typos
      BY <1>1, <2>2 DEF CallOK, Recorded
    <3>3. LandedOf(still) = Yes =>
            Recorded(call.target, removed, NoId) \cap pending \cap described = {}
      BY <2>2, <2>3, <2>5, <3>1, SightCoversVisible
    <3> HIDE DEF still, removed
    <3> QED
      BY <1>1, <2>4, <3>2, <3>3, RecordOK
  <2>7. filed \in Entry
    <3>1. removed \in SUBSET Ids
      BY VanishedType
    <3>2. call.kind \in Actions /\ NoId \in Ids \cup {NoId}
      BY <2>1 DEF Actions
    <3> HIDE DEF still, removed
    <3> QED
      BY <1>1, <1>2, <2>4, <3>1, <3>2, RecordResolutionType
  <2>8. ledger' = Observe(filed, read.listed, read.coverage = "complete")
    BY <1>8 DEF FinishResolve
  <2>9. PICK text \in TextChecks(read, call.card) :
          Returns(c, [NoAnswer EXCEPT
                        !.stillPending = still,
                        !.matches = MatchesExpectation(still, text),
                        !.removed = removed,
                        !.coverage = read.coverage])
    BY <1>8 DEF FinishResolve
  <2>10. MatchesExpectation(still, text) = Yes => still = No
    BY <2>4 DEF MatchesExpectation, Tri, Yes, No, Unknown
  <2> HIDE DEF filed, still, removed
  <2>11. EntryOK(ledger', created, pending, described)
    BY <1>5, <2>1, <2>6, <2>7, <2>8
  <2>12. /\ last'.target = call.target /\ last'.stillPending = still
         /\ last'.matches = MatchesExpectation(still, text)
         /\ last'.removed = removed /\ last'.coverage = read.coverage
         /\ last'.echoed = {}
    BY <2>9 DEF Returns, NoAnswer
  <2>13. AnswerOK(last)'
    BY <1>3, <2>2, <2>3, <2>10, <2>12 DEF AnswerOK, doc
  <2> QED
    BY <1>3, <2>11, <2>13
<1>9. CASE FinishSuggest(c)
  <2> DEFINE reported == call.reported \cap read.listed
             appeared == IF call.before.taken
                         THEN read.listed \ (call.before.ids \cup reported) ELSE {}
             echoed == reported \cup Promoted(call, appeared)
             vanished == Vanished(call)
  <2>1. PICK cause \in IF echoed = {} THEN {NoId}
                       ELSE IF reported # {} THEN reported ELSE echoed :
          /\ Returns(c, [NoAnswer EXCEPT !.removed = vanished,
                                         !.echoed = echoed,
                                         !.coverage = read.coverage])
          /\ ledger' = Observe(
               IF vanished = {} THEN ledger
               ELSE RecordResolution(ledger, call.kind, NoId, vanished, Yes, cause),
               read.listed, read.coverage = "complete")
    BY <1>9 DEF FinishSuggest
  <2>2. call.phase = "read" /\ call.kind = "suggest" /\ read.coverage # "failed"
    BY <1>9 DEF FinishSuggest, Verified
  <2>3. /\ vanished \subseteq created
        /\ vanished \cap Sight(read.coverage, pending, described) = {}
    BY <2>2, VanishedIsGone
  <2> DEFINE filed == RecordResolution(ledger, call.kind, NoId, vanished, Yes, cause)
  <2>4. EntryOK(filed, created, pending, described)
    <3>1. Recorded(NoId, vanished, cause) \subseteq vanished
      BY DEF Recorded
    <3>2. /\ Recorded(NoId, vanished, cause) \subseteq created \cup Typos
          /\ Recorded(NoId, vanished, cause) \cap pending \cap described = {}
      BY <2>3, <3>1, SightCoversVisible
    <3>3. Yes \in Tri
      BY DEF Tri
    <3> HIDE DEF vanished
    <3> QED
      BY <1>1, <3>2, <3>3, RecordOK
  <2>5. filed \in Entry
    <3>1. cause \in Ids \cup {NoId}
      BY <1>2, <2>1 DEF Promoted
    <3>2. vanished \in SUBSET Ids
      BY VanishedType
    <3>3. call.kind \in Actions /\ NoId \in Ids \cup {NoId} /\ Yes \in Tri
      BY <2>2 DEF Actions, Tri
    <3> HIDE DEF vanished
    <3> QED
      BY <1>1, <3>1, <3>2, <3>3, RecordResolutionType
  <2>6. EntryOK(ledger', created, pending, described)
    <3> HIDE DEF filed
    <3>1. PICK e \in {ledger, filed} :
             ledger' = Observe(e, read.listed, read.coverage = "complete")
      BY <2>1 DEF filed
    <3> QED
      BY <1>1, <1>5, <2>2, <2>4, <2>5, <3>1
  <2>7. echoed \subseteq call.made \cup (Mine \ Initial)
    <3>1. reported \subseteq call.made
      BY <1>1 DEF CallOK
    <3>2. Promoted(call, appeared) \subseteq Mine \ Initial
      <4>1. ReadOK(call, created, pending, described)
        BY <1>1, <2>2 DEF CallOK
      <4>2. appeared \subseteq read.listed \ call.before.ids
        OBVIOUS
      <4> HIDE DEF appeared
      <4> QED
        BY <4>1, <4>2 DEF Promoted, ReadOK
    <3> QED
      BY <3>1, <3>2
  <2> HIDE DEF echoed, vanished
  <2>8. /\ last'.stillPending = Unknown /\ last'.matches = Unknown
        /\ last'.removed = vanished /\ last'.coverage = read.coverage
        /\ last'.echoed = echoed /\ last'.made = call.made
    BY <2>1 DEF Returns, NoAnswer
  <2>9. AnswerOK(last)'
    BY <1>3, <2>3, <2>7, <2>8 DEF AnswerOK, doc, Unknown, Yes, No
  <2> QED
    BY <1>3, <2>6, <2>9
<1>10. CASE Explain(c)
  <2>1. ledger' = ledger
    BY <1>10 DEF Explain
  <2>2. /\ last'.stillPending = Unknown /\ last'.matches = Unknown
        /\ last'.removed = {} /\ last'.echoed = {}
    BY <1>10 DEF Explain, Returns, NoAnswer
  <2>3. AnswerOK(last)'
    BY <2>2 DEF AnswerOK, Unknown, No, Yes
  <2> QED
    BY <1>1, <1>3, <2>1, <2>3
<1> QED
  BY <1>6, <1>7, <1>8, <1>9, <1>10 DEF Session

\* Eviction and other editors keep the invariant.
LEMMA OthersSafe ==
  ASSUME TypeOK, SafetyInv, Others
  PROVE  SafetyInv'
<1>1. [Next]_vars
  BY DEF Next
<1>2. /\ DocEvolves(created, pending, described, created', pending', described')
      /\ DocOK(created', pending') /\ DocOK(created, pending)
      /\ pending' \subseteq Ids
  <2>1. DocOK(created, pending) /\ TypeOK'
    BY <1>1, TypeStep DEF SafetyInv
  <2> QED
    BY <1>1, <2>1, DocSteps DEF TypeOK
<1>3. calls' = calls
  BY DEF Others, Evict, EditorResolves, EditorSuggests, MarksLost
<1>4. \A c \in Calls : CallOK(calls'[c], created', pending', described')
  BY <1>2, <1>3, CallStable DEF SafetyInv, TypeOK
<1>5. EntryOK(ledger', created', pending', described')
  <2>1. CASE Evict
    <3>1. EntryOK(FreshEntry, created', pending', described')
      BY DEF EntryOK, FreshEntry, Filed, OnFile, NoCard
    <3> QED
      BY <2>1, <3>1 DEF Evict
  <2>2. CASE ~Evict
    <3>1. ledger' = ledger
      BY <2>2 DEF Others, EditorResolves, EditorSuggests, MarksLost
    <3> QED
      BY <1>1, <3>1, SameLedger
  <2> QED
    BY <2>1, <2>2
<1> QED
  BY <1>2, <1>4, <1>5 DEF SafetyInv

-----------------------------------------------------------------------------
(* The theorems. *)

\* The invariant holds initially.
LEMMA InitSafe == Init => SafetyInv /\ AnswerOK(last)
<1> SUFFICES ASSUME Init PROVE SafetyInv /\ AnswerOK(last)
  OBVIOUS
<1>1. DocOK(created, pending)
  BY SessionAssumption DEF Init, DocOK
<1>2. EntryOK(ledger, created, pending, described)
  BY DEF Init, EntryOK, FreshEntry, Filed, OnFile, NoCard
<1>3. \A c \in Calls : CallOK(calls[c], created, pending, described)
  BY IdleOK DEF Init
<1>4. AnswerOK(last)
  BY NoAnswerOK DEF Init
<1> QED
  BY <1>1, <1>2, <1>3, <1>4 DEF SafetyInv

\* The invariant is inductive, given the types.
LEMMA SafetyStep == TypeOK /\ SafetyInv /\ [Next]_vars => SafetyInv'
<1> SUFFICES ASSUME TypeOK, SafetyInv, [Next]_vars PROVE SafetyInv'
  OBVIOUS
<1>1. ASSUME NEW c \in Calls, Session(c) PROVE SafetyInv'
  <2>1. /\ EntryOK(ledger', created, pending, described)
        /\ Becomes(c, IdleCall) /\ UNCHANGED doc
    BY <1>1, SessionSafe
  <2>2. EntryOK(ledger', created', pending', described')
    BY <2>1 DEF doc
  <2> QED
    BY <2>1, <2>2, IdleOK, CallStep
<1>2. CASE UNCHANGED vars
  BY <1>2 DEF vars, doc, SafetyInv
<1> QED
  BY <1>1, <1>2, StartSafe, GoogleSafe, OthersSafe DEF Next

\* An answer is about the document at the moment it is given; every other step
\* takes it back.
LEMMA AnswerStep == TypeOK /\ SafetyInv /\ AnswerOK(last) /\ [Next]_vars => AnswerOK(last)'
<1> SUFFICES ASSUME TypeOK, SafetyInv, AnswerOK(last), [Next]_vars PROVE AnswerOK(last)'
  OBVIOUS
<1>1. ASSUME last' = NoAnswer PROVE AnswerOK(last)'
  BY <1>1 DEF AnswerOK, NoAnswer, Unknown, No, Yes
<1>2. ASSUME NEW c \in Calls, Returns(c, NoAnswer) PROVE AnswerOK(last)'
  <2>1. /\ last'.stillPending = Unknown /\ last'.matches = Unknown
        /\ last'.removed = {} /\ last'.echoed = {}
    BY <1>2 DEF Returns, NoAnswer
  <2> QED
    BY <2>1 DEF AnswerOK, Unknown, No, Yes
<1>3. ASSUME NEW c \in Calls, Google(c) PROVE AnswerOK(last)'
  BY <1>1, <1>2, <1>3 DEF Google, Resolve, Suggest, NoEffect, Refuse, ServeRead, Silent
<1>4. ASSUME NEW c \in Calls, Session(c) PROVE AnswerOK(last)'
  BY <1>4, SessionSafe
<1>5. ASSUME NEW c \in Calls, Start(c) PROVE AnswerOK(last)'
  BY <1>1, <1>5 DEF Start, Silent
<1>6. ASSUME Others PROVE AnswerOK(last)'
  BY <1>1, <1>6 DEF Others, Evict, EditorResolves, EditorSuggests, MarksLost, Silent
<1>7. ASSUME UNCHANGED vars PROVE AnswerOK(last)'
  BY <1>7 DEF vars, AnswerOK
<1> QED
  BY <1>3, <1>4, <1>5, <1>6, <1>7 DEF Next

\* The invariant, for any number of calls in flight and of suggestions, any
\* coverage of any read, and any interleaving with other editors.
THEOREM SafetyHolds == Spec => [](TypeOK /\ SafetyInv /\ AnswerOK(last))
<1>1. Init => TypeOK /\ SafetyInv /\ AnswerOK(last)
  BY InitType, InitSafe
<1>2. TypeOK /\ SafetyInv /\ AnswerOK(last) /\ [Next]_vars
      => (TypeOK /\ SafetyInv /\ AnswerOK(last))'
  BY TypeStep, SafetyStep, AnswerStep
<1> QED
  BY <1>1, <1>2, PTL DEF Spec

\* still_pending: false and matches_expectation: true are only ever said of a
\* suggestion that has left the document.
THEOREM VerdictsAreTrue == Spec => []VerdictIsTrue
<1>1. AnswerOK(last) => VerdictIsTrue
  BY DEF AnswerOK, VerdictIsTrue, Sight, Visible
<1> QED
  BY <1>1, SafetyHolds, PTL

\* also_removed_suggestion_ids only ever names suggestions that have left.
THEOREM CollateralIsTrue == Spec => []CollateralIsGone
<1>1. AnswerOK(last) => CollateralIsGone
  BY DEF AnswerOK, CollateralIsGone, Sight, Visible
<1> QED
  BY <1>1, SafetyHolds, PTL

\* The ledger never remembers as landed a resolution of a card that is open.
THEOREM LandedIsTrue == Spec => []LandedIsGone
<1>1. SafetyInv => LandedIsGone
  BY DEF SafetyInv, EntryOK, LandedIsGone, Visible
<1> QED
  BY <1>1, SafetyHolds, PTL

\* A listed card that is still open never loses the text it was listed with.
THEOREM EchoSurvives == Spec => []EchoIsKept
<1>1. SafetyInv => EchoIsKept
  BY DEF SafetyInv, EntryOK, EchoIsKept, Visible
<1> QED
  BY <1>1, SafetyHolds, PTL

\* created_suggestions never names a card that was open before the session began
\* or that somebody else made.
THEOREM CreatedIsTrue == Spec => []CreatedIsNewAndOurs
<1>1. AnswerOK(last) => CreatedIsNewAndOurs
  BY DEF AnswerOK, CreatedIsNewAndOurs
<1> QED
  BY <1>1, SafetyHolds, PTL

-----------------------------------------------------------------------------
(* The resolutions dict: which ids are on file, and in which order. *)

\* `place' numbers the ids of S, and no others, from 1 without gaps.
Numbers(place, S) ==
    /\ \A s \in Ids : place[s] > 0 <=> s \in S
    /\ {place[s] : s \in S} = 1..Cardinality(S)

\* Every set of ids is finite.
LEMMA IdsCount ==
  ASSUME NEW S \in SUBSET Ids
  PROVE  IsFiniteSet(S) /\ Cardinality(S) \in Nat
  BY IdsAssumption, FS_Subset, FS_CardinalityType

\* Positions that number a set are different ones.
LEMMA PlacesDiffer ==
  ASSUME NEW place \in [Ids -> Nat], NEW S \in SUBSET Ids, Numbers(place, S)
  PROVE  \A s, t \in S : place[s] = place[t] => s = t
<1> DEFINE n == Cardinality(S)
           f == [s \in S |-> place[s]]
<1>1. n \in Nat /\ IsFiniteSet(S) /\ Cardinality(1..n) = n
  BY IdsCount, CountInterval
<1>2. f \in [S -> 1..n] /\ \A k \in 1..n : \E s \in S : f[s] = k
  BY DEF Numbers
<1> HIDE DEF n, f
<1>3. f \in Surjection(S, 1..n)
  BY <1>2 DEF Surjection
<1>4. f \in Injection(S, 1..n)
  BY <1>1, <1>3, FS_Surjection DEF n
<1>5. \A s, t \in S : f[s] = f[t] => s = t
  BY <1>4 DEF Injection, IsInjective
<1> QED
  BY <1>5 DEF f

\* The recorded ids move behind those that are kept, and all are numbered anew.
LEMMA ReorderedNumbers ==
  ASSUME NEW e \in Entry, Numbers(e.place, Filed(e)),
         NEW recorded \in SUBSET Ids, NEW sid \in Ids \cup {NoId}
  PROVE  Numbers(Reordered(e, sid, recorded), Filed(e) \cup recorded)
<1> DEFINE kept == Filed(e) \ recorded
           others == recorded \ {sid}
           named == recorded \ others
           start == Cardinality(kept) + Cardinality(named)
           place == Reordered(e, sid, recorded)
           all == Filed(e) \cup recorded
<1>1. kept \in SUBSET Ids /\ others \in SUBSET Ids /\ named \in SUBSET Ids
      /\ all \in SUBSET Ids
  BY DEF Filed
<1>2. /\ IsFiniteSet(kept) /\ IsFiniteSet(others) /\ IsFiniteSet(named)
      /\ Cardinality(kept) \in Nat /\ Cardinality(others) \in Nat
      /\ Cardinality(named) \in Nat
  BY <1>1, IdsCount
<1>3. named = {} \/ named = {sid}
  OBVIOUS
<1>4. /\ named = {} => Cardinality(named) = 0
      /\ named = {sid} => Cardinality(named) = 1
  BY FS_EmptySet, FS_Singleton
<1>5. Cardinality(all) = start + Cardinality(others)
  <2>1. kept \cap named = {} /\ (kept \cup named) \cap others = {}
        /\ all = (kept \cup named) \cup others
    OBVIOUS
  <2> HIDE DEF kept, others, named, all
  <2>2. /\ IsFiniteSet(kept \cup named)
        /\ Cardinality(kept \cup named) =
             Cardinality(kept) + Cardinality(named) - Cardinality({})
    BY <1>2, <2>1, FS_Union
  <2>3. Cardinality((kept \cup named) \cup others) =
          Cardinality(kept \cup named) + Cardinality(others) - Cardinality({})
    BY <1>2, <2>1, <2>2, FS_Union
  <2> QED
    BY <1>2, <2>1, <2>2, <2>3, FS_EmptySet
<1> DEFINE keyK == [s \in kept |-> e.place[s]]
           keyO == [s \in others |-> s]
<1>6. /\ {Rank(kept, keyK, s) : s \in kept} = 1..Cardinality(kept)
      /\ {Rank(others, keyO, s) : s \in others} = 1..Cardinality(others)
  <2>1. keyK \in [kept -> Nat] /\ \A s, t \in kept : keyK[s] = keyK[t] => s = t
    <3>1. \A s, t \in Filed(e) : e.place[s] = e.place[t] => s = t
      BY PlacesDiffer DEF Filed, Entry
    <3> QED BY <3>1 DEF Filed, Entry
  <2>2. keyO \in [others -> Nat] /\ \A s, t \in others : keyO[s] = keyO[t] => s = t
    BY <1>1, IdsAssumption
  <2> HIDE DEF kept, others, keyK, keyO
  <2> QED
    BY <1>2, <2>1, <2>2, RanksNumber
<1>7. \A s \in kept : place[s] = Rank(kept, keyK, s)
  <2> TAKE s \in kept
  <2>1. s \in Ids /\ s \notin recorded
    BY DEF Filed
  <2>2. place[s] = Cardinality({t \in kept : e.place[t] <= e.place[s]})
    BY <2>1 DEF Reordered
  <2>3. {t \in kept : e.place[t] <= e.place[s]} = {t \in kept : keyK[t] <= keyK[s]}
    OBVIOUS
  <2> QED
    BY <2>2, <2>3 DEF Rank
<1>8. \A s \in others : place[s] = start + Rank(others, keyO, s)
  <2> TAKE s \in others
  <2>1. place[s] = start + Cardinality({t \in others : t <= s})
    BY DEF Reordered
  <2>2. {t \in others : t <= s} = {t \in others : keyO[t] <= keyO[s]}
    OBVIOUS
  <2> QED
    BY <2>1, <2>2 DEF Rank
<1>9. \A s \in named : place[s] = start
  BY DEF Reordered
<1>10. \A s \in Ids \ all : place[s] = 0
  BY DEF Reordered
<1>11. all = kept \cup named \cup others
  OBVIOUS
<1>12. start \in Nat /\ Cardinality(all) \in Nat
  BY <1>2, <1>5
<1>13. /\ \A s \in kept : place[s] \in 1..Cardinality(kept)
       /\ \A k \in 1..Cardinality(kept) : \E s \in kept : place[s] = k
  BY <1>6, <1>7
<1>14. /\ \A s \in others : place[s] - start \in 1..Cardinality(others)
       /\ \A s \in others : place[s] \in Int
       /\ \A k \in 1..Cardinality(others) : \E s \in others : place[s] = start + k
  <2> HIDE DEF kept, others, keyO, start, place
  <2> DEFINE r(s) == Rank(others, keyO, s)
  <2>1. /\ \A s \in others : r(s) \in 1..Cardinality(others)
        /\ \A k \in 1..Cardinality(others) : \E s \in others : r(s) = k
    BY <1>6
  <2>2. \A s \in others : place[s] = start + r(s)
    BY <1>8
  <2> HIDE DEF r
  <2> QED
    BY <1>2, <1>12, <2>1, <2>2
<1>15. /\ named = {} => start = Cardinality(kept)
       /\ named # {} => start = Cardinality(kept) + 1
  BY <1>2, <1>3, <1>4
<1> DEFINE K == Cardinality(kept)
           m == Cardinality(others)
           n == Cardinality(all)
<1>16. place \in [Ids -> Int]
  <2> HIDE DEF kept, others, named, all, start, K, m, n
  <2>1. place = [s \in Ids |-> place[s]]
    BY DEF Reordered
  <2>2. \A s \in Ids : place[s] \in Int
    <3> TAKE s \in Ids
    <3>1. CASE s \in kept
      BY <3>1, <1>2, <1>13
    <3>2. CASE s \in named
      BY <3>2, <1>9, <1>12
    <3>3. CASE s \in others
      BY <3>3, <1>14
    <3>4. CASE s \in Ids \ all
      BY <3>4, <1>10
    <3> QED BY <3>1, <3>2, <3>3, <3>4, <1>11
  <2> HIDE DEF place
  <2> QED BY <2>1, <2>2
<1>17. \A s \in Ids : place[s] > 0 <=> s \in all
  <2> HIDE DEF kept, others, named, all, start, K, m, n, place
  <2> QED
    BY <1>2, <1>3, <1>9, <1>10, <1>11, <1>12, <1>13, <1>14, <1>15, <1>16, <1>1
<1>18. {place[s] : s \in all} = 1..n
  <2>1. ASSUME NEW s \in all PROVE place[s] \in 1..n
    <3> HIDE DEF kept, others, named, all, start, place
    <3> QED
      BY <1>1, <1>2, <1>5, <1>9, <1>11, <1>12, <1>13, <1>14, <1>15, <1>16
  <2>2. ASSUME NEW k \in 1..n PROVE \E s \in all : place[s] = k
    <3>1. CASE k <= K
      <4> HIDE DEF kept, others, named, all, start, place
      <4> QED BY <3>1, <1>2, <1>11, <1>13
    <3>2. CASE K < k /\ k <= start
      <4> HIDE DEF kept, others, named, all, start, place
      <4>1. named # {} /\ k = start
        BY <3>2, <1>2, <1>15
      <4> QED BY <4>1, <1>9, <1>11
    <3>3. CASE start < k
      <4> HIDE DEF kept, others, named, all, start, place
      <4>1. k - start \in 1..m
        BY <3>3, <1>2, <1>5, <1>12
      <4>2. PICK s \in others : place[s] = start + (k - start)
        BY <4>1, <1>14
      <4> QED BY <4>2, <1>11, <1>12
    <3> HIDE DEF K, start, n
    <3>4. K \in Nat /\ start \in Nat /\ k \in Nat
      BY <1>2, <1>12 DEF K, n
    <3> QED BY <3>1, <3>2, <3>3, <3>4
  <2> HIDE DEF place, all, n
  <2> QED BY <2>1, <2>2
<1> HIDE DEF place, all, n
<1>19. Numbers(place, all)
  BY <1>17, <1>18 DEF Numbers, n
<1> QED
  BY <1>19 DEF place, all

\* Dropping the oldest entries keeps the others numbered, and few enough.
LEMMA RenumberedNumbers ==
  ASSUME NEW place \in [Ids -> Nat], NEW S \in SUBSET Ids, Numbers(place, S)
  PROVE  LET left == {s \in S : place[s] > Overflow(place)}
         IN /\ Overflow(place) \in Nat
            /\ Numbers(Renumbered(place, Overflow(place)), left)
            /\ Cardinality(left) <= MaxResolutions
<1> DEFINE n == Cardinality(S)
           cut == Overflow(place)
           left == {s \in S : place[s] > cut}
           new == Renumbered(place, cut)
           f == [s \in left |-> place[s] - cut]
<1>1. n \in Nat /\ IsFiniteSet(S) /\ left \in SUBSET S /\ left \in SUBSET Ids
  BY IdsCount
<1>2. {s \in Ids : place[s] > 0} = S
  BY DEF Numbers
<1>3. cut = IF n > MaxResolutions THEN n - MaxResolutions ELSE 0
  BY <1>2 DEF Overflow
<1>4. cut \in Nat /\ n - cut \in Nat /\ n - cut <= MaxResolutions
  BY <1>1, <1>3, MaxResolutionsAssumption
<1>5. \A s \in S : place[s] \in 1..n
  BY DEF Numbers
<1>6. \A k \in 1..n : \E s \in S : place[s] = k
  BY DEF Numbers
<1>7. \A s, t \in S : place[s] = place[t] => s = t
  BY PlacesDiffer
<1>8. \A s \in Ids : new[s] = IF place[s] > cut THEN place[s] - cut ELSE 0
  BY DEF Renumbered
<1> HIDE DEF n, cut, new
<1>9. f \in [left -> 1..(n - cut)]
  BY <1>1, <1>4, <1>5
<1>10. ASSUME NEW k \in 1..(n - cut) PROVE \E s \in left : f[s] = k
  <2>1. k + cut \in 1..n /\ k + cut > cut
    BY <1>1, <1>4
  <2>2. PICK s \in S : place[s] = k + cut
    BY <1>6, <2>1
  <2>3. s \in left /\ f[s] = k
    BY <1>4, <2>1, <2>2
  <2> QED BY <2>3
<1>11. \A s, t \in left : f[s] = f[t] => s = t
  BY <1>1, <1>4, <1>5, <1>7
<1>12. \A s \in left : new[s] = f[s]
  BY <1>1, <1>8
<1>13. \A s \in Ids : new[s] > 0 <=> s \in left
  BY <1>2, <1>4, <1>8
<1>14. IsFiniteSet(left)
  BY <1>1, IdsCount
<1> HIDE DEF left, f
<1>15. f \in Surjection(left, 1..(n - cut)) /\ f \in Injection(left, 1..(n - cut))
  BY <1>9, <1>10, <1>11 DEF Surjection, Injection, IsInjective
<1>16. Cardinality(left) = n - cut
  BY <1>4, <1>14, <1>15, FS_Surjection, CountInterval
<1>17. {new[s] : s \in left} = 1..Cardinality(left)
  <2>1. \A s \in left : new[s] \in 1..(n - cut)
    BY <1>9, <1>12
  <2>2. \A k \in 1..(n - cut) : \E s \in left : new[s] = k
    BY <1>10, <1>12
  <2> QED BY <1>16, <2>1, <2>2
<1>18. Numbers(new, left) /\ Cardinality(left) <= MaxResolutions
  BY <1>4, <1>13, <1>16, <1>17 DEF Numbers
<1> QED
  BY <1>4, <1>18 DEF left, new, cut

\* The dict of one entry is in order.
Ordered(e) == Numbers(e.place, Filed(e)) /\ Cardinality(Filed(e)) <= MaxResolutions

\* The positions given to the ids of an entry are numbers.
LEMMA ReorderedType ==
  ASSUME NEW e \in Entry, NEW recorded \in SUBSET Ids, NEW sid,
         Numbers(Reordered(e, sid, recorded), Filed(e) \cup recorded)
  PROVE  Reordered(e, sid, recorded) \in [Ids -> Nat]
<1> DEFINE place == Reordered(e, sid, recorded)
<1>1. DOMAIN place = Ids /\ place = [s \in Ids |-> place[s]]
  BY DEF Reordered
<1>2. Filed(e) \cup recorded \in SUBSET Ids
  BY DEF Filed
<1>3. \A s \in Filed(e) \cup recorded : place[s] \in Nat
  BY <1>2, IdsCount DEF Numbers
<1>4. \A s \in Ids \ (Filed(e) \cup recorded) : place[s] = 0
  BY DEF Reordered
<1> HIDE DEF place
<1>5. place \in [Ids -> Nat]
  BY <1>1, <1>3, <1>4
<1> QED
  BY <1>5 DEF place

\* Filing a resolution leaves exactly the newest ones on file, numbered by age.
LEMMA RecordOrders ==
  ASSUME NEW e \in Entry, Ordered(e), NEW action \in Actions,
         NEW sid \in Ids \cup {NoId}, NEW collateral \in SUBSET Ids,
         NEW landed, NEW cause
  PROVE  Ordered(RecordResolution(e, action, sid, collateral, landed, cause))
<1> DEFINE recorded == Recorded(sid, collateral, cause)
           place == Reordered(e, sid, recorded)
           cut == Overflow(place)
           all == Filed(e) \cup recorded
           left == {s \in all : place[s] > cut}
           r == RecordResolution(e, action, sid, collateral, landed, cause)
<1>1. recorded \in SUBSET Ids /\ all \in SUBSET Ids
  BY DEF Recorded, Filed
<1>2. Numbers(place, all)
  BY <1>1, ReorderedNumbers DEF Ordered
<1>3. place \in [Ids -> Nat]
  BY <1>1, <1>2, ReorderedType
<1>4. /\ cut \in Nat /\ Numbers(Renumbered(place, cut), left)
      /\ Cardinality(left) <= MaxResolutions
  BY <1>1, <1>2, <1>3, RenumberedNumbers
<1>5. /\ r.place = Renumbered(place, cut)
      /\ \A s \in Ids : r.resolutions[s] =
           IF place[s] > cut
           THEN IF s \in recorded
                THEN [action |-> action, direct |-> s = sid, landed |-> landed]
                ELSE e.resolutions[s]
           ELSE NoResolution
  BY DEF RecordResolution, Entry
<1>6. Filed(r) = left
  <2>1. \A s \in Ids : place[s] > cut => s \in all
    BY <1>2, <1>3, <1>4 DEF Numbers
  <2>2. action # "none"
    BY DEF Actions
  <2>3. \A s \in recorded :
          [action |-> action, direct |-> s = sid, landed |-> landed] # NoResolution
    BY <2>2 DEF NoResolution
  <2> HIDE DEF r, place, cut, recorded
  <2>4. \A s \in Ids : OnFile(r, s) <=> place[s] > cut
    BY <1>5, <2>1, <2>3 DEF OnFile, Filed
  <2> QED
    BY <1>1, <2>1, <2>4 DEF Filed
<1> HIDE DEF r, left, place, cut
<1>7. Ordered(r)
  BY <1>4, <1>5, <1>6 DEF Ordered
<1> QED
  BY <1>7 DEF r

\* A read neither files nor drops a resolution: what it refutes stays on file.
LEMMA ObserveFiles ==
  ASSUME NEW e \in Entry, NEW listed, NEW complete
  PROVE  LET o == Observe(e, listed, complete)
         IN o.place = e.place /\ Filed(o) = Filed(e)
<1> DEFINE o == Observe(e, listed, complete)
<1>1. o.place = e.place /\ o.resolutions = Refuted(e, listed)
  BY DEF Observe, Entry
<1>2. \A s \in Ids : OnFile(o, s) <=> OnFile(e, s)
  <2> TAKE s \in Ids
  <2>1. CASE s \in listed /\ OnFile(e, s) /\ e.resolutions[s].landed = Unknown
    <3>1. e.resolutions[s] \in Resolution
      BY <2>1 DEF OnFile, Entry
    <3>2. o.resolutions[s].action = e.resolutions[s].action
      BY <1>1, <2>1, <3>1 DEF Refuted, Resolution
    <3>3. e.resolutions[s].action # "none"
      BY <3>1 DEF Resolution, Actions
    <3> QED BY <2>1, <3>2, <3>3 DEF OnFile, NoResolution
  <2>2. CASE ~(s \in listed /\ OnFile(e, s) /\ e.resolutions[s].landed = Unknown)
    BY <1>1, <2>2 DEF Refuted, OnFile
  <2> QED BY <2>1, <2>2
<1>3. Filed(o) = Filed(e)
  BY <1>2 DEF Filed
<1> QED
  BY <1>1, <1>3

\* So it leaves the dict in order.
LEMMA ObserveOrders ==
  ASSUME NEW e \in Entry, Ordered(e), NEW listed, NEW complete
  PROVE  Ordered(Observe(e, listed, complete))
  BY ObserveFiles DEF Ordered

\* An entry that was just made has nothing on file.
LEMMA FreshOrders == Ordered(FreshEntry)
<1>1. Filed(FreshEntry) = {} /\ \A s \in Ids : FreshEntry.place[s] = 0
  BY DEF FreshEntry, Filed, OnFile
<1>2. Cardinality({}) = 0 /\ 0 <= MaxResolutions
  BY FS_EmptySet, MaxResolutionsAssumption
<1> QED
  BY <1>1, <1>2 DEF Ordered, Numbers

-----------------------------------------------------------------------------
(* What the last step of a call does to the ledger: it files one resolution  *)
(* or none, and then it observes one read or none.                           *)

Reported(read) == read.listed \cup read.threads

\* What a call that ends adds to the history is among what it puts on record.
Learns(c, recorded) ==
    /\ history'.named \subseteq history.named \cup (calls[c].took \cap recorded)
    /\ history'.attested \subseteq history.attested \cup (calls[c].took \cap recorded)

\* The call in slot c files a resolution, which makes the entry `filed'.  It is
\* filed as refuted only if the call's own read still reports its target, and its
\* collateral was listed before the call.
Files(c, filed) ==
    \E action \in Actions, sid \in Ids \cup {NoId}, collateral \in SUBSET Ids,
       landed \in Tri, cause \in Ids \cup {NoId} :
      /\ filed = RecordResolution(ledger, action, sid, collateral, landed, cause)
      /\ landed = No => /\ calls[c].phase = "read" /\ calls[c].kind = "resolve"
                        /\ sid = calls[c].target /\ sid \in Reported(calls[c].read)
      /\ collateral \subseteq calls[c].before.ids
      /\ Learns(c, Recorded(sid, collateral, cause))

\* The call adds nothing of its own.
Keeps(filed) == filed = ledger /\ history' = history

\* The read of slot c is observed, or there is none and so nothing is attested.
Observes(c, filed) ==
    \/ ledger' = filed /\ history'.attested = history.attested
    \/ /\ calls[c].phase = "read"
       /\ ledger' = Observe(filed, calls[c].read.listed,
                            calls[c].read.coverage = "complete")

\* What has vanished was listed before the call and is not listed by its read.
LEMMA VanishedWas ==
  ASSUME NEW call
  PROVE  Vanished(call) \subseteq call.before.ids \ call.read.listed
  BY DEF Vanished, Gone

\* Every last step of a call is one of these.
LEMMA SessionLedger ==
  ASSUME TypeOK, NEW c \in Calls, Session(c)
  PROVE  /\ \E filed \in Entry : (Keeps(filed) \/ Files(c, filed)) /\ Observes(c, filed)
         /\ Becomes(c, IdleCall) /\ UNCHANGED doc
<1> DEFINE call == calls[c]
           read == call.read
           Good == \E filed \in Entry : (Keeps(filed) \/ Files(c, filed))
                                        /\ Observes(c, filed)
<1>1. /\ call \in Call /\ call.target \in Ids \cup {NoId} /\ read \in Read
      /\ call.kind = "resolve" => call.target # NoId
      /\ ledger \in Entry /\ history \in History
  <2>1. call \in Call /\ (call.kind = "resolve" => call.target # NoId)
    BY CallFacts
  <2>2. call.target \in Ids \cup {NoId} /\ read \in Read
    BY <2>1 DEF Call
  <2> QED
    BY <2>1, <2>2 DEF TypeOK
<1>2. Becomes(c, IdleCall) /\ UNCHANGED doc
  <2>1. CASE FinishList(c) \/ FinishUnverified(c) \/ Explain(c)
    BY <2>1 DEF FinishList, FinishUnverified, Explain, Returns, doc
  <2>2. CASE FinishResolve(c)
    BY <2>2, Zenon DEF FinishResolve, Returns
  <2>3. CASE FinishSuggest(c)
    BY <2>3, Zenon DEF FinishSuggest, Returns
  <2> QED
    BY <2>1, <2>2, <2>3 DEF Session
<1>3. ASSUME FinishList(c) PROVE Good
  BY <1>1, <1>3 DEF FinishList, Keeps, Observes
<1>4. ASSUME Explain(c) PROVE Good
  BY <1>1, <1>4 DEF Explain, Keeps, Observes
<1>5. ASSUME FinishUnverified(c) PROVE Good
  <2>1. ASSUME call.kind # "resolve" PROVE Good
    BY <1>1, <1>5, <2>1 DEF FinishUnverified, Keeps, Observes
  <2>2. ASSUME call.kind = "resolve" PROVE Good
    <3> DEFINE filed == RecordResolution(ledger, "resolve", call.target, {}, Unknown, NoId)
    <3>1. ledger' = filed /\ history' = After(call, {})
      BY <1>5, <2>2 DEF FinishUnverified
    <3>2. filed \in Entry
      BY <1>1, RecordResolutionType DEF Actions, Tri, NoId
    <3>3. Recorded(call.target, {}, NoId) = {call.target}
      BY <1>1, <2>2 DEF Recorded
    <3>4. Learns(c, Recorded(call.target, {}, NoId)) /\ history'.attested = history.attested
      BY <1>1, <3>1, <3>3 DEF Learns, After, History
    <3>5. "resolve" \in Actions /\ Unknown \in Tri /\ Unknown # No
          /\ {} \in SUBSET Ids /\ NoId \in Ids \cup {NoId}
      BY DEF Actions, Tri, Unknown, No
    <3>6. Files(c, filed)
      BY <1>1, <3>4, <3>5 DEF Files
    <3> QED
      BY <3>1, <3>2, <3>4, <3>6 DEF Observes
  <2> QED BY <2>1, <2>2
<1>6. ASSUME FinishResolve(c) PROVE Good
  <2> DEFINE still == PendingState(read, call.target, call.card)
             removed == Vanished(call)
             filed == RecordResolution(ledger, "resolve", call.target, removed,
                                       LandedOf(still), NoId)
  <2>1. still \in Tri /\ LandedOf(still) \in Tri /\ removed \in SUBSET Ids
    BY VanishedType DEF PendingState, LandedOf, Tri
  <2>2. filed \in Entry
    BY <1>1, <2>1, RecordResolutionType DEF Actions
  <2>3. LandedOf(still) = No => call.target \in Reported(read)
    BY DEF LandedOf, PendingState, Reported, Yes, No, Unknown
  <2>4. /\ call.phase = "read" /\ call.kind = "resolve"
        /\ ledger' = Observe(filed, read.listed, read.coverage = "complete")
        /\ history' = After(call, removed \cup {s \in {call.target} : still = No})
    BY <1>6 DEF FinishResolve, Verified
  <2>5. Files(c, filed)
    <3> DEFINE landed == LandedOf(still)
    <3>1. "resolve" \in Actions /\ NoId \in Ids \cup {NoId}
      BY DEF Actions
    <3>2. filed = RecordResolution(ledger, "resolve", call.target, removed, landed, NoId)
      OBVIOUS
    <3>3. landed \in Tri
          /\ (landed = No => call.phase = "read" /\ call.kind = "resolve"
                             /\ call.target \in Reported(read))
      BY <2>1, <2>3, <2>4
    <3>4. removed \subseteq call.before.ids
      BY VanishedWas
    <3>5. Learns(c, Recorded(call.target, removed, NoId))
      <4>1. Recorded(call.target, removed, NoId) = {call.target} \cup removed
        BY <1>1, <2>1, <2>4 DEF Recorded, AttributedTo, NoId, TypeOK
      <4> HIDE DEF still, removed
      <4> QED
        BY <1>1, <2>4, <4>1 DEF Learns, After, History
    <3> HIDE DEF still, removed, landed, filed
    <3> QED BY <1>1, <2>1, <3>1, <3>2, <3>3, <3>4, <3>5 DEF Files
  <2> HIDE DEF filed
  <2> QED BY <2>2, <2>4, <2>5 DEF Observes
<1>7. ASSUME FinishSuggest(c) PROVE Good
  <2> DEFINE reported == call.reported \cap read.listed
             appeared == IF call.before.taken
                         THEN read.listed \ (call.before.ids \cup reported) ELSE {}
             echoed == reported \cup Promoted(call, appeared)
             vanished == Vanished(call)
             filed(cause) == RecordResolution(ledger, "suggest", NoId, vanished, Yes, cause)
  <2>1. /\ reported \in SUBSET Ids /\ echoed \in SUBSET Ids
        /\ vanished \in SUBSET Ids
    BY <1>1, VanishedType DEF Promoted, Call, Read
  <2>2. PICK cause \in IF echoed = {} THEN {NoId}
                       ELSE IF reported # {} THEN reported ELSE echoed :
          /\ ledger' = Observe(IF vanished = {} THEN ledger ELSE filed(cause),
                               read.listed, read.coverage = "complete")
    BY <1>7, ZenonT(30) DEF FinishSuggest, Verified
  <2>3. cause \in Ids \cup {NoId} /\ call.phase = "read"
    BY <1>7, <2>1 DEF FinishSuggest, Verified
  <2>7. history' = [history EXCEPT !.attested = @ \cup (call.took \cap vanished)]
    BY <1>7 DEF FinishSuggest
  <2>8. vanished \subseteq call.before.ids \ read.listed
    BY VanishedWas
  <2>9. cause \notin vanished
    BY <1>1, <2>1, <2>8, IdsAssumption DEF Promoted, NoId
  <2>4. ASSUME vanished = {} PROVE Good
    <3>1. history' = history
      BY <1>1, <2>4, <2>7 DEF History
    <3> QED BY <1>1, <2>2, <2>3, <2>4, <3>1 DEF Keeps, Observes
  <2>5. ASSUME vanished # {} PROVE Good
    <3>1. filed(cause) \in Entry
      BY <1>1, <2>1, <2>3, RecordResolutionType DEF Actions, Tri
    <3>2. Yes # No /\ Yes \in Tri /\ "suggest" \in Actions
      BY DEF Yes, No, Tri, Actions
    <3>3. Files(c, filed(cause))
      <4>1. Recorded(NoId, vanished, cause) = vanished
        BY <2>1, <2>9, IdsAssumption DEF Recorded, AttributedTo, NoId
      <4>2. Learns(c, Recorded(NoId, vanished, cause))
        BY <1>1, <2>7, <4>1 DEF Learns, History
      <4> HIDE DEF vanished
      <4> QED
        BY <2>1, <2>3, <2>8, <3>2, <4>2 DEF Files
    <3> HIDE DEF filed
    <3> QED BY <2>2, <2>3, <2>5, <3>1, <3>3 DEF Observes
  <2> QED BY <2>4, <2>5
<1> HIDE DEF Good
<1>8. Good
  <2> USE DEF Good
  <2> QED BY <1>3, <1>4, <1>5, <1>6, <1>7 DEF Session
<1> QED
  BY <1>2, <1>8 DEF Good

\* Nobody but a returning call, and an eviction, touches the ledger.
LEMMA OthersLedger ==
  ASSUME [Next]_vars
  PROVE  \/ UNCHANGED <<ledger, history>>
         \/ "evicted" \in Faults /\ ledger' = FreshEntry /\ history' = history
         \/ \E c \in Calls : Session(c)
  BY DEF Next, Google, Others, Start, Resolve, Suggest, NoEffect, Refuse, ServeRead,
         Evict, EditorResolves, EditorSuggests, MarksLost, vars

\* The dict stays ordered and bounded whatever a call files.
LEMMA OrderStep == TypeOK /\ Ordered(ledger) /\ [Next]_vars => Ordered(ledger')
<1> SUFFICES ASSUME TypeOK, Ordered(ledger), [Next]_vars PROVE Ordered(ledger')
  OBVIOUS
<1>1. ASSUME NEW c \in Calls, Session(c) PROVE Ordered(ledger')
  <2>1. PICK filed \in Entry : (Keeps(filed) \/ Files(c, filed)) /\ Observes(c, filed)
    BY <1>1, SessionLedger
  <2>2. Ordered(filed)
    <3>1. ledger \in Entry
      BY DEF TypeOK
    <3> QED BY <2>1, <3>1, RecordOrders DEF Keeps, Files
  <2> QED
    BY <2>1, <2>2, ObserveOrders DEF Observes
<1> QED
  BY <1>1, OthersLedger, FreshOrders

\* The resolutions of a session are numbered without gaps from the oldest to the
\* newest and never more than MAX_RESOLUTIONS, for any limit and any calls.
THEOREM OrderHolds == Spec => []ResolutionsAreOrdered
<1>1. Init => Ordered(ledger)
  BY FreshOrders DEF Init
<1>2. Ordered(ledger) => ResolutionsAreOrdered
  BY DEF Ordered, Numbers, ResolutionsAreOrdered, Filed
<1>3. TypeOK /\ Ordered(ledger) /\ [Next]_vars => Ordered(ledger)'
  <2>1. Ordered(ledger)' <=> Ordered(ledger')
    BY DEF Ordered, Numbers, Filed, OnFile
  <2> QED BY <2>1, OrderStep
<1> QED
  BY <1>1, <1>2, <1>3, TypeCorrect, PTL DEF Spec

-----------------------------------------------------------------------------
(* Refutations, with one call at a time.                                     *)

\* The cards known to be removed by this session.
Effective == history.named \cup history.attested

\* What it removed has left the document for good, so that no read served after it
\* reports it; and with one call at a time every read that is being evaluated was served
\* after every write in the history, every snapshot in use was taken after every read
\* that attested one, and a write with an effect took its target.
CallEffect(call) ==
    /\ call.took \subseteq created \ pending
    /\ call.phase = "read" => (call.took \cup Effective) \cap Reported(call.read) = {}
    /\ call.before.ids \cap history.attested = {}
    /\ call.kind = "resolve" /\ call.took # {} => call.target \in call.took

EffectInv ==
    /\ pending \subseteq created
    /\ Effective \subseteq created \ pending
    /\ ledger.lastReadIds \cap history.attested = {}
    /\ \A c \in Calls : CallEffect(calls[c])
    /\ RefutedHadNoEffect

\* A slot whose call is replaced, while the document loses cards or gains new ones.
LEMMA EffectSteps ==
  ASSUME TypeOK, EffectInv, TypeOK', NEW c \in Calls, NEW call,
         Becomes(c, call), UNCHANGED <<ledger, history>>,
         pending' \subseteq created', created \subseteq created',
         pending' \cap created \subseteq pending,
         call.took \subseteq created' \ pending',
         call.phase = "read" => (call.took \cup Effective) \cap Reported(call.read) = {},
         call.before.ids \cap history.attested = {},
         call.kind = "resolve" /\ call.took # {} => call.target \in call.took
  PROVE  EffectInv'
<1>1. calls' = [calls EXCEPT ![c] = call] /\ calls \in [Calls -> Call]
  BY DEF Becomes, TypeOK
<1>2. Effective' = Effective /\ (RefutedHadNoEffect' <=> RefutedHadNoEffect)
  BY DEF Effective, RefutedHadNoEffect, Filed, OnFile
<1>3. Effective' \subseteq created' \ pending'
  BY <1>2 DEF EffectInv
<1>4. ASSUME NEW d \in Calls PROVE CallEffect(calls[d])'
  <2>1. calls'[d] = call \/ calls'[d] = calls[d]
    BY <1>1
  <2>2. CallEffect(calls[d])
    BY DEF EffectInv
  <2>3. CASE calls'[d] = call
    BY <1>2, <2>3 DEF CallEffect, Reported
  <2>4. CASE calls'[d] = calls[d]
    BY <1>2, <2>2, <2>4 DEF CallEffect, Reported
  <2> QED
    BY <2>1, <2>3, <2>4
<1>5. (ledger.lastReadIds \cap history.attested = {})'
  BY DEF EffectInv
<1> QED
  BY <1>2, <1>3, <1>4, <1>5 DEF EffectInv

\* What a call just returned leaves: an empty slot.
LEMMA IdleEffect ==
  /\ IdleCall.took = {} /\ IdleCall.phase # "read" /\ IdleCall.kind = "none"
  /\ IdleCall.before.ids = {}
  BY DEF IdleCall, NoSnapshot

\* A refutation is filed, or follows from a read, only for ids the read reports and for
\* the collateral of a call whose read still reports its target.
LEMMA RefutationsAreReported ==
  ASSUME TypeOK, NEW c \in Calls, NEW filed \in Entry,
         Keeps(filed) \/ Files(c, filed), Observes(c, filed),
         NEW s \in Filed(ledger'), ledger'.resolutions[s].landed = No
  PROVE  \/ calls[c].phase = "read" /\ s \in Reported(calls[c].read)
         \/ /\ calls[c].phase = "read" /\ calls[c].kind = "resolve"
            /\ calls[c].target \in Reported(calls[c].read)
            /\ s \in calls[c].before.ids
            /\ ~ledger'.resolutions[s].direct
         \/ /\ s \in Filed(ledger) /\ ledger.resolutions[s].landed = No
            /\ ledger.resolutions[s].direct = ledger'.resolutions[s].direct
            /\ s \in history'.named => s \in history.named
            /\ s \in history'.attested => s \in history.attested
<1> DEFINE read == calls[c].read
           Told == calls[c].phase = "read" /\ s \in Reported(read)
           Beside == /\ calls[c].phase = "read" /\ calls[c].kind = "resolve"
                     /\ calls[c].target \in Reported(read)
                     /\ s \in calls[c].before.ids
                     /\ ~ledger'.resolutions[s].direct
           Old == /\ s \in Filed(ledger) /\ ledger.resolutions[s].landed = No
                  /\ ledger.resolutions[s].direct = ledger'.resolutions[s].direct
                  /\ s \in history'.named => s \in history.named
                  /\ s \in history'.attested => s \in history.attested
<1> SUFFICES ASSUME ~Told PROVE Beside \/ Old
  OBVIOUS
<1>1. s \in Ids /\ ledger \in Entry
  BY DEF Filed, TypeOK
<1>2. /\ s \in Filed(filed) /\ filed.resolutions[s].landed = No
      /\ ledger'.resolutions[s].direct = filed.resolutions[s].direct
  <2>1. CASE ledger' = filed
    BY <2>1
  <2>2. CASE /\ calls[c].phase = "read"
             /\ ledger' = Observe(filed, read.listed, read.coverage = "complete")
    <3>1. s \notin read.listed
      BY <2>2 DEF Reported
    <3>2. ledger'.resolutions[s] = filed.resolutions[s]
      BY <1>1, <2>2, <3>1 DEF Observe, Refuted, Entry
    <3>3. s \in Filed(filed)
      BY <1>1, <3>2 DEF Filed, OnFile
    <3> QED
      BY <3>2, <3>3
  <2> QED
    BY <2>1, <2>2 DEF Observes
<1>3. CASE Keeps(filed)
  BY <1>2, <1>3 DEF Keeps
<1>4. CASE Files(c, filed)
  <2>1. PICK action \in Actions, sid \in Ids \cup {NoId}, collateral \in SUBSET Ids,
             landed \in Tri, cause \in Ids \cup {NoId} :
          /\ filed = RecordResolution(ledger, action, sid, collateral, landed, cause)
          /\ landed = No => /\ calls[c].phase = "read" /\ calls[c].kind = "resolve"
                            /\ sid = calls[c].target /\ sid \in Reported(calls[c].read)
          /\ collateral \subseteq calls[c].before.ids
          /\ Learns(c, Recorded(sid, collateral, cause))
    BY <1>4 DEF Files
  <2> DEFINE recorded == Recorded(sid, collateral, cause)
             place == Reordered(ledger, sid, recorded)
             cut == Overflow(place)
  <2>2. filed.resolutions[s] =
          IF place[s] > cut
          THEN IF s \in recorded
               THEN [action |-> action, direct |-> s = sid, landed |-> landed]
               ELSE ledger.resolutions[s]
          ELSE NoResolution
    <3>1. filed = RecordResolution(ledger, action, sid, collateral, landed, cause)
      BY <2>1
    <3> QED
      BY <1>1, <3>1 DEF RecordResolution, Entry
  <2>3. filed.resolutions[s] # NoResolution
    BY <1>2 DEF Filed, OnFile
  <2>4. s \in recorded => s = sid \/ s \in collateral
    BY DEF Recorded
  <2>5. Learns(c, recorded)
    BY <2>1
  <2> HIDE DEF place, cut, recorded
  <2>6. CASE s \in recorded
    <3>1. filed.resolutions[s] = [action |-> action, direct |-> s = sid, landed |-> landed]
      BY <2>2, <2>3, <2>6
    <3>2. landed = No
      BY <1>2, <3>1
    <3>3. s # sid
      BY <2>1, <3>2 DEF Reported
    <3>4. (s = sid) = FALSE
      BY <3>3
    <3>5. filed.resolutions[s] = [action |-> action, direct |-> FALSE, landed |-> landed]
      BY <3>1, <3>4
    <3>6. ~ledger'.resolutions[s].direct
      BY <1>2, <3>5
    <3>7. s \in calls[c].before.ids
      BY <2>1, <2>4, <2>6, <3>3
    <3> QED
      BY <2>1, <3>2, <3>6, <3>7
  <2>7. CASE s \notin recorded
    <3>1. ledger.resolutions[s] = filed.resolutions[s]
      BY <2>2, <2>3, <2>7
    <3>2. s \in Filed(ledger) /\ ledger.resolutions[s].landed = No
          /\ ledger.resolutions[s].direct = ledger'.resolutions[s].direct
      BY <1>1, <1>2, <2>3, <3>1 DEF Filed, OnFile
    <3> QED
      BY <2>5, <2>7, <3>2 DEF Learns
  <2> QED
    BY <2>6, <2>7
<1> QED
  BY <1>3, <1>4

\* What the history gains when a call returns is among what the call took.
LEMMA EffectiveAfter ==
  ASSUME NEW c \in Calls, NEW filed, Keeps(filed) \/ Files(c, filed)
  PROVE  /\ Effective' \subseteq Effective \cup calls[c].took
         /\ history'.attested \subseteq history.attested \cup calls[c].took
<1>1. CASE Keeps(filed)
  BY <1>1 DEF Keeps, Effective
<1>2. CASE Files(c, filed)
  <2>1. PICK recorded : Learns(c, recorded)
    BY <1>2 DEF Files
  <2> QED
    BY <2>1 DEF Learns, Effective
<1> QED
  BY <1>1, <1>2

\* The last step of a call keeps the invariant if it is the only one in flight.
LEMMA SessionEffect ==
  ASSUME \A b, d \in Calls : b = d, TypeOK, EffectInv, NEW c \in Calls, Session(c)
  PROVE  EffectInv'
<1>1. PICK filed \in Entry : (Keeps(filed) \/ Files(c, filed)) /\ Observes(c, filed)
  BY SessionLedger
<1>2. calls' = [calls EXCEPT ![c] = IdleCall] /\ UNCHANGED <<pending, described, created>>
  BY SessionLedger DEF Becomes, doc
<1>3. /\ Effective' \subseteq Effective \cup calls[c].took
      /\ history'.attested \subseteq history.attested \cup calls[c].took
  BY <1>1, EffectiveAfter
<1>4. \A d \in Calls : calls'[d] = IdleCall
  BY <1>2 DEF TypeOK
<1>5. CallEffect(calls[c]) /\ history.attested \subseteq Effective
  BY DEF EffectInv, Effective
<1>6. RefutedHadNoEffect'
  <2> SUFFICES ASSUME NEW s \in Filed(ledger'), ledger'.resolutions[s].landed = No
               PROVE  /\ s \notin history'.attested
                      /\ ledger'.resolutions[s].direct => s \notin history'.named
    BY DEF RefutedHadNoEffect, Filed, OnFile
  <2>1. CASE calls[c].phase = "read" /\ s \in Reported(calls[c].read)
    <3>1. s \notin Effective'
      BY <1>3, <1>5, <2>1 DEF CallEffect
    <3> QED
      BY <3>1 DEF Effective
  <2>2. CASE /\ calls[c].phase = "read" /\ calls[c].kind = "resolve"
             /\ calls[c].target \in Reported(calls[c].read)
             /\ s \in calls[c].before.ids
             /\ ~ledger'.resolutions[s].direct
    <3>1. calls[c].took = {}
      BY <1>5, <2>2 DEF CallEffect
    <3>2. s \notin history.attested
      BY <1>5, <2>2 DEF CallEffect
    <3> QED
      BY <1>3, <2>2, <3>1, <3>2
  <2>3. CASE /\ s \in Filed(ledger) /\ ledger.resolutions[s].landed = No
             /\ ledger.resolutions[s].direct = ledger'.resolutions[s].direct
             /\ s \in history'.named => s \in history.named
             /\ s \in history'.attested => s \in history.attested
    BY <2>3 DEF EffectInv, RefutedHadNoEffect
  <2> QED
    BY <1>1, <2>1, <2>2, <2>3, RefutationsAreReported
<1>7. ledger'.lastReadIds \cap history'.attested = {}
  <2>1. ledger.lastReadIds \cap history.attested = {} /\ filed.lastReadIds = ledger.lastReadIds
    <3>1. CASE Keeps(filed)
      BY <3>1 DEF EffectInv, Keeps
    <3>2. CASE Files(c, filed)
      <4>1. PICK action, sid, collateral, landed, cause :
              filed = RecordResolution(ledger, action, sid, collateral, landed, cause)
        BY <3>2 DEF Files
      <4> QED
        BY <4>1 DEF EffectInv, RecordResolution, Entry, TypeOK
    <3> QED
      BY <1>1, <3>1, <3>2
  <2>2. CASE ledger' = filed /\ history'.attested = history.attested
    BY <2>1, <2>2
  <2>3. CASE /\ calls[c].phase = "read"
             /\ ledger' = Observe(filed, calls[c].read.listed,
                                  calls[c].read.coverage = "complete")
    <3>1. ledger'.lastReadIds = calls[c].read.listed
      BY <2>3 DEF Observe, Entry
    <3> QED
      BY <1>3, <1>5, <2>3, <3>1 DEF CallEffect, Reported
  <2> QED
    BY <1>1, <2>2, <2>3 DEF Observes
<1>8. Effective' \subseteq created' \ pending'
  BY <1>2, <1>3, <1>5 DEF EffectInv, CallEffect
<1>9. ASSUME NEW d \in Calls PROVE CallEffect(calls[d])'
  BY <1>4, IdleEffect DEF CallEffect
<1> QED
  BY <1>2, <1>6, <1>7, <1>8, <1>9 DEF EffectInv

\* A step of Google keeps it: what it applies has left, what it serves is there.
LEMMA GoogleEffect ==
  ASSUME TypeOK, EffectInv, TypeOK', NEW c \in Calls, Google(c)
  PROVE  EffectInv'
<1> DEFINE call == calls[c]
<1>1. /\ call \in Call /\ call.took \subseteq created \ pending /\ pending \subseteq created
      /\ call.before.ids \cap history.attested = {}
      /\ call.kind = "resolve" /\ call.took # {} => call.target \in call.took
  BY CallFacts DEF EffectInv, CallEffect
<1>2. ASSUME Returns(c, NoAnswer), UNCHANGED <<ledger, history>>,
             pending' \subseteq created', created \subseteq created',
             pending' \cap created \subseteq pending
      PROVE  EffectInv'
  BY <1>2, IdleEffect, EffectSteps DEF Returns
<1>3. CASE Resolve(c)
  <2>1. PICK others \in SUBSET (pending \ {call.target}) :
          LET took == others \cup {call.target}
              new == [call EXCEPT !.took = took, !.phase = "applied"]
          IN /\ pending' = pending \ took
             /\ \/ Becomes(c, new) /\ Silent
                \/ "lost_response" \in Faults /\ Returns(c, NoAnswer)
    BY <1>3 DEF Resolve
  <2> DEFINE took == others \cup {call.target}
             new == [call EXCEPT !.took = took, !.phase = "applied"]
  <2>2. created' = created /\ UNCHANGED <<ledger, history>> /\ call.target \in pending
    BY <1>3 DEF Resolve
  <2>3. new.took = took /\ new.phase = "applied" /\ new.before = call.before
        /\ new.target \in took
    BY <1>1 DEF Call
  <2>4. pending' = pending \ took /\ took \subseteq created
    BY <1>1, <2>1, <2>2
  <2>5. Becomes(c, new) \/ Returns(c, NoAnswer)
    BY <2>1
  <2> HIDE DEF new, took
  <2>6. CASE Becomes(c, new)
    BY <1>1, <2>2, <2>3, <2>4, <2>6, EffectSteps
  <2> QED
    BY <1>1, <1>2, <2>2, <2>4, <2>5, <2>6
<1>4. CASE Suggest(c)
  <2>1. PICK n \in (Mine \ created) \cup {NoId},
             absorbed \in SUBSET (pending \cap Mine), reports \in BOOLEAN :
          LET made == {n} \ {NoId}
              new == [call EXCEPT !.phase = "applied", !.took = absorbed,
                         !.made = made, !.reported = IF reports THEN made ELSE {}]
          IN /\ pending' = (pending \ absorbed) \cup made
             /\ created' = created \cup made
             /\ \/ Becomes(c, new) /\ Silent
                \/ "lost_response" \in Faults /\ Returns(c, NoAnswer)
    BY <1>4 DEF Suggest
  <2> DEFINE made == {n} \ {NoId}
             new == [call EXCEPT !.phase = "applied", !.took = absorbed,
                         !.made = made, !.reported = IF reports THEN made ELSE {}]
  <2>2. UNCHANGED <<ledger, history>> /\ made \cap created = {}
    BY <1>4, <2>1 DEF Suggest
  <2>3. new.took = absorbed /\ new.phase = "applied" /\ new.before = call.before
        /\ new.kind # "resolve"
    BY <1>1, <1>4 DEF Call, Suggest
  <2>4. /\ pending' = (pending \ absorbed) \cup made /\ created' = created \cup made
        /\ absorbed \subseteq pending
    BY <2>1
  <2>5. Becomes(c, new) \/ Returns(c, NoAnswer)
    BY <2>1
  <2> HIDE DEF new, made
  <2>6. pending' \subseteq created' /\ created \subseteq created'
        /\ pending' \cap created \subseteq pending
        /\ absorbed \subseteq created' \ pending'
    BY <1>1, <2>2, <2>4
  <2>7. CASE Becomes(c, new)
    BY <1>1, <2>2, <2>3, <2>6, <2>7, EffectSteps
  <2> QED
    BY <1>2, <2>2, <2>5, <2>6, <2>7
<1>5. CASE NoEffect(c)
  <2> DEFINE new == [call EXCEPT !.phase = "applied"]
  <2>1. Becomes(c, new) /\ UNCHANGED <<pending, created, ledger, history>>
    BY <1>5 DEF NoEffect, doc
  <2>2. /\ new.took = call.took /\ new.phase = "applied" /\ new.before = call.before
        /\ new.kind = call.kind /\ new.target = call.target
    BY <1>1 DEF Call
  <2> HIDE DEF new
  <2> QED
    BY <1>1, <2>1, <2>2, EffectSteps
<1>6. CASE Refuse(c)
  <2> DEFINE new == [call EXCEPT !.phase = "missing"]
  <2>1. Becomes(c, new) \/ Returns(c, NoAnswer)
    BY <1>6 DEF Refuse
  <2>2. UNCHANGED <<pending, created, ledger, history>>
    BY <1>6 DEF Refuse, doc
  <2>3. /\ new.took = call.took /\ new.phase = "missing" /\ new.before = call.before
        /\ new.kind = call.kind /\ new.target = call.target
    BY <1>1 DEF Call
  <2> HIDE DEF new
  <2>4. CASE Becomes(c, new)
    BY <1>1, <2>2, <2>3, <2>4, EffectSteps
  <2> QED
    BY <1>1, <1>2, <2>1, <2>2, <2>4
<1>7. CASE ServeRead(c)
  <2>1. UNCHANGED <<pending, created, ledger, history>>
    BY <1>7 DEF ServeRead, doc
  <2>2. PICK coverage \in Served :
          \/ Becomes(c, [call EXCEPT !.phase = "read", !.read = ReadOf(coverage)])
          \/ Becomes(c, [IdleCall EXCEPT !.phase = "read", !.kind = "list",
                                         !.read = ReadOf(coverage)])
    BY <1>7 DEF ServeRead
  <2> DEFINE verifying == [call EXCEPT !.phase = "read", !.read = ReadOf(coverage)]
             listing == [IdleCall EXCEPT !.phase = "read", !.kind = "list",
                                         !.read = ReadOf(coverage)]
  <2>3. Reported(ReadOf(coverage)) \subseteq pending
    BY DEF Served, ReadOf, Reported, NoRead
  <2>4. /\ verifying.took = call.took /\ verifying.read = ReadOf(coverage)
        /\ verifying.before = call.before /\ verifying.kind = call.kind
        /\ verifying.target = call.target
        /\ listing.took = {} /\ listing.read = ReadOf(coverage)
        /\ listing.before.ids = {}
    BY <1>1 DEF Call, IdleCall, NoSnapshot
  <2>5. Effective \cap pending = {} /\ call.took \cap pending = {}
    BY <1>1 DEF EffectInv
  <2> HIDE DEF verifying, listing
  <2>6. CASE Becomes(c, verifying)
    BY <1>1, <2>1, <2>3, <2>4, <2>5, <2>6, EffectSteps
  <2>7. CASE Becomes(c, listing)
    BY <1>1, <2>1, <2>3, <2>4, <2>5, <2>7, EffectSteps
  <2> QED
    BY <2>2, <2>6, <2>7 DEF verifying, listing
<1> QED
  BY <1>3, <1>4, <1>5, <1>6, <1>7 DEF Google

\* Starting a call, other editors and evictions keep it.
LEMMA OthersEffect ==
  ASSUME TypeOK, EffectInv, TypeOK', (\E c \in Calls : Start(c)) \/ Others
  PROVE  EffectInv'
<1>1. ASSUME NEW c \in Calls, Start(c) PROVE EffectInv'
  <2>1. PICK new : /\ new.took = {} /\ new.phase = "sent" /\ new.before = Snapshot(ledger)
                   /\ Becomes(c, new)
    <3>1. PICK kind \in Tools \ {"list"}, verify \in BOOLEAN,
               target \in created \cup Typos :
            Becomes(c, [IdleCall EXCEPT
                       !.phase = "sent", !.kind = kind, !.verify = verify,
                       !.target = IF kind = "resolve" THEN target ELSE NoId,
                       !.before = Snapshot(ledger),
                       !.card = IF kind = "resolve" THEN ledger.records[target]
                                ELSE NoCard])
      BY <1>1 DEF Start
    <3> DEFINE new == [IdleCall EXCEPT
                       !.phase = "sent", !.kind = kind, !.verify = verify,
                       !.target = IF kind = "resolve" THEN target ELSE NoId,
                       !.before = Snapshot(ledger),
                       !.card = IF kind = "resolve" THEN ledger.records[target]
                                ELSE NoCard]
    <3>2. /\ new.took = {} /\ new.phase = "sent" /\ new.before = Snapshot(ledger)
          /\ Becomes(c, new)
      BY <3>1 DEF IdleCall
    <3> QED BY <3>2
  <2>2. UNCHANGED <<pending, created, ledger, history>>
    BY <1>1 DEF Start, doc
  <2>3. Snapshot(ledger).ids \cap history.attested = {}
    BY DEF EffectInv, Snapshot, NoSnapshot
  <2> QED
    BY <2>1, <2>2, <2>3, EffectSteps DEF EffectInv
<1>2. ASSUME UNCHANGED <<ledger, calls, history>>,
             pending' \subseteq created', created \subseteq created',
             pending' \cap created \subseteq pending
      PROVE  EffectInv'
  <2>1. Effective' = Effective /\ (RefutedHadNoEffect' <=> RefutedHadNoEffect)
    BY <1>2 DEF Effective, RefutedHadNoEffect, Filed, OnFile
  <2>2. \A d \in Calls : CallEffect(calls[d]) => CallEffect(calls[d])'
    BY <1>2, <2>1 DEF CallEffect, Reported
  <2> QED
    BY <1>2, <2>1, <2>2 DEF EffectInv
<1>3. CASE Evict
  <2>1. Filed(ledger') = {}
    BY <1>3 DEF Evict, FreshEntry, Filed, OnFile
  <2>2. Effective' = Effective /\ UNCHANGED <<pending, created, calls, history>>
    BY <1>3 DEF Evict, Effective, doc
  <2>3. RefutedHadNoEffect' /\ ledger'.lastReadIds = {}
    BY <1>3, <2>1 DEF RefutedHadNoEffect, Filed, OnFile, Evict, FreshEntry
  <2>4. \A d \in Calls : CallEffect(calls[d]) => CallEffect(calls[d])'
    BY <2>2 DEF CallEffect, Reported
  <2> QED
    BY <2>2, <2>3, <2>4 DEF EffectInv
<1>4. CASE EditorResolves
  BY <1>2, <1>4 DEF EditorResolves, EffectInv
<1>5. CASE EditorSuggests
  BY <1>2, <1>5 DEF EditorSuggests, EffectInv
<1>6. CASE MarksLost
  BY <1>2, <1>6 DEF MarksLost, EffectInv
<1> QED
  BY <1>1, <1>3, <1>4, <1>5, <1>6 DEF Others

\* With one call at a time, "that call did not remove it" is never on file of a card
\* that a write naming it removed, nor "so it cannot be what removed this one" of a card
\* that a write was seen to remove: whatever the coverage of the reads, the losses, the
\* evictions and the other editors' steps.
THEOREM RefutationsAreTrue ==
  ASSUME \A b, d \in Calls : b = d
  PROVE  Spec => []RefutedHadNoEffect
<1>1. Init => EffectInv
  BY IdleEffect DEF Init, EffectInv, CallEffect, Effective, RefutedHadNoEffect, Filed,
                    OnFile, FreshEntry, NoHistory
<1>2. TypeOK /\ TypeOK' /\ EffectInv /\ [Next]_vars => EffectInv'
  <2> SUFFICES ASSUME TypeOK, TypeOK', EffectInv, [Next]_vars PROVE EffectInv'
    OBVIOUS
  <2>1. CASE UNCHANGED vars
    <3>1. EffectInv' <=> EffectInv
      BY <2>1 DEF vars, doc, EffectInv, CallEffect, Effective, RefutedHadNoEffect, Filed,
                  OnFile, Reported
    <3> QED BY <3>1
  <2> QED
    BY <2>1, SessionEffect, GoogleEffect, OthersEffect DEF Next
<1>3. EffectInv => RefutedHadNoEffect
  BY DEF EffectInv
<1> QED
  BY <1>1, <1>2, <1>3, TypeCorrect, PTL DEF Spec

-----------------------------------------------------------------------------
(* Denials, with all resolutions remembered.                                 *)

\* Nothing is dropped when there is room for every id.
LEMMA NothingIsDropped ==
  ASSUME Cardinality(Ids) <= MaxResolutions, NEW e \in Entry, Ordered(e),
         NEW action \in Actions, NEW sid \in Ids \cup {NoId},
         NEW collateral \in SUBSET Ids, NEW landed, NEW cause
  PROVE  Filed(RecordResolution(e, action, sid, collateral, landed, cause))
           = Filed(e) \cup Recorded(sid, collateral, cause)
<1> DEFINE recorded == Recorded(sid, collateral, cause)
           place == Reordered(e, sid, recorded)
           all == Filed(e) \cup recorded
           r == RecordResolution(e, action, sid, collateral, landed, cause)
<1>1. recorded \in SUBSET Ids /\ all \in SUBSET Ids
  BY DEF Recorded, Filed
<1>2. Numbers(place, all)
  BY <1>1, ReorderedNumbers DEF Ordered
<1>3. {s \in Ids : place[s] > 0} = all
  BY <1>1, <1>2 DEF Numbers
<1>4. Cardinality(all) <= Cardinality(Ids) /\ Cardinality(all) \in Nat
      /\ Cardinality(Ids) \in Nat
  BY <1>1, IdsAssumption, FS_Subset, FS_CardinalityType
<1>5. Overflow(place) = 0
  <2> HIDE DEF place, all
  <2> QED
    BY <1>3, <1>4, MaxResolutionsAssumption DEF Overflow
<1>6. \A s \in Ids : r.resolutions[s] =
           IF place[s] > 0
           THEN IF s \in recorded
                THEN [action |-> action, direct |-> s = sid, landed |-> landed]
                ELSE e.resolutions[s]
           ELSE NoResolution
  BY <1>5 DEF RecordResolution, Entry
<1>7. \A s \in recorded :
        [action |-> action, direct |-> s = sid, landed |-> landed] # NoResolution
  BY DEF NoResolution, Actions
<1> HIDE DEF r, place, recorded
<1>8. \A s \in Ids : OnFile(r, s) <=> s \in all
  BY <1>2, <1>6, <1>7, ZenonT(30) DEF Numbers, OnFile, Filed
<1>9. Filed(r) = all
  BY <1>1, <1>8 DEF Filed
<1> QED
  BY <1>9 DEF r, recorded

\* Every removal in the history is on file.
Remembered == Ordered(ledger) /\ Effective \subseteq Filed(ledger)

\* The ladder answers from the record of an id that is on file.
LEMMA RecordedIsKnown ==
  ASSUME NEW e \in Entry, NEW s \in Filed(e)
  PROVE  /\ ExplainMissing(e, s) \notin Unaware
         /\ ExplainMissing(e, s) \in Denials => e.resolutions[s].landed = No
<1> DEFINE r == e.resolutions[s]
<1>1. r \in Resolution
  BY DEF Filed, OnFile, Entry
<1>2. ExplainMissing(e, s) = "not_read" \/ ExplainMissing(e, s) = RecordedRung(r)
  BY DEF ExplainMissing, Filed
<1>3. r.landed = Yes \/ r.landed = No \/ r.landed = Unknown
  BY <1>1 DEF Resolution, Tri
<1>4. "not_read" \notin Denials /\ "not_read" \notin Unaware
  BY DEF Denials, Unaware
<1> HIDE DEF r
<1>5. RecordedRung(r) \notin Unaware /\ (RecordedRung(r) \in Denials => r.landed = No)
  BY <1>3 DEF RecordedRung, Denials, Unaware, Yes, No, Unknown
<1>6. ExplainMissing(e, s) \notin Unaware
      /\ (ExplainMissing(e, s) \in Denials => r.landed = No)
  BY <1>2, <1>4, <1>5
<1> QED
  BY <1>6 DEF r

\* Only the explanation of a 404 is on a rung.
LEMMA OnlyExplainAnswers ==
  ASSUME TypeOK, [Next]_vars
  PROVE  \/ last'.rung = "none"
         \/ UNCHANGED vars
         \/ \E c \in Calls : /\ Explain(c) /\ UNCHANGED <<ledger, history>>
                             /\ last'.rung = ExplainMissing(ledger, calls[c].target)
                             /\ last'.target = calls[c].target /\ calls[c].target \in Ids
<1>1. ASSUME NEW c \in Calls, Explain(c)
      PROVE  /\ UNCHANGED <<ledger, history>> /\ calls[c].target \in Ids
             /\ last'.rung = ExplainMissing(ledger, calls[c].target)
             /\ last'.target = calls[c].target
  BY <1>1, CallFacts DEF Explain, Returns, NoAnswer, Call
<1>2. ASSUME NEW c \in Calls, Session(c), ~Explain(c) PROVE last'.rung = "none"
  <2>1. CASE FinishList(c) \/ FinishUnverified(c)
    BY <2>1 DEF FinishList, FinishUnverified, Returns, NoAnswer
  <2>2. CASE FinishResolve(c)
    <3>1. PICK still, matches, removed, coverage :
            Returns(c, [NoAnswer EXCEPT !.stillPending = still, !.matches = matches,
                                        !.removed = removed, !.coverage = coverage])
      BY <2>2 DEF FinishResolve
    <3> QED
      BY <3>1 DEF Returns, NoAnswer
  <2>3. CASE FinishSuggest(c)
    <3>1. PICK removed, echoed, coverage :
            Returns(c, [NoAnswer EXCEPT !.removed = removed, !.echoed = echoed,
                                        !.coverage = coverage])
      BY <2>3 DEF FinishSuggest
    <3> QED
      BY <3>1 DEF Returns, NoAnswer
  <2> QED
    BY <1>2, <2>1, <2>2, <2>3 DEF Session
<1>3. ASSUME NEW c \in Calls, Google(c) PROVE last'.rung = "none"
  <2>1. Silent \/ Returns(c, NoAnswer)
    <3>1. CASE Resolve(c)
      BY <3>1, Zenon DEF Resolve
    <3>2. CASE Suggest(c)
      BY <3>2, Zenon DEF Suggest
    <3>3. CASE NoEffect(c) \/ Refuse(c) \/ ServeRead(c)
      BY <3>3 DEF NoEffect, Refuse, ServeRead
    <3> QED
      BY <1>3, <3>1, <3>2, <3>3 DEF Google
  <2>2. ASSUME Returns(c, NoAnswer) PROVE last'.rung = "none"
    BY <2>2 DEF Returns, NoAnswer
  <2>3. ASSUME Silent PROVE last'.rung = "none"
    BY <2>3 DEF Silent, NoAnswer
  <2> QED
    BY <2>1, <2>2, <2>3
<1>4. ASSUME NEW c \in Calls, Start(c) PROVE last'.rung = "none"
  BY <1>4 DEF Start, Silent, NoAnswer
<1>5. ASSUME Others PROVE last'.rung = "none"
  BY <1>5 DEF Others, Evict, EditorResolves, EditorSuggests, MarksLost, Silent, NoAnswer
<1> QED
  BY <1>1, <1>2, <1>3, <1>4, <1>5 DEF Next

\* A card this session removed by name, or saw go, is never answered as if the session
\* had done nothing to it, for any number of calls in flight, as long as the ledger
\* forgets nothing.
OwnRemovalIsKnown == last.rung \in Unaware => last.target \notin Effective

THEOREM RemovalsAreKnown ==
  ASSUME "evicted" \notin Faults, Cardinality(Ids) <= MaxResolutions
  PROVE  Spec => []OwnRemovalIsKnown
<1> DEFINE Good == Remembered /\ OwnRemovalIsKnown
<1>1. Init => Good
  BY FreshOrders DEF Init, Remembered, Effective, OwnRemovalIsKnown, NoAnswer, Unaware,
                     NoHistory
<1>2. TypeOK /\ Good /\ [Next]_vars => Good'
  <2> SUFFICES ASSUME TypeOK, Remembered, OwnRemovalIsKnown, [Next]_vars
               PROVE  Remembered' /\ OwnRemovalIsKnown'
    OBVIOUS
  <2>1. ledger \in Entry
    BY DEF TypeOK
  <2>2. Ordered(ledger')
    BY OrderStep DEF Remembered
  <2>3. Remembered'
    <3>1. Ordered(ledger)' <=> Ordered(ledger')
      BY DEF Ordered, Numbers, Filed, OnFile
    <3>2. ASSUME NEW c \in Calls, Session(c) PROVE Effective' \subseteq Filed(ledger')
      <4>1. PICK filed \in Entry : (Keeps(filed) \/ Files(c, filed)) /\ Observes(c, filed)
        BY <3>2, SessionLedger
      <4>2. Effective' \subseteq Filed(filed)
        <5>1. CASE Keeps(filed)
          BY <5>1 DEF Keeps, Remembered, Effective
        <5>2. CASE Files(c, filed)
          <6>1. PICK action \in Actions, sid \in Ids \cup {NoId},
                     collateral \in SUBSET Ids, landed \in Tri, cause \in Ids \cup {NoId} :
                  /\ filed = RecordResolution(ledger, action, sid, collateral, landed, cause)
                  /\ Learns(c, Recorded(sid, collateral, cause))
            BY <5>2 DEF Files
          <6>2. Filed(filed) = Filed(ledger) \cup Recorded(sid, collateral, cause)
            BY <2>1, <6>1, NothingIsDropped DEF Remembered
          <6> QED
            BY <6>1, <6>2 DEF Effective, Remembered, Learns
        <5> QED
          BY <4>1, <5>1, <5>2
      <4>3. Filed(ledger') = Filed(filed)
        BY <4>1, ObserveFiles DEF Observes
      <4> QED
        BY <4>2, <4>3
    <3>3. ASSUME UNCHANGED <<ledger, history>> PROVE Effective' \subseteq Filed(ledger')
      BY <3>3 DEF Effective, Remembered
    <3>4. Effective' \subseteq Filed(ledger')
      BY <3>2, <3>3, OthersLedger
    <3>5. Filed(ledger)' = Filed(ledger')
      BY DEF Filed, OnFile
    <3> QED
      BY <2>2, <3>1, <3>4, <3>5 DEF Remembered
  <2>4. OwnRemovalIsKnown'
    <3>1. CASE last'.rung = "none"
      BY <3>1 DEF OwnRemovalIsKnown, Unaware
    <3>2. CASE UNCHANGED vars
      BY <3>2 DEF vars, OwnRemovalIsKnown, Effective
    <3>3. CASE \E c \in Calls :
                 /\ Explain(c) /\ UNCHANGED <<ledger, history>>
                 /\ last'.rung = ExplainMissing(ledger, calls[c].target)
                 /\ last'.target = calls[c].target /\ calls[c].target \in Ids
      BY <2>1, <3>3, RecordedIsKnown DEF OwnRemovalIsKnown, Remembered, Effective
    <3> QED
      BY <3>1, <3>2, <3>3, OnlyExplainAnswers
  <2> QED
    BY <2>3, <2>4
<1>3. Good => OwnRemovalIsKnown
  OBVIOUS
<1> HIDE DEF Good
<1> QED
  BY <1>1, <1>2, <1>3, TypeCorrect, PTL DEF Spec

\* With one call at a time: a card this session removed and saw gone right after is
\* never put down to other editors either, by no rung of the ladder.
THEOREM DenialsAreTrue ==
  ASSUME "evicted" \notin Faults, Cardinality(Ids) <= MaxResolutions,
         \A b, d \in Calls : b = d
  PROVE  Spec => []OwnRemovalIsNotDenied
<1>1. Init => OwnRemovalIsNotDenied
  BY DEF Init, OwnRemovalIsNotDenied, NoAnswer, Denials, Unaware
<1>2. /\ TypeOK /\ RefutedHadNoEffect /\ OwnRemovalIsNotDenied
      /\ OwnRemovalIsKnown' /\ [Next]_vars
      => OwnRemovalIsNotDenied'
  <2> SUFFICES ASSUME TypeOK, RefutedHadNoEffect, OwnRemovalIsNotDenied,
                      OwnRemovalIsKnown', [Next]_vars
               PROVE  last'.rung \in Denials => last'.target \notin history'.attested
    BY DEF OwnRemovalIsNotDenied, OwnRemovalIsKnown, Effective
  <2>1. CASE last'.rung = "none"
    BY <2>1 DEF Denials, Unaware
  <2>2. CASE UNCHANGED vars
    BY <2>2 DEF vars, OwnRemovalIsNotDenied
  <2>3. CASE \E c \in Calls :
               /\ Explain(c) /\ UNCHANGED <<ledger, history>>
               /\ last'.rung = ExplainMissing(ledger, calls[c].target)
               /\ last'.target = calls[c].target /\ calls[c].target \in Ids
    <3> SUFFICES ASSUME last'.rung \in Denials, last'.target \in history.attested
                 PROVE  FALSE
      BY <2>3
    <3> DEFINE s == last'.target
    <3>1. /\ s \in Ids /\ ledger \in Entry /\ last'.rung = ExplainMissing(ledger, s)
          /\ history' = history
      BY <2>3 DEF TypeOK
    <3>2. last'.rung \notin Unaware
      BY <3>1 DEF OwnRemovalIsKnown, Effective
    <3>3. s \in Filed(ledger)
      <4>1. last'.rung = "direct_refuted" \/ last'.rung = "collateral_refuted"
        BY <3>2 DEF Denials
      <4> QED
        BY <3>1, <4>1 DEF ExplainMissing, UnrecordedRung, Filed
    <3>4. ledger.resolutions[s].landed = No
      BY <3>1, <3>3, RecordedIsKnown
    <3> QED
      BY <3>3, <3>4 DEF RefutedHadNoEffect
  <2> QED
    BY <2>1, <2>2, <2>3, OnlyExplainAnswers
<1> QED
  BY <1>1, <1>2, TypeCorrect, RefutationsAreTrue, RemovalsAreKnown, PTL DEF Spec

-----------------------------------------------------------------------------
(* The document of a review session is a SuggestionRegistry: whatever is     *)
(* proved of a session about ids that never return holds over any document   *)
(* that keeps that promise, and SuggestionDoc, the document the tools are    *)
(* tested against, is shown to keep it.                                      *)

Registry == INSTANCE SuggestionRegistry

\* A step of the session is a step of the registry, or none: tool calls, reads,
\* the ledger and the loss of a card's marks are invisible to it.
LEMMA RegistryStep ==
  ASSUME TypeOK, TypeOK', pending \subseteq created, [Next]_vars
  PROVE  [Registry!Next]_Registry!vars
<1> DEFINE Good == [Registry!Next]_Registry!vars
<1>1. ASSUME UNCHANGED <<pending, created>> PROVE Good
  BY <1>1 DEF Registry!vars
<1>2. ASSUME NEW took \in SUBSET pending, took # {},
             pending' = pending \ took, created' = created
      PROVE  Good
  BY <1>2 DEF Registry!Next, Registry!Close
<1>3. ASSUME NEW n \in Ids \ created, NEW absorbed \in SUBSET pending,
             pending' = (pending \ absorbed) \cup {n}, created' = created \cup {n}
      PROVE  Good
  <2>1. created' \in SUBSET Ids
    BY DEF TypeOK
  <2> QED
    BY <1>3, <2>1 DEF Registry!Next, Registry!Propose
<1>4. ASSUME NEW c \in Calls, Resolve(c) PROVE Good
  <2>1. PICK others \in SUBSET (pending \ {calls[c].target}) :
          pending' = pending \ (others \cup {calls[c].target})
    BY <1>4 DEF Resolve
  <2>2. calls[c].target \in pending /\ created' = created
    BY <1>4 DEF Resolve
  <2> QED
    BY <1>2, <2>1, <2>2
<1>5. ASSUME NEW c \in Calls, Suggest(c) PROVE Good
  <2>1. PICK n \in (Mine \ created) \cup {NoId},
             absorbed \in SUBSET (pending \cap Mine) :
          /\ n = NoId => absorbed = {}
          /\ pending' = (pending \ absorbed) \cup ({n} \ {NoId})
          /\ created' = created \cup ({n} \ {NoId})
    BY <1>5 DEF Suggest
  <2>2. CASE n = NoId
    BY <1>1, <2>1, <2>2
  <2>3. CASE n # NoId
    <3>1. n \in Ids \ created
      BY <2>1, <2>3, SessionAssumption
    <3>2. {n} \ {NoId} = {n}
      BY <2>3
    <3> QED
      BY <1>3, <2>1, <3>1, <3>2
  <2> QED
    BY <2>2, <2>3
<1>6. ASSUME EditorResolves PROVE Good
  <2>1. PICK took \in (SUBSET pending) \ {{}} : pending' = pending \ took
    BY <1>6 DEF EditorResolves
  <2> QED
    BY <1>2, <1>6, <2>1 DEF EditorResolves
<1>7. ASSUME EditorSuggests PROVE Good
  <2>1. PICK n \in Ids \ (created \cup Typos) :
          pending' = pending \cup {n} /\ created' = created \cup {n}
    BY <1>7 DEF EditorSuggests
  <2>2. n \in Ids \ created /\ {} \in SUBSET pending
    BY <2>1
  <2>3. pending' = (pending \ {}) \cup {n}
    BY <2>1
  <2> QED
    BY <1>3, <2>1, <2>2, <2>3
<1>8. ASSUME MarksLost \/ Evict PROVE Good
  BY <1>1, <1>8 DEF MarksLost, Evict, doc
<1>9. ASSUME NEW c \in Calls, \/ Start(c) \/ NoEffect(c) \/ Refuse(c) \/ ServeRead(c)
                             \/ Session(c)
      PROVE  Good
  <2>1. UNCHANGED doc
    BY <1>9 DEF Start, NoEffect, Refuse, ServeRead, Session, FinishList,
                FinishUnverified, FinishResolve, FinishSuggest, Explain, doc
  <2> QED
    BY <1>1, <2>1 DEF doc
<1>10. ASSUME UNCHANGED vars PROVE Good
  BY <1>1, <1>10 DEF vars
<1> HIDE DEF Good
<1>11. Good
  BY <1>4, <1>5, <1>6, <1>7, <1>8, <1>9, <1>10 DEF Next, Google, Others
<1> QED
  BY <1>11 DEF Good

\* A review session implements the registry.
THEOREM ImplementsRegistry == Spec => Registry!Spec
<1>1. Init => Registry!Init
  BY SessionAssumption DEF Init, Registry!Init
<1> DEFINE Opened == pending \subseteq created
<1>2. Init => Opened
  BY DEF Init
<1>3. ASSUME TypeOK, TypeOK', Opened, [Next]_vars
      PROVE  Opened' /\ [Registry!Next]_Registry!vars
  <2>1. [Registry!Next]_Registry!vars
    BY <1>3, RegistryStep
  <2>2. Opened'
    BY <1>3, <2>1 DEF Registry!Next, Registry!Propose, Registry!Close, Registry!vars
  <2> QED
    BY <2>1, <2>2
<1> HIDE DEF Opened
<1> QED
  BY <1>1, <1>2, <1>3, TypeCorrect, PTL DEF Spec, Registry!Spec

\* A suggestion that left the document never comes back: the fact about Google
\* that makes the evidence of an old read last.
THEOREM IdsNeverReturn == Spec => Registry!NeverReturns
<1> DEFINE Opened == pending \subseteq created
<1>1. Registry!Init => Opened
  BY DEF Registry!Init
<1>2. ASSUME Opened, [Registry!Next]_Registry!vars
      PROVE  Opened' /\ [(created \ pending) \cap pending' = {}]_Registry!vars
  BY <1>2 DEF Registry!Next, Registry!Propose, Registry!Close, Registry!vars
<1> HIDE DEF Opened
<1>3. Registry!Spec => Registry!NeverReturns
  BY <1>1, <1>2, PTL DEF Registry!Spec, Registry!NeverReturns
<1> QED
  BY <1>3, ImplementsRegistry, PTL
=============================================================================
