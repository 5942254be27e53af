----------------------- MODULE ReadBeforeWriteProofs -----------------------
(***************************************************************************)
(* What the tools that read before they write promise, for every value of  *)
(* the constants: what their caller did not name stays what it is.         *)
(***************************************************************************)
EXTENDS ReadBeforeWrite, Counting, FunctionTheorems, SequenceTheorems

-----------------------------------------------------------------------------
(* Events                                                                  *)

\* A value is of a write there has been.
SeenInTime(k, n) == /\ \A f \in Calendar!Fields : k.seen[f] <= n
                    /\ k.does # "nothing" => k.id \in CalendarEvents

CalendarInv ==
    /\ calendarWrites \in 0..CalendarMaxWrites
    /\ calendarEvent \in [CalendarEvents -> Calendar!Event \cup {Unused, Deleted}]
    /\ calendarCall \in [CalendarCalls -> Calendar!Call]
    /\ \A e \in CalendarEvents : Calendar!Exists(e)
         => \A f \in Calendar!Fields : calendarEvent[e].val[f] <= calendarWrites
    /\ \A c \in CalendarCalls : SeenInTime(calendarCall[c], calendarWrites)

\* No body copies a time or the conference.
LEMMA WhatIsCopied ==
  ASSUME CalendarConstants, NEW does,
         does \in {"modify", "modify_blind", "rsvp", "update_typed"},
         NEW body \in Calendar!Bodies(does)
  PROVE  "when" \notin body[2] /\ "conference" \notin body[2]
<1>1. CASE does = "modify"
  BY <1>1 DEF Calendar!Bodies, Calendar!Copied, CalendarConstants
<1>2. CASE does = "modify_blind"
  BY <1>2 DEF Calendar!Bodies
<1>3. CASE does = "rsvp"
  BY <1>3 DEF Calendar!Bodies, CalendarConstants
<1>4. CASE does = "update_typed"
  BY <1>4 DEF Calendar!Bodies, Calendar!Props
<1> QED
  BY <1>1, <1>2, <1>3, <1>4

\* So it is from the start, whatever a step does, and this is what is promised.
LEMMA CalendarBegin ==
  ASSUME CalendarConstants, Calendar!Init
  PROVE  CalendarInv
<1>1. Calendar!Idle \in Calendar!Call /\ \A f \in Calendar!Fields : Calendar!Idle.seen[f] = 0
  BY DEF Calendar!Idle, Calendar!Call, Calendar!NotSeen, CalendarConstants
<1>2. Calendar!Idle.does = "nothing"
  BY DEF Calendar!Idle
<1> QED
  BY <1>1, <1>2 DEF Calendar!Init, CalendarInv, Calendar!Exists, CalendarConstants, SeenInTime

\* What a write leaves of an event.
LEMMA EventRewritten ==
  ASSUME CalendarConstants, CalendarInv, NEW e \in CalendarEvents, Calendar!Exists(e),
         calendarWrites < CalendarMaxWrites,
         calendarWrites' = calendarWrites + 1, NEW asks, NEW copied,
         NEW seen \in [Calendar!Fields -> 0..CalendarMaxWrites],
         "when" \notin copied, "conference" \notin copied,
         \A f \in Calendar!Fields : seen[f] <= calendarWrites,
         calendarEvent' = Calendar!Patched(e, asks, copied, seen),
         calendarCall' \in [CalendarCalls -> Calendar!Call],
         \A c \in CalendarCalls : SeenInTime(calendarCall'[c], calendarWrites)
  PROVE  CalendarInv' /\ Calendar!NothingElseRollsBack
<1> DEFINE val == [f \in Calendar!Fields |-> IF f \in asks THEN calendarWrites + 1
                                    ELSE IF f \in copied
                                           THEN seen[f] ELSE calendarEvent[e].val[f]]
<1>1. /\ calendarEvent[e] \in Calendar!Event
      /\ calendarEvent[e].val \in [Calendar!Fields -> 0..CalendarMaxWrites]
  BY DEF CalendarInv, Calendar!Exists, Calendar!Event
<1>2. /\ val \in [Calendar!Fields -> 0..CalendarMaxWrites]
      /\ \A f \in Calendar!Fields : val[f] <= calendarWrites + 1
  BY <1>1 DEF CalendarInv, CalendarConstants
<1>3. /\ calendarEvent' = [calendarEvent EXCEPT ![e] = [calendarEvent[e] EXCEPT !.val = val]]
  BY <1>1 DEF Calendar!Patched, CalendarInv, Calendar!Event
<1>4. [calendarEvent[e] EXCEPT !.val = val] \in Calendar!Event
  BY <1>1, <1>2 DEF Calendar!Event
<1>5. [calendarEvent[e] EXCEPT !.val = val].val = val
  BY <1>1 DEF Calendar!Event
<1>6. calendarEvent' \in [CalendarEvents -> Calendar!Event \cup {Unused, Deleted}]
      /\ calendarEvent'[e] = [calendarEvent[e] EXCEPT !.val = val]
      /\ \A g \in CalendarEvents \ {e} : calendarEvent'[g] = calendarEvent[g]
  BY <1>3, <1>4 DEF CalendarInv
<1>7. CalendarInv'
  <2>1. ASSUME NEW g \in CalendarEvents, Calendar!Exists(g)', NEW f \in Calendar!Fields
        PROVE  calendarEvent'[g].val[f] <= calendarWrites'
    <3>1. CASE g = e
      BY <1>2, <1>5, <1>6, <3>1
    <3>2. CASE g # e
      <4>1. /\ calendarEvent[g] \in Calendar!Event /\ calendarEvent[g].val[f] <= calendarWrites
            /\ calendarEvent'[g] = calendarEvent[g]
        BY <1>6, <2>1, <3>2 DEF CalendarInv, Calendar!Exists
      <4>2. calendarEvent[g].val[f] \in 0..CalendarMaxWrites
        BY <4>1 DEF Calendar!Event
      <4> QED
        BY <4>1, <4>2 DEF CalendarInv, CalendarConstants
    <3> QED
      BY <3>1, <3>2
  <2>2. ASSUME NEW c \in CalendarCalls
        PROVE  SeenInTime(calendarCall'[c], calendarWrites')
    <3>1. \A f \in Calendar!Fields : calendarCall'[c].seen[f] \in 0..CalendarMaxWrites
      BY DEF Calendar!Call
    <3> QED
      BY <3>1 DEF CalendarInv, CalendarConstants, SeenInTime
  <2> QED
    BY <1>6, <2>1, <2>2 DEF CalendarInv, CalendarConstants
<1>8. Calendar!NothingElseRollsBack
  <2>1. \A f \in {"when", "conference"} :
           f \in Calendar!Fields /\ val[f] >= calendarEvent[e].val[f]
    BY <1>1 DEF Calendar!Fields, CalendarInv, CalendarConstants
  <2>2. \A g \in CalendarEvents \ {e} : Calendar!Exists(g) => \A f \in {"when", "conference"} :
           calendarEvent'[g].val[f] >= calendarEvent[g].val[f]
    BY <1>6 DEF Calendar!Fields, CalendarInv, Calendar!Exists, Calendar!Event, CalendarConstants
  <2>3. calendarEvent[e] # Deleted
    BY DEF Calendar!Exists
  <2> QED
    BY <1>5, <1>6, <2>1, <2>2, <2>3 DEF Calendar!NothingElseRollsBack
<1> QED
  BY <1>7, <1>8

\* What is left of a calendar in which an event is put in or taken away, or nothing is.
LEMMA EventLeft ==
  ASSUME CalendarConstants, CalendarInv,
         calendarWrites' \in {calendarWrites, calendarWrites + 1},
         calendarWrites' <= CalendarMaxWrites,
         \/ UNCHANGED calendarEvent
         \/ \E e \in CalendarEvents :
              \/ Calendar!Exists(e) /\ calendarEvent' = [calendarEvent EXCEPT ![e] = Deleted]
              \/ \E new \in Calendar!Event :
                   /\ calendarEvent[e] = Unused
                   /\ calendarEvent' = [calendarEvent EXCEPT ![e] = new]
                   /\ \A f \in Calendar!Fields : new.val[f] <= calendarWrites',
         calendarCall' \in [CalendarCalls -> Calendar!Call],
         \A c \in CalendarCalls : SeenInTime(calendarCall'[c], calendarWrites)
  PROVE  CalendarInv' /\ Calendar!NothingElseRollsBack
<1>1. /\ calendarWrites \in Nat /\ calendarWrites' \in 0..CalendarMaxWrites
      /\ calendarWrites' >= calendarWrites
  BY DEF CalendarInv, CalendarConstants
<1>2. calendarEvent' \in [CalendarEvents -> Calendar!Event \cup {Unused, Deleted}]
  BY DEF CalendarInv
<1>3. ASSUME NEW e \in CalendarEvents
      PROVE  \/ calendarEvent'[e] = calendarEvent[e]
             \/ Calendar!Exists(e) /\ calendarEvent'[e] = Deleted
             \/ calendarEvent[e] = Unused
                  /\ \A f \in Calendar!Fields : calendarEvent'[e].val[f] <= calendarWrites'
  BY DEF CalendarInv, Calendar!Exists
<1>4. ASSUME NEW e \in CalendarEvents, Calendar!Exists(e)', NEW f \in Calendar!Fields
      PROVE  calendarEvent'[e].val[f] <= calendarWrites'
  <2>1. CASE calendarEvent'[e] = calendarEvent[e]
    <3>1. calendarEvent[e] \in Calendar!Event /\ calendarEvent[e].val[f] <= calendarWrites
      BY <1>4, <2>1 DEF CalendarInv, Calendar!Exists
    <3>2. calendarEvent[e].val[f] \in 0..CalendarMaxWrites
      BY <3>1 DEF Calendar!Event
    <3> QED
      BY <1>1, <2>1, <3>1, <3>2 DEF CalendarConstants
  <2> QED
    BY <1>3, <1>4, <2>1 DEF Calendar!Exists
<1>5. ASSUME NEW c \in CalendarCalls
      PROVE  SeenInTime(calendarCall'[c], calendarWrites')
  <2>1. \A f \in Calendar!Fields : calendarCall'[c].seen[f] \in 0..CalendarMaxWrites
    BY DEF Calendar!Call
  <2> QED
    BY <1>1, <2>1 DEF CalendarConstants, SeenInTime
<1>6. CalendarInv'
  BY <1>1, <1>2, <1>4, <1>5 DEF CalendarInv
<1>7. ASSUME NEW e \in CalendarEvents
      PROVE  /\ calendarEvent[e] = Deleted => calendarEvent'[e] = Deleted
             /\ Calendar!Exists(e) /\ calendarEvent'[e] # Deleted =>
                  \A f \in {"when", "conference"} :
                         calendarEvent'[e].val[f] >= calendarEvent[e].val[f]
  <2>1. Calendar!Exists(e) => \A f \in {"when", "conference"} : calendarEvent[e].val[f] \in Nat
    BY DEF CalendarInv, Calendar!Exists, Calendar!Event, Calendar!Fields
  <2> QED
    BY <1>3, <2>1 DEF Calendar!Exists, CalendarConstants
<1> QED
  BY <1>6, <1>7 DEF Calendar!NothingElseRollsBack

\* A step of a calendar keeps the invariant and takes no time and no conference back.
LEMMA CalendarStep ==
  ASSUME CalendarConstants, CalendarInv, Calendar!Next
  PROVE  CalendarInv' /\ Calendar!NothingElseRollsBack
<1> USE DEF CalendarConstants
<1>1. /\ Calendar!Idle \in Calendar!Call
      /\ Calendar!NotSeen \in [Calendar!Fields -> 0..CalendarMaxWrites]
      /\ Calendar!Idle.does = "nothing"
      /\ \A f \in Calendar!Fields : Calendar!NotSeen[f] = 0 /\ Calendar!Idle.seen[f] = 0
  BY DEF Calendar!Idle, Calendar!Call, Calendar!NotSeen
<1>2. ASSUME NEW e \in CalendarEvents, NEW kind \in Calendar!Kinds,
             NEW role \in {"organizer", "guest", "neither"},
             Calendar!Insert(e, kind, role), UNCHANGED calendarCall
      PROVE  CalendarInv' /\ Calendar!NothingElseRollsBack
  <2> DEFINE new == [kind |-> kind, role |-> role,
         val |-> [f \in Calendar!Fields |-> calendarWrites + 1]]
  <2>1. new \in Calendar!Event /\ \A f \in Calendar!Fields : new.val[f] = calendarWrites + 1
    BY <1>2 DEF Calendar!Event, Calendar!Insert, CalendarInv
  <2>2. /\ calendarEvent[e] = Unused /\ calendarEvent' = [calendarEvent EXCEPT ![e] = new]
        /\ calendarWrites' = calendarWrites + 1
        /\ calendarWrites' <= CalendarMaxWrites
    BY <1>2 DEF Calendar!Insert, CalendarInv
  <2>3. \A f \in Calendar!Fields : new.val[f] <= calendarWrites'
    BY <2>1, <2>2 DEF CalendarInv
  <2> HIDE DEF new
  <2>4. /\ calendarCall' \in [CalendarCalls -> Calendar!Call]
        /\ \A c \in CalendarCalls : SeenInTime(calendarCall'[c], calendarWrites)
    BY <1>2 DEF CalendarInv
  <2> QED
    BY <2>1, <2>2, <2>3, <2>4, EventLeft
<1>3. ASSUME NEW c \in CalendarCalls, NEW e \in CalendarEvents,
             NEW does \in {"modify", "modify_blind", "rsvp", "update_typed", "delete"},
             NEW seen,
             Calendar!Begin(c, e, does, seen), seen = Calendar!NotSeen
                    \/ (Calendar!Exists(e) /\ seen = calendarEvent[e].val)
      PROVE  CalendarInv' /\ Calendar!NothingElseRollsBack
  <2>1. /\ seen \in [Calendar!Fields -> 0..CalendarMaxWrites]
        /\ \A f \in Calendar!Fields : seen[f] <= calendarWrites
    BY <1>1, <1>3 DEF CalendarInv, Calendar!Exists, Calendar!Event
  <2> DEFINE k == [does |-> does, id |-> e, seen |-> seen]
  <2>2. k \in Calendar!Call /\ SeenInTime(k, calendarWrites)
    BY <2>1 DEF Calendar!Call, SeenInTime
  <2>3. /\ calendarCall' = [calendarCall EXCEPT ![c] = k]
        /\ UNCHANGED <<calendarEvent, calendarWrites>>
    BY <1>3 DEF Calendar!Begin
  <2> HIDE DEF k
  <2>4. /\ calendarCall' \in [CalendarCalls -> Calendar!Call]
        /\ \A d \in CalendarCalls : SeenInTime(calendarCall'[d], calendarWrites)
    BY <2>1, <2>2, <2>3 DEF CalendarInv
  <2> QED
    BY <2>3, <2>4, EventLeft DEF CalendarInv
<1>4. ASSUME NEW e \in CalendarEvents,
             Calendar!ManageEvent(e) \/ Calendar!ManageOutOfOffice(e)
                                          \/ Calendar!ManageFocusTime(e)
      PROVE  CalendarInv' /\ Calendar!NothingElseRollsBack
  <2>1. CASE \E kind \in Calendar!Kinds, role \in {"organizer", "guest", "neither"} :
               Calendar!Insert(e, kind, role) /\ UNCHANGED calendarCall
    BY <2>1, <1>2
  <2>2. CASE \E c \in CalendarCalls,
         does \in {"modify", "modify_blind", "rsvp", "update_typed", "delete"} :
               \/ Calendar!Begin(c, e, does, Calendar!NotSeen)
               \/ Calendar!Exists(e) /\ Calendar!Begin(c, e, does, calendarEvent[e].val)
    BY <2>2, <1>3
  <2>3. CASE Calendar!ManageEvent(e)
    BY <2>1, <2>2, <2>3 DEF Calendar!ManageEvent, Calendar!CreateEvent, Calendar!Kinds,
       Calendar!ModifyEvent, Calendar!DeleteEvent, Calendar!RsvpEvent
  <2>4. CASE Calendar!ManageOutOfOffice(e)
    BY <2>1, <2>2, <2>4 DEF Calendar!ManageOutOfOffice, Calendar!CreateOutOfOffice,
       Calendar!Kinds, Calendar!UpdateOutOfOffice,
       Calendar!DeleteOutOfOffice, Calendar!Typed
  <2>5. CASE Calendar!ManageFocusTime(e)
    BY <2>1, <2>2, <2>5 DEF Calendar!ManageFocusTime, Calendar!CreateFocusTime, Calendar!Kinds,
       Calendar!UpdateFocusTime,
       Calendar!DeleteFocusTime, Calendar!Typed
  <2> QED
    BY <1>4, <2>3, <2>4, <2>5
<1>5. ASSUME NEW c \in CalendarCalls, calendarCall' = [calendarCall EXCEPT ![c] = Calendar!Idle]
      PROVE  /\ calendarCall' \in [CalendarCalls -> Calendar!Call]
             /\ \A d \in CalendarCalls : SeenInTime(calendarCall'[d], calendarWrites)
  <2>1. SeenInTime(Calendar!Idle, calendarWrites)
    BY <1>1 DEF SeenInTime, CalendarInv
  <2> QED
    BY <1>1, <1>5, <2>1 DEF CalendarInv
<1>6. ASSUME NEW c \in CalendarCalls, calendarCall[c].does # "nothing"
      PROVE  /\ calendarCall[c].id \in CalendarEvents
             /\ calendarCall[c].seen \in [Calendar!Fields -> 0..CalendarMaxWrites]
             /\ \A f \in Calendar!Fields : calendarCall[c].seen[f] <= calendarWrites
             /\ calendarCall[c].does
                  \in {"modify", "modify_blind", "rsvp", "update_typed", "delete"}
  BY <1>6 DEF CalendarInv, Calendar!Call, SeenInTime
<1>7. ASSUME NEW c \in CalendarCalls, Calendar!Patch(c)
      PROVE  CalendarInv' /\ Calendar!NothingElseRollsBack
  <2>1. CASE UNCHANGED <<calendarEvent, calendarWrites>>
    <3>1. calendarCall' = [calendarCall EXCEPT ![c] = Calendar!Idle]
      BY <1>7 DEF Calendar!Patch
    <3>2. /\ calendarWrites' \in {calendarWrites, calendarWrites + 1}
          /\ calendarWrites' <= CalendarMaxWrites
      BY <2>1 DEF CalendarInv
    <3> QED
      BY <1>5, <2>1, <3>1, <3>2, EventLeft
  <2>2. CASE ~UNCHANGED <<calendarEvent, calendarWrites>>
    <3>1. PICK body \in Calendar!Bodies(calendarCall[c].does) :
             /\ Calendar!Exists(calendarCall[c].id) /\ calendarWrites < CalendarMaxWrites
             /\ calendarWrites' = calendarWrites + 1
             /\ calendarEvent'
                  = Calendar!Patched(calendarCall[c].id, body[1], body[2], calendarCall[c].seen)
      BY <1>7, <2>2 DEF Calendar!Patch
    <3>2. /\ calendarCall' = [calendarCall EXCEPT ![c] = Calendar!Idle]
          /\ calendarCall[c].does \notin {"nothing", "delete"}
      BY <1>7 DEF Calendar!Patch
    <3>3. "when" \notin body[2] /\ "conference" \notin body[2]
      BY <1>6, <3>2, WhatIsCopied
    <3> QED
      BY <1>5, <1>6, <3>1, <3>2, <3>3, EventRewritten
  <2> QED
    BY <2>1, <2>2
<1>8. ASSUME NEW c \in CalendarCalls, Calendar!Delete(c)
      PROVE  CalendarInv' /\ Calendar!NothingElseRollsBack
  <2>1. CASE UNCHANGED <<calendarEvent, calendarWrites>>
    <3>1. calendarCall' = [calendarCall EXCEPT ![c] = Calendar!Idle]
      BY <1>8 DEF Calendar!Delete
    <3>2. /\ calendarWrites' \in {calendarWrites, calendarWrites + 1}
          /\ calendarWrites' <= CalendarMaxWrites
      BY <2>1 DEF CalendarInv
    <3> QED
      BY <1>5, <2>1, <3>1, <3>2, EventLeft
  <2>2. CASE ~UNCHANGED <<calendarEvent, calendarWrites>>
    <3>1. /\ Calendar!Exists(calendarCall[c].id) /\ calendarWrites < CalendarMaxWrites
          /\ calendarWrites' = calendarWrites + 1
          /\ calendarEvent' = [calendarEvent EXCEPT ![calendarCall[c].id] = Deleted]
      BY <1>8, <2>2 DEF Calendar!Delete
    <3>2. /\ calendarCall[c].id \in CalendarEvents
          /\ calendarCall' = [calendarCall EXCEPT ![c] = Calendar!Idle]
          /\ calendarWrites' <= CalendarMaxWrites
      BY <1>6, <1>8, <3>1 DEF Calendar!Delete, CalendarInv
    <3> QED
      BY <1>5, <3>1, <3>2, EventLeft
  <2> QED
    BY <2>1, <2>2
<1>9. CASE Calendar!SomebodyElse
  <2>1. /\ calendarCall' \in [CalendarCalls -> Calendar!Call]
        /\ \A d \in CalendarCalls : SeenInTime(calendarCall'[d], calendarWrites)
    BY <1>9 DEF Calendar!SomebodyElse, CalendarInv
  <2>2. PICK e \in CalendarEvents :
          /\ Calendar!Exists(e) /\ calendarWrites < CalendarMaxWrites
          /\ calendarWrites' = calendarWrites + 1
          /\ \/ \E f \in Calendar!Fields :
               calendarEvent' = Calendar!Patched(e, {f}, {}, Calendar!NotSeen)
             \/ calendarEvent' = [calendarEvent EXCEPT ![e] = Deleted]
    BY <1>9 DEF Calendar!SomebodyElse
  <2>3. CASE calendarEvent' = [calendarEvent EXCEPT ![e] = Deleted]
    <3>1. /\ calendarWrites' \in {calendarWrites, calendarWrites + 1}
          /\ calendarWrites' <= CalendarMaxWrites
      BY <2>2 DEF CalendarInv
    <3> QED
      BY <2>1, <2>2, <2>3, <3>1, EventLeft
  <2>4. ASSUME NEW f \in Calendar!Fields,
               calendarEvent' = Calendar!Patched(e, {f}, {}, Calendar!NotSeen)
        PROVE  CalendarInv' /\ Calendar!NothingElseRollsBack
    <3>1. \A g \in Calendar!Fields : Calendar!NotSeen[g] <= calendarWrites
      BY <1>1 DEF CalendarInv
    <3> QED
      BY <1>1, <2>1, <2>2, <2>4, <3>1, EventRewritten
  <2> QED
    BY <2>2, <2>3, <2>4
<1> QED
  BY <1>4, <1>7, <1>8, <1>9 DEF Calendar!Next

\* So does a step of another tool.
LEMMA CalendarKept ==
  ASSUME CalendarInv, UNCHANGED Calendar!vars
  PROVE  CalendarInv' /\ Calendar!NothingElseRollsBack
<1>1. UNCHANGED <<calendarEvent, calendarCall, calendarWrites>>
  BY DEF Calendar!vars
<1>2. ASSUME NEW e \in CalendarEvents, Calendar!Exists(e), NEW f \in {"when", "conference"}
      PROVE  calendarEvent[e].val[f] >= calendarEvent[e].val[f]
  BY <1>2 DEF CalendarInv, Calendar!Exists, Calendar!Event, Calendar!Fields
<1> QED
  BY <1>1, <1>2 DEF CalendarInv, Calendar!NothingElseRollsBack, Calendar!Exists

-----------------------------------------------------------------------------
(* Contacts                                                                *)

\* What a call knows of the contacts it is about: nobody has it who was not there, the
\* etags it read are no later than those there are, and what it is to write under the
\* present one is its merge with what is there.
Knows(k) ==
    /\ k.pc # "idle"
         => \A p \in k.who : contactsContact[p] # Unused
                /\ (Contacts!Exists(p) => k.etag[p] <= contactsContact[p].etag)
    /\ k.pc \in {"read", "write"} => \E p \in ContactsPeople : k.who = {p}
    /\ k.pc = "batch" => k.mode = "replace"
    /\ k.pc = "write"
         => \A p \in k.who : Contacts!Exists(p) /\ contactsContact[p].etag = k.etag[p] =>
         k.body = Contacts!Merged(k.field, contactsContact[p][k.field], k.new, k.mode)

ContactsInv == Contacts!TypeOK /\ \A c \in ContactsCalls : Knows(contactsCall[c])

\* What becomes of one contact: it stays, it is put in, it goes, or its etag grows.
Onward(p) ==
    \/ contactsContact'[p] = contactsContact[p]
    \/ contactsContact[p] = Unused
    \/ Contacts!Exists(p) /\ contactsContact'[p] = Deleted
    \/ Contacts!Exists(p) /\ contactsContact'[p] \in Contacts!Contact
         /\ contactsContact'[p].etag > contactsContact[p].etag

\* What a write leaves of the contact it is to and of the others.
LEMMA WrittenIs ==
  ASSUME ContactsConstants, NEW p \in ContactsPeople, contactsContact[p] \in Contacts!Contact,
         contactsContact[p].etag < ContactsMaxVersion,
         contactsContact \in [ContactsPeople -> Contacts!Contact \cup {Unused, Deleted}],
         NEW field \in Contacts!Fields, NEW body \in SUBSET Contacts!Entries
  PROVE  /\ Contacts!Written(p, field, body)
              \in [ContactsPeople -> Contacts!Contact \cup {Unused, Deleted}]
         /\ Contacts!Written(p, field, body)[p] \in Contacts!Contact
         /\ Contacts!Written(p, field, body)[p].etag = contactsContact[p].etag + 1
         /\ Contacts!Written(p, field, body)[p][field] = body
         /\ \A f \in Contacts!Fields \ {field} :
              Contacts!Written(p, field, body)[p][f] = contactsContact[p][f]
         /\ \A q \in ContactsPeople \ {p} :
              Contacts!Written(p, field, body)[q] = contactsContact[q]
<1> DEFINE r == [etag |-> contactsContact[p].etag + 1,
                 lists |-> IF field = "lists" THEN body ELSE contactsContact[p].lists,
                 custom |-> IF field = "custom" THEN body ELSE contactsContact[p].custom]
<1>1. Contacts!Written(p, field, body) = [contactsContact EXCEPT ![p] = r]
  BY DEF Contacts!Written
<1>2. r \in Contacts!Contact /\ r.etag = contactsContact[p].etag + 1
  BY DEF Contacts!Contact, ContactsConstants
<1>3. r[field] = body /\ \A f \in Contacts!Fields \ {field} : r[f] = contactsContact[p][f]
  BY DEF Contacts!Fields, Contacts!Contact
<1> HIDE DEF r
<1> QED
  BY <1>1, <1>2, <1>3

\* So it is from the start, whatever a step does, and this is what is promised.
LEMMA ContactsBegin ==
  ASSUME ContactsConstants, Contacts!Init
  PROVE  ContactsInv
<1>1. Contacts!Idle \in Contacts!Call /\ Knows(Contacts!Idle)
  BY DEF Contacts!Idle, Contacts!Call, Contacts!Fields, Contacts!Modes, Contacts!MaxRetries,
     Knows, ContactsConstants
<1> QED
  BY <1>1 DEF Contacts!Init, ContactsInv, Contacts!TypeOK

\* A call that is still at it knows after a step what it knew before.
LEMMA StillKnows ==
  ASSUME ContactsConstants, ContactsInv, NEW c \in ContactsCalls,
         contactsCall'[c] = contactsCall[c],
         contactsContact' \in [ContactsPeople -> Contacts!Contact \cup {Unused, Deleted}],
                \A p \in ContactsPeople : Onward(p)
  PROVE  Knows(contactsCall[c])'
<1> DEFINE k == contactsCall[c]
<1>1. k \in Contacts!Call /\ Knows(k) /\ k' = k
  BY DEF ContactsInv, Contacts!TypeOK
<1>2. ASSUME NEW p \in k.who, k.pc # "idle"
      PROVE  /\ p \in ContactsPeople /\ contactsContact'[p] # Unused
             /\ Contacts!Exists(p)' => k.etag[p] <= contactsContact'[p].etag
             /\ Contacts!Exists(p)' /\ contactsContact'[p].etag = k.etag[p] =>
                  Contacts!Exists(p) /\ contactsContact[p].etag = k.etag[p]
                                     /\ contactsContact'[p] = contactsContact[p]
  <2>1. /\ p \in ContactsPeople /\ contactsContact[p] # Unused
        /\ k.etag[p] \in 0..ContactsMaxVersion
        /\ (Contacts!Exists(p)
             => contactsContact[p] \in Contacts!Contact /\ contactsContact[p].etag \in Nat
                    /\ k.etag[p] <= contactsContact[p].etag)
    BY <1>1, <1>2 DEF Knows, Contacts!Call, ContactsInv, Contacts!TypeOK, Contacts!Exists,
       Contacts!Contact
  <2>2. contactsContact'[p] \in Contacts!Contact => contactsContact'[p].etag \in Nat
    BY DEF Contacts!Contact
  <2>3. Onward(p)
    BY <2>1
  <2>4. CASE contactsContact'[p] = contactsContact[p]
    BY <2>1, <2>4 DEF Contacts!Exists
  <2>5. CASE Contacts!Exists(p) /\ contactsContact'[p] = Deleted
    BY <2>1, <2>5, ContactsConstants DEF Contacts!Exists, ContactsConstants
  <2>6. CASE Contacts!Exists(p) /\ contactsContact'[p] \in Contacts!Contact
                                /\ contactsContact'[p].etag > contactsContact[p].etag
    BY <2>1, <2>2, <2>6, ContactsConstants DEF Contacts!Exists, ContactsConstants
  <2> QED
    BY <2>1, <2>3, <2>4, <2>5, <2>6 DEF Onward
<1> HIDE DEF k
<1>3. Knows(k)'
  <2>1. CASE k.pc = "write"
    <3>1. \A p \in k.who : Contacts!Exists(p)' /\ contactsContact'[p].etag = k.etag[p] =>
            k.body = Contacts!Merged(k.field, contactsContact'[p][k.field], k.new, k.mode)
      BY <1>1, <1>2, <2>1 DEF Knows
    <3> QED
      BY <1>1, <1>2, <2>1, <3>1 DEF Knows
  <2>2. CASE k.pc # "write"
    BY <1>1, <1>2, <2>2 DEF Knows
  <2> QED
    BY <2>1, <2>2
<1> QED
  BY <1>3 DEF k

\* A step after which each contact is where it may go and each call knows what it has to.
LEMMA ContactsMove ==
  ASSUME ContactsConstants, ContactsInv,
         contactsContact' \in [ContactsPeople -> Contacts!Contact \cup {Unused, Deleted}],
         \A p \in ContactsPeople : Onward(p), contactsGroup' \subseteq ContactsPeople,
         contactsCall' \in [ContactsCalls -> Contacts!Call],
         \A c \in ContactsCalls : contactsCall'[c] = contactsCall[c] \/ Knows(contactsCall[c])'
  PROVE  ContactsInv'
<1>1. \A c \in ContactsCalls : Knows(contactsCall[c])'
  BY StillKnows
<1> QED
  BY <1>1 DEF ContactsInv, Contacts!TypeOK

\* A call that is over knows nothing.
LEMMA IdleKnows ==
  ASSUME ContactsConstants
  PROVE  /\ Contacts!Idle \in Contacts!Call /\ Contacts!Idle.pc = "idle"
         /\ \A c \in ContactsCalls : contactsCall'[c] = Contacts!Idle => Knows(contactsCall[c])'
BY DEF Contacts!Idle, Contacts!Call, Contacts!Fields, Contacts!Modes, Contacts!MaxRetries,
   Knows, ContactsConstants

\* A step that leaves the calls alone.
LEMMA ContactsElsewhere ==
  ASSUME ContactsConstants, ContactsInv,
         contactsContact' \in [ContactsPeople -> Contacts!Contact \cup {Unused, Deleted}],
         \A p \in ContactsPeople :
                Onward(p), contactsGroup' \subseteq ContactsPeople, UNCHANGED contactsCall
  PROVE  ContactsInv' /\ Contacts!WritesLoseNothing
<1>1. ContactsInv'
  BY ContactsMove DEF ContactsInv, Contacts!TypeOK
<1> QED
  BY <1>1, IdleKnows DEF Contacts!WritesLoseNothing

\* A step of a call that leaves the contacts alone.
LEMMA ContactsAside ==
  ASSUME ContactsConstants, ContactsInv, UNCHANGED <<contactsContact, contactsGroup>>,
         contactsCall' \in [ContactsCalls -> Contacts!Call],
         \A c \in ContactsCalls : contactsCall'[c] = contactsCall[c] \/ Knows(contactsCall[c])'
  PROVE  ContactsInv' /\ Contacts!WritesLoseNothing
<1>1. ContactsInv'
  BY ContactsMove DEF ContactsInv, Contacts!TypeOK, Onward
<1> QED
  BY <1>1 DEF Contacts!WritesLoseNothing

\* A write, or a contact that goes, takes each contact where it may go.
LEMMA WrittenOnward ==
  ASSUME ContactsConstants, ContactsInv, NEW p \in ContactsPeople, Contacts!CanWrite(p),
         NEW field \in Contacts!Fields,
         NEW body \in SUBSET Contacts!Entries,
         contactsContact' = Contacts!Written(p, field, body)
  PROVE  /\ contactsContact' \in [ContactsPeople -> Contacts!Contact \cup {Unused, Deleted}]
         /\ \A q \in ContactsPeople : Onward(q)
<1>1. /\ contactsContact[p] \in Contacts!Contact /\ contactsContact[p].etag < ContactsMaxVersion
      /\ Contacts!Exists(p)
      /\ contactsContact \in [ContactsPeople -> Contacts!Contact \cup {Unused, Deleted}]
  BY DEF ContactsInv, Contacts!TypeOK, Contacts!CanWrite, Contacts!Exists
<1>2. contactsContact[p].etag \in Nat
  BY <1>1 DEF Contacts!Contact
<1> QED
  BY <1>1, <1>2, WrittenIs DEF Onward

\* So does the end of a contact.
LEMMA RemoveOnward ==
  ASSUME ContactsConstants, ContactsInv, NEW people, Contacts!Remove(people)
  PROVE  /\ contactsContact' \in [ContactsPeople -> Contacts!Contact \cup {Unused, Deleted}]
         /\ \A q \in ContactsPeople : Onward(q)
         /\ contactsGroup' \subseteq ContactsPeople
BY DEF Contacts!Remove, ContactsInv, Contacts!TypeOK, Onward, Contacts!Exists

\* What a merge takes out it was asked to take out, and what it was given it has.
LEMMA MergedKeeps ==
  ASSUME NEW k \in Contacts!Call, k.pc = "write", NEW existing \in SUBSET Contacts!Entries
  PROVE  LET body == Contacts!Merged(k.field, existing, k.new, k.mode)
         IN /\ body \in SUBSET Contacts!Entries
            /\ \A e \in existing \ body : Contacts!Asked(k, k.field, e)
            /\ k.mode # "remove" => Contacts!KeysOf(k.new) \subseteq Contacts!KeysOf(body)
<1> DEFINE body == Contacts!Merged(k.field, existing, k.new, k.mode)
<1>1. /\ k.new \in SUBSET Contacts!Entries /\ k.field \in Contacts!Fields
      /\ k.mode \in Contacts!Modes
  BY DEF Contacts!Call
<1>2. CASE k.mode = "replace"
  BY <1>1, <1>2 DEF Contacts!Merged, Contacts!Asked
<1>3. CASE k.mode = "remove"
  BY <1>1, <1>3 DEF Contacts!Merged, Contacts!Asked, Contacts!Without
<1>4. CASE k.mode = "merge" /\ k.field = "lists"
  <2>1. body = existing \cup {e \in k.new : e[1] \notin Contacts!KeysOf(existing)}
    BY <1>4 DEF Contacts!Merged, Contacts!MergedList
  <2>2. Contacts!KeysOf(k.new) \subseteq Contacts!KeysOf(body)
    BY <2>1 DEF Contacts!KeysOf
  <2> QED
    BY <1>1, <2>1, <2>2
<1>5. CASE k.mode = "merge" /\ k.field = "custom"
  <2>1. body = {e \in existing : e[1] \notin Contacts!KeysOf(k.new)} \cup k.new
    BY <1>5 DEF Contacts!Merged, Contacts!MergedCustom
  <2>2. Contacts!KeysOf(k.new) \subseteq Contacts!KeysOf(body)
    BY <2>1 DEF Contacts!KeysOf
  <2> QED
    BY <1>1, <1>5, <2>1, <2>2 DEF Contacts!Asked
<1> QED
  BY <1>1, <1>2, <1>3, <1>4, <1>5 DEF Contacts!Fields, Contacts!Modes

\* A step of the contacts keeps the invariant and loses nothing nobody named.
LEMMA ContactsStep ==
  ASSUME ContactsConstants, ContactsInv, Contacts!Next
  PROVE  ContactsInv' /\ Contacts!WritesLoseNothing
<1>0. /\ contactsContact \in [ContactsPeople -> Contacts!Contact \cup {Unused, Deleted}]
      /\ contactsGroup \subseteq ContactsPeople
      /\ contactsCall \in [ContactsCalls -> Contacts!Call]
      /\ \A c \in ContactsCalls : Knows(contactsCall[c])
  BY DEF ContactsInv, Contacts!TypeOK
<1>1. CASE Contacts!SomebodyElse
  <2>1. CASE \E p \in ContactsPeople : Contacts!Exists(p) /\ Contacts!Remove({p})
    BY <1>1, <2>1, RemoveOnward, ContactsElsewhere DEF Contacts!SomebodyElse
  <2>2. ASSUME NEW p \in ContactsPeople, NEW f \in Contacts!Fields, Contacts!CanWrite(p),
               UNCHANGED contactsGroup, UNCHANGED contactsCall,
               \/ contactsContact' = Contacts!Written(p, f, {})
               \/ \E e \in Contacts!Entries :
                    contactsContact'
                           = Contacts!Written(p, f,
                                  Contacts!Without(contactsContact[p][f], {e}) \cup {e})
        PROVE  ContactsInv' /\ Contacts!WritesLoseNothing
    <3>1. contactsContact[p][f] \in SUBSET Contacts!Entries
      BY <1>0, <2>2 DEF Contacts!CanWrite, Contacts!Exists, Contacts!Contact, Contacts!Fields
    <3>2. \A e \in Contacts!Entries :
           Contacts!Without(contactsContact[p][f], {e}) \cup {e} \in SUBSET Contacts!Entries
      BY <3>1 DEF Contacts!Without
    <3>3. PICK body \in SUBSET Contacts!Entries :
           contactsContact' = Contacts!Written(p, f, body)
      BY <2>2, <3>2
    <3>4. /\ contactsContact' \in [ContactsPeople -> Contacts!Contact \cup {Unused, Deleted}]
          /\ \A q \in ContactsPeople : Onward(q)
      BY <2>2, <3>3, WrittenOnward
    <3> QED
      BY <1>0, <2>2, <3>4, ContactsElsewhere
  <2> QED
    BY <1>1, <2>1, <2>2 DEF Contacts!SomebodyElse
<1>2. ASSUME NEW p \in ContactsPeople, Contacts!CreateContact(p)
      PROVE  ContactsInv' /\ Contacts!WritesLoseNothing
  <2>1. PICK new \in Contacts!Contact : contactsContact' = [contactsContact EXCEPT ![p] = new]
    <3>1. PICK e \in Contacts!Entries, f \in Contacts!Fields :
            contactsContact' = [contactsContact EXCEPT ![p] =
             [etag |-> 1, lists |-> IF f = "lists" THEN {e} ELSE {},
              custom |-> IF f = "custom" THEN {e} ELSE {}]]
      BY <1>2 DEF Contacts!CreateContact
    <3>2. /\ <<e[1], e[2]>> = e /\ {e} \in SUBSET Contacts!Entries
          /\ {} \in SUBSET Contacts!Entries /\ 1 \in 1..ContactsMaxVersion
      BY DEF Contacts!Entries, ContactsConstants
    <3>3. [etag |-> 1, lists |-> IF f = "lists" THEN {e} ELSE {},
           custom |-> IF f = "custom" THEN {e} ELSE {}] \in Contacts!Contact
      BY <3>2 DEF Contacts!Contact
    <3> QED
      BY <3>1, <3>3
  <2>2. /\ contactsContact' \in [ContactsPeople -> Contacts!Contact \cup {Unused, Deleted}]
        /\ \A q \in ContactsPeople : Onward(q)
    BY <1>0, <1>2, <2>1 DEF Contacts!CreateContact, Onward
  <2> QED
    BY <1>0, <1>2, <2>2, ContactsElsewhere DEF Contacts!CreateContact
<1>3. ASSUME NEW c \in ContactsCalls, NEW p \in ContactsPeople, Contacts!UpdateContact(c, p)
      PROVE  ContactsInv' /\ Contacts!WritesLoseNothing
  <2>1. PICK field \in Contacts!Fields, mode \in Contacts!Modes, e \in Contacts!Entries :
          contactsCall'
                 = [contactsCall EXCEPT ![c]
                        = [Contacts!Idle EXCEPT !.pc = "read", !.who = {p}, !.field = field,
                                         !.mode = mode, !.new = {e}, !.attempt = 1]]
    BY <1>3 DEF Contacts!UpdateContact
  <2> DEFINE k == [Contacts!Idle EXCEPT !.pc = "read", !.who = {p}, !.field = field,
                               !.mode = mode, !.new = {e}, !.attempt = 1]
  <2>2. k \in Contacts!Call
    <3>1. /\ {e} \in SUBSET Contacts!Entries /\ {} \in SUBSET Contacts!Entries
          /\ {p} \in SUBSET ContactsPeople
      OBVIOUS
    <3>2. 1 \in 0..Contacts!MaxRetries
      BY DEF Contacts!MaxRetries
    <3> QED
      BY <3>1, <3>2, IdleKnows DEF Contacts!Call
  <2>3. k.pc = "read" /\ k.who = {p} /\ k.etag = [q \in ContactsPeople |-> 0]
    BY DEF Contacts!Idle
  <2> HIDE DEF k
  <2>4. /\ contactsCall'[c] = k
        /\ \A d \in ContactsCalls \ {c} : contactsCall'[d] = contactsCall[d]
    BY <1>0, <2>1 DEF k
  <2>5. UNCHANGED <<contactsContact, contactsGroup>> /\ contactsContact[p] # Unused
    BY <1>3 DEF Contacts!UpdateContact
  <2>6. Contacts!Exists(p) => contactsContact[p].etag \in Nat
    BY <1>0 DEF Contacts!Exists, Contacts!Contact
  <2>7. Knows(contactsCall[c])'
    BY <2>3, <2>4, <2>5, <2>6 DEF Knows, Contacts!Exists
  <2>8. contactsCall' \in [ContactsCalls -> Contacts!Call]
    BY <1>0, <2>1, <2>2 DEF k
  <2> QED
    BY <2>4, <2>5, <2>7, <2>8, ContactsAside
<1>4. ASSUME NEW c \in ContactsCalls, contactsCall[c].pc \in {"read", "write"}
      PROVE  /\ (CHOOSE q \in contactsCall[c].who : TRUE) \in ContactsPeople
             /\ contactsCall[c].who = {CHOOSE q \in contactsCall[c].who : TRUE}
  BY <1>0, <1>4 DEF Knows
<1>5. ASSUME NEW c \in ContactsCalls, Contacts!FetchContact(c)
      PROVE  ContactsInv' /\ Contacts!WritesLoseNothing
  <2> DEFINE p == CHOOSE q \in contactsCall[c].who : TRUE
             new == [contactsCall[c] EXCEPT !.pc = "write",
                    !.etag = [@ EXCEPT ![p] = contactsContact[p].etag],
                       !.body = Contacts!Merged(contactsCall[c].field,
                              contactsContact[p][contactsCall[c].field], contactsCall[c].new,
                                     contactsCall[c].mode)]
  <2>1. /\ p \in ContactsPeople /\ contactsCall[c].who = {p} /\ contactsCall[c].pc = "read"
        /\ contactsCall[c] \in Contacts!Call /\ Knows(contactsCall[c])
    BY <1>0, <1>4, <1>5 DEF Contacts!FetchContact
  <2>2. contactsCall'
         = [contactsCall EXCEPT ![c] = IF ~Contacts!Exists(p) THEN Contacts!Idle ELSE new]
                /\ UNCHANGED <<contactsContact, contactsGroup>>
    BY <1>5 DEF Contacts!FetchContact
  <2>3. CASE ~Contacts!Exists(p)
    <3>1. /\ contactsCall'[c] = Contacts!Idle
          /\ \A d \in ContactsCalls \ {c} : contactsCall'[d] = contactsCall[d]
      BY <1>0, <2>2, <2>3
    <3>2. contactsCall' \in [ContactsCalls -> Contacts!Call]
      BY <1>0, <2>2, <2>3, IdleKnows
    <3> QED
      BY <2>2, <3>1, <3>2, IdleKnows, ContactsAside
  <2>4. CASE Contacts!Exists(p)
    <3>1. /\ contactsContact[p][contactsCall[c].field] \in SUBSET Contacts!Entries
          /\ contactsContact[p].etag \in 0..ContactsMaxVersion
      <4>1. contactsContact[p] \in Contacts!Contact
        BY <1>0, <2>1, <2>4 DEF Contacts!Exists
      <4>2. contactsCall[c].field \in Contacts!Fields
        BY <2>1 DEF Contacts!Call
      <4>3. contactsContact[p].etag \in 0..ContactsMaxVersion
        BY <4>1 DEF Contacts!Contact, ContactsConstants
      <4> QED
        BY <4>1, <4>2, <4>3 DEF Contacts!Contact, Contacts!Fields
    <3>2. Contacts!Merged(contactsCall[c].field, contactsContact[p][contactsCall[c].field],
           contactsCall[c].new, contactsCall[c].mode) \in SUBSET Contacts!Entries
      BY <2>1, <3>1 DEF Contacts!Call, Contacts!Merged, Contacts!MergedList,
         Contacts!MergedCustom, Contacts!Without, Contacts!Fields, Contacts!Modes
    <3>3. new \in Contacts!Call
      BY <2>1, <3>1, <3>2 DEF Contacts!Call
    <3>4. /\ new.pc = "write" /\ new.who = {p} /\ new.etag[p] = contactsContact[p].etag
          /\ new.field = contactsCall[c].field /\ new.new = contactsCall[c].new
          /\ new.mode = contactsCall[c].mode
          /\ new.body
               = Contacts!Merged(contactsCall[c].field,
                      contactsContact[p][contactsCall[c].field], contactsCall[c].new,
                             contactsCall[c].mode)
      BY <2>1 DEF Contacts!Call
    <3> HIDE DEF new, p
    <3>5. /\ contactsCall'[c] = new
          /\ \A d \in ContactsCalls \ {c} : contactsCall'[d] = contactsCall[d]
      BY <1>0, <2>2, <2>4
    <3>6. contactsCall' \in [ContactsCalls -> Contacts!Call]
      BY <1>0, <2>2, <2>4, <3>3
    <3>7. /\ contactsContact[p] # Unused /\ contactsContact[p].etag <= contactsContact[p].etag
          /\ contactsContact' = contactsContact
      BY <2>2, <2>4, <3>1 DEF Contacts!Exists
    <3>8. new.body
           = Contacts!Merged(new.field, contactsContact'[p][new.field], new.new, new.mode)
      BY <3>4, <3>7
    <3>9. Knows(contactsCall[c])'
      BY <2>1, <3>4, <3>5, <3>7, <3>8 DEF Knows, Contacts!Exists
    <3> QED
      BY <2>2, <3>5, <3>6, <3>9, ContactsAside
  <2> QED
    BY <2>3, <2>4
<1>6. ASSUME NEW c \in ContactsCalls, UNCHANGED <<contactsContact, contactsGroup>>,
             contactsCall' = [contactsCall EXCEPT ![c] = Contacts!Idle]
      PROVE  ContactsInv' /\ Contacts!WritesLoseNothing
  <2>1. /\ contactsCall'[c] = Contacts!Idle
        /\ \A d \in ContactsCalls \ {c} : contactsCall'[d] = contactsCall[d]
    BY <1>0, <1>6
  <2>2. contactsCall' \in [ContactsCalls -> Contacts!Call]
    BY <1>0, <1>6, IdleKnows
  <2> QED
    BY <1>6, <2>1, <2>2, IdleKnows, ContactsAside
<1>7. ASSUME NEW c \in ContactsCalls, Contacts!UpdateWrite(c)
      PROVE  ContactsInv' /\ Contacts!WritesLoseNothing
  <2> DEFINE p == CHOOSE q \in contactsCall[c].who : TRUE
  <2>1. /\ p \in ContactsPeople /\ contactsCall[c].who = {p} /\ contactsCall[c].pc = "write"
        /\ contactsCall[c] \in Contacts!Call /\ Knows(contactsCall[c])
    BY <1>0, <1>4, <1>7 DEF Contacts!UpdateWrite
  <2>2. \/ /\ Contacts!CanWrite(p) /\ Contacts!Etag(p) = contactsCall[c].etag[p]
           /\ contactsContact'
                = Contacts!Written(p, contactsCall[c].field, contactsCall[c].body)
           /\ contactsCall' = [contactsCall EXCEPT ![c] = Contacts!Idle]
        \/ Contacts!Conflict(c, p) /\ UNCHANGED contactsContact
        \/ contactsCall' = [contactsCall EXCEPT ![c] = Contacts!Idle]
             /\ UNCHANGED contactsContact
    BY <1>7 DEF Contacts!UpdateWrite
  <2>3. UNCHANGED contactsGroup
    BY <1>7 DEF Contacts!UpdateWrite
  <2> HIDE DEF p
  <2>4. CASE /\ Contacts!CanWrite(p) /\ Contacts!Etag(p) = contactsCall[c].etag[p]
             /\ contactsContact'
                  = Contacts!Written(p, contactsCall[c].field, contactsCall[c].body)
             /\ contactsCall' = [contactsCall EXCEPT ![c] = Contacts!Idle]
    <3>1. /\ Contacts!Exists(p) /\ contactsContact[p] \in Contacts!Contact
          /\ contactsContact[p].etag < ContactsMaxVersion
          /\ contactsContact[p].etag = contactsCall[c].etag[p]
      BY <1>0, <2>1, <2>4 DEF Contacts!CanWrite, Contacts!Exists, Contacts!Etag
    <3>2. /\ contactsCall[c].field \in Contacts!Fields
          /\ contactsCall[c].body \in SUBSET Contacts!Entries
      BY <2>1 DEF Contacts!Call
    <3>3. contactsContact[p][contactsCall[c].field] \in SUBSET Contacts!Entries
      BY <3>1, <3>2 DEF Contacts!Contact, Contacts!Fields
    <3>4. contactsCall[c].body
           = Contacts!Merged(contactsCall[c].field, contactsContact[p][contactsCall[c].field],
                  contactsCall[c].new, contactsCall[c].mode)
      BY <2>1, <3>1 DEF Knows
    <3>5. /\ \A e \in contactsContact[p][contactsCall[c].field] \ contactsCall[c].body :
               Contacts!Asked(contactsCall[c], contactsCall[c].field, e)
          /\ contactsCall[c].mode # "remove" =>
               Contacts!KeysOf(contactsCall[c].new) \subseteq Contacts!KeysOf(contactsCall[c].body)
      BY <2>1, <3>3, <3>4, MergedKeeps
    <3>6. /\ contactsContact'[p][contactsCall[c].field] = contactsCall[c].body
          /\ \A f \in Contacts!Fields \ {contactsCall[c].field} :
               contactsContact'[p][f] = contactsContact[p][f]
      BY <1>0, <2>1, <2>4, <3>1, <3>2, WrittenIs
    <3>7. /\ contactsCall'[c] = Contacts!Idle
          /\ \A d \in ContactsCalls \ {c} : contactsCall'[d] = contactsCall[d]
      BY <1>0, <2>4
    <3>8. contactsCall' \in [ContactsCalls -> Contacts!Call]
      BY <1>0, <2>4, IdleKnows
    <3>9. ContactsInv'
      BY <1>0, <2>1, <2>3, <2>4, <3>2, <3>7, <3>8, IdleKnows, WrittenOnward, ContactsMove
    <3>10. \A d \in ContactsCalls : contactsCall[d].pc \in {"write", "batch"}
           /\ contactsCall'[d] = Contacts!Idle => d = c
      BY <3>7, IdleKnows
    <3>11. Contacts!WritesLoseNothing
      BY <2>1, <3>5, <3>6, <3>10 DEF Contacts!WritesLoseNothing
    <3> QED
      BY <3>9, <3>11
  <2>5. CASE contactsCall' = [contactsCall EXCEPT ![c] = Contacts!Idle]
         /\ UNCHANGED contactsContact
    BY <1>6, <2>3, <2>5
  <2>6. CASE Contacts!Conflict(c, p) /\ UNCHANGED contactsContact
    <3>1. CASE contactsCall[c].attempt < Contacts!MaxRetries
      <4> DEFINE k == [contactsCall[c] EXCEPT !.pc = "read", !.attempt = @ + 1]
      <4>1. k \in Contacts!Call /\ k.pc = "read" /\ k.who = {p} /\ k.etag = contactsCall[c].etag
        <5>1. contactsCall[c].attempt + 1 \in 0..3
          BY <2>1, <3>1 DEF Contacts!Call, Contacts!MaxRetries
        <5> QED
          BY <2>1, <5>1 DEF Contacts!Call, Contacts!MaxRetries
      <4>2. contactsCall' = [contactsCall EXCEPT ![c] = k]
        BY <2>6, <3>1 DEF Contacts!Conflict
      <4> HIDE DEF k
      <4>3. /\ contactsCall'[c] = k
            /\ (\A d \in ContactsCalls \ {c} : contactsCall'[d] = contactsCall[d])
                 /\ contactsCall' \in [ContactsCalls -> Contacts!Call]
        BY <1>0, <4>1, <4>2
      <4>4. Knows(contactsCall[c])'
        BY <2>1, <2>6, <4>1, <4>3 DEF Knows, Contacts!Exists
      <4> QED
        BY <2>3, <2>6, <4>3, <4>4, ContactsAside
    <3>2. CASE ~(contactsCall[c].attempt < Contacts!MaxRetries)
      BY <1>6, <2>3, <2>6, <3>2 DEF Contacts!Conflict
    <3> QED
      BY <3>1, <3>2
  <2> QED
    BY <2>2, <2>4, <2>5, <2>6
<1>8. ASSUME NEW p \in ContactsPeople, Contacts!DeleteContact(p)
      PROVE  ContactsInv' /\ Contacts!WritesLoseNothing
  BY <1>8, RemoveOnward, ContactsElsewhere DEF Contacts!DeleteContact
<1>9. ASSUME NEW c \in ContactsCalls, Contacts!BatchRead(c)
      PROVE  ContactsInv' /\ Contacts!WritesLoseNothing
  <2>1. PICK who \in (SUBSET ContactsPeople) \ {{}}, field \in Contacts!Fields,
         e \in Contacts!Entries :
          LET found == {p \in who : Contacts!Exists(p)}
          IN contactsCall'
                 = [contactsCall EXCEPT ![c]
                        = [Contacts!Idle EXCEPT !.pc = "batch", !.who = found,
                          !.field = field, !.mode = "replace", !.new = {e},
                          !.etag = [p \in ContactsPeople |-> IF p \in found
                                 THEN Contacts!Etag(p) ELSE 0]]]
    BY <1>9 DEF Contacts!BatchRead
  <2> DEFINE found == {p \in who : Contacts!Exists(p)}
             etags == [p \in ContactsPeople |-> IF p \in found THEN Contacts!Etag(p) ELSE 0]
             k == [Contacts!Idle EXCEPT !.pc = "batch", !.who = found, !.field = field,
                    !.mode = "replace",
                     !.new = {e}, !.etag = etags]
  <2>2. /\ etags \in [ContactsPeople -> 0..ContactsMaxVersion]
        /\ \A p \in found : /\ Contacts!Exists(p) /\ etags[p] = contactsContact[p].etag
                            /\ contactsContact[p].etag \in Nat /\ p \in ContactsPeople
    BY <1>0 DEF Contacts!Etag, Contacts!Exists, Contacts!Contact, ContactsConstants
  <2>3. found \in SUBSET ContactsPeople
    OBVIOUS
  <2> HIDE DEF found, etags
  <2>4. /\ k \in Contacts!Call /\ k.pc = "batch" /\ k.who = found /\ k.mode = "replace"
        /\ k.etag = etags
    <3>1. {e} \in SUBSET Contacts!Entries /\ {} \in SUBSET Contacts!Entries
      OBVIOUS
    <3>2. k \in Contacts!Call
      BY <2>2, <2>3, <3>1, IdleKnows DEF Contacts!Call, Contacts!MaxRetries, Contacts!Modes
    <3> QED
      BY <3>2 DEF Contacts!Idle
  <2>5. contactsCall' = [contactsCall EXCEPT ![c] = k]
    BY <2>1 DEF found, etags
  <2> HIDE DEF k
  <2>6. /\ contactsCall'[c] = k
        /\ (\A d \in ContactsCalls \ {c} : contactsCall'[d] = contactsCall[d])
             /\ contactsCall' \in [ContactsCalls -> Contacts!Call]
    BY <1>0, <2>4, <2>5
  <2>7. UNCHANGED <<contactsContact, contactsGroup>>
    BY <1>9 DEF Contacts!BatchRead
  <2>8. Knows(contactsCall[c])'
    BY <2>2, <2>4, <2>6, <2>7 DEF Knows, Contacts!Exists
  <2> QED
    BY <2>6, <2>7, <2>8, ContactsAside
<1>10. ASSUME NEW c \in ContactsCalls, Contacts!BatchWrite(c)
       PROVE  ContactsInv' /\ Contacts!WritesLoseNothing
  <2> DEFINE k == contactsCall[c]
  <2>1. /\ k \in Contacts!Call /\ Knows(k) /\ k.pc = "batch" /\ k.mode = "replace"
        /\ UNCHANGED contactsGroup
        /\ contactsCall' = [contactsCall EXCEPT ![c] = Contacts!Idle]
    BY <1>0, <1>10 DEF Contacts!BatchWrite, Knows
  <2>2. CASE UNCHANGED contactsContact
    BY <1>6, <2>1, <2>2
  <2>3. CASE \A p \in k.who : Contacts!CanWrite(p)
    <3>1. contactsContact'
           = [p \in ContactsPeople |-> IF p \in k.who
                  THEN Contacts!Written(p, k.field, k.new)[p] ELSE contactsContact[p]]
          \/ UNCHANGED contactsContact
      BY <1>10 DEF Contacts!BatchWrite
    <3>2. SUFFICES ASSUME contactsContact'
           = [p \in ContactsPeople |-> IF p \in k.who
                  THEN Contacts!Written(p, k.field, k.new)[p]
                                                       ELSE contactsContact[p]]
                   PROVE  ContactsInv' /\ Contacts!WritesLoseNothing
      BY <2>2, <3>1
    <3>3. /\ k.field \in Contacts!Fields /\ k.new \in SUBSET Contacts!Entries
          /\ k.who \in SUBSET ContactsPeople
      BY <2>1 DEF Contacts!Call
    <3>4. ASSUME NEW p \in k.who
          PROVE  /\ contactsContact'[p] \in Contacts!Contact
                 /\ contactsContact'[p].etag = contactsContact[p].etag + 1
                 /\ Contacts!Exists(p) /\ contactsContact[p].etag \in Nat
                 /\ contactsContact'[p][k.field] = k.new
                 /\ \A f \in Contacts!Fields \ {k.field} :
                      contactsContact'[p][f] = contactsContact[p][f]
      <4>1. /\ p \in ContactsPeople /\ Contacts!Exists(p)
            /\ contactsContact[p] \in Contacts!Contact
            /\ contactsContact[p].etag < ContactsMaxVersion
        BY <1>0, <2>3, <3>3 DEF Contacts!CanWrite, Contacts!Exists
      <4>2. /\ contactsContact[p].etag \in Nat
            /\ contactsContact'[p] = Contacts!Written(p, k.field, k.new)[p]
        BY <3>2, <4>1 DEF Contacts!Contact
      <4> QED
        BY <1>0, <3>3, <4>1, <4>2, WrittenIs
    <3>5. \A p \in ContactsPeople \ k.who : contactsContact'[p] = contactsContact[p]
      BY <3>2
    <3>6. /\ contactsContact' \in [ContactsPeople -> Contacts!Contact \cup {Unused, Deleted}]
          /\ \A p \in ContactsPeople : Onward(p)
      <4>1. \A p \in ContactsPeople :
             contactsContact'[p] \in Contacts!Contact \cup {Unused, Deleted} /\ Onward(p)
        BY <1>0, <3>4, <3>5 DEF Onward
      <4> QED
        BY <3>2, <4>1
    <3>7. /\ contactsCall'[c] = Contacts!Idle
          /\ (\A d \in ContactsCalls \ {c} : contactsCall'[d] = contactsCall[d])
               /\ contactsCall' \in [ContactsCalls -> Contacts!Call]
      BY <1>0, <2>1, IdleKnows
    <3>8. ContactsInv'
      BY <1>0, <2>1, <3>6, <3>7, IdleKnows, ContactsMove
    <3>9. \A d \in ContactsCalls : contactsCall[d].pc \in {"write", "batch"}
           /\ contactsCall'[d] = Contacts!Idle => d = c
      BY <3>7, IdleKnows
    <3>10. Contacts!WritesLoseNothing
      BY <2>1, <3>4, <3>9 DEF Contacts!WritesLoseNothing, Contacts!Asked
    <3> QED
      BY <3>8, <3>10
  <2>4. \/ UNCHANGED contactsContact
        \/ \A p \in k.who : Contacts!CanWrite(p)
    BY <1>10 DEF Contacts!BatchWrite
  <2> QED
    BY <2>2, <2>3, <2>4
<1>11. CASE Contacts!ManageContactsBatch
  <2>1. CASE Contacts!BatchDelete
    BY <2>1, RemoveOnward, ContactsElsewhere DEF Contacts!BatchDelete
  <2> QED
    BY <1>9, <1>11, <2>1 DEF Contacts!ManageContactsBatch
<1>12. CASE Contacts!ManageContactGroup
  <2>1. CASE Contacts!Remove(contactsGroup)
    BY <1>12, <2>1, RemoveOnward, ContactsElsewhere DEF Contacts!ManageContactGroup
  <2>2. CASE UNCHANGED contactsContact /\ contactsGroup' \subseteq ContactsPeople
    BY <1>0, <1>12, <2>2, ContactsElsewhere DEF Contacts!ManageContactGroup, Onward
  <2> QED
    BY <1>0, <1>12, <2>1, <2>2 DEF Contacts!ManageContactGroup
<1> QED
  BY <1>1, <1>2, <1>3, <1>5, <1>7, <1>8, <1>10, <1>11, <1>12 DEF Contacts!Next,
     Contacts!ManageContact

\* So does a step of another tool.
LEMMA ContactsKept ==
  ASSUME ContactsConstants, ContactsInv, UNCHANGED Contacts!vars
  PROVE  ContactsInv' /\ Contacts!WritesLoseNothing
BY ContactsElsewhere DEF ContactsInv, Contacts!TypeOK, Contacts!vars, Onward

-----------------------------------------------------------------------------
(* Rows of sheets                                                          *)

Row == RowsRows \cup {Blank}

\* The rows are counted as everything is.
LEMMA SameCount == \A S : Rows!Cardinality(S) = Cardinality(S)
BY DEF Rows!Cardinality, Cardinality

\* A grid is a sequence of rows, one at least, and within the bound.
LEMMA GridHas ==
  ASSUME RowsConstants, NEW rows \in Rows!Grids
  PROVE  /\ Len(rows) \in 1..RowsMaxRows /\ DOMAIN rows = 1..Len(rows)
         /\ rows \in [1..Len(rows) -> Row]
         /\ rows \in Seq(Row)
<1>1. PICK n \in 1..RowsMaxRows : rows \in [1..n -> Row]
  BY DEF Rows!Grids, Row
<1>2. n \in Nat /\ rows \in Seq(Row)
  BY <1>1, SeqDef DEF RowsConstants
<1>3. DOMAIN rows = 1..n /\ DOMAIN rows = 1..Len(rows) /\ Len(rows) \in Nat
  BY <1>1, <1>2, LenProperties
<1>4. Len(rows) = n
  BY <1>2, <1>3
<1> QED
  BY <1>1, <1>2, <1>4

\* And such a sequence is a grid.
LEMMA IsGrid ==
  ASSUME RowsConstants, NEW rows \in Seq(Row), Len(rows) \in 1..RowsMaxRows
  PROVE  rows \in Rows!Grids
<1>1. rows \in [1..Len(rows) -> Row]
  BY LenProperties
<1> QED
  BY <1>1 DEF Rows!Grids, Row

\* The last row with data.
LEMMA DataRowsIs ==
  ASSUME RowsConstants, NEW rows \in Rows!Grids
  PROVE  /\ Rows!DataRows(rows) \in 0..Len(rows)
         /\ \A j \in 1..Len(rows) : j > Rows!DataRows(rows) => rows[j] = Blank
<1>1. Len(rows) \in 1..RowsMaxRows /\ DOMAIN rows = 1..Len(rows)
  BY GridHas
<1>2. CASE \A i \in DOMAIN rows : rows[i] = Blank
  BY <1>1, <1>2 DEF Rows!DataRows
<1>3. CASE \E i \in DOMAIN rows : rows[i] # Blank
  <2> DEFINE T == {i \in DOMAIN rows : rows[i] # Blank}
  <2>1. T \subseteq 0..Len(rows) /\ T # {} /\ Len(rows) \in Nat
    BY <1>1, <1>3
  <2>2. PICK x \in T : \A y \in T : x >= y
    <3> HIDE DEF T
    <3> QED
      BY <2>1, GreatestNumber
  <2>3. x \in DOMAIN rows /\ rows[x] # Blank /\ \A j \in DOMAIN rows : j > x => rows[j] = Blank
    BY <1>1, <2>2
  <2>4. /\ Rows!DataRows(rows) \in DOMAIN rows
        /\ \A j \in DOMAIN rows : j > Rows!DataRows(rows) => rows[j] = Blank
    BY <1>3, <2>3 DEF Rows!DataRows
  <2> QED
    BY <1>1, <2>4
<1> QED
  BY <1>2, <1>3

\* Rows that are allocated are blank.
LEMMA BlanksAre ==
  ASSUME NEW n \in Nat
  PROVE  /\ Rows!Blanks(n) \in Seq(Row) /\ Len(Rows!Blanks(n)) = n
         /\ \A i \in 1..n : Rows!Blanks(n)[i] = Blank
<1>1. Rows!Blanks(n) \in [1..n -> Row]
  BY DEF Rows!Blanks, Row
<1>2. Rows!Blanks(n) \in Seq(Row)
  BY <1>1, SeqDef
<1>3. /\ DOMAIN Rows!Blanks(n) = 1..n /\ DOMAIN Rows!Blanks(n) = 1..Len(Rows!Blanks(n))
      /\ Len(Rows!Blanks(n)) \in Nat
  BY <1>1, <1>2, LenProperties
<1>4. Len(Rows!Blanks(n)) = n
  BY <1>3
<1> QED
  BY <1>2, <1>4 DEF Rows!Blanks

\* DeleteDimension: the rows behind move up.
LEMMA RowsDeleted ==
  ASSUME RowsConstants, NEW rows \in Seq(Row), NEW first \in Nat \ {0}, NEW last \in Nat,
         first <= last, last <= Len(rows)
  PROVE  LET n == last - first + 1
             after == Rows!DeleteDimension(rows, first, last)
         IN /\ after \in Seq(Row) /\ Len(after) = Len(rows) - n
            /\ \A i \in 1..Len(rows) - n : after[i] = IF i < first THEN rows[i] ELSE rows[i + n]
<1> DEFINE n == last - first + 1
           s1 == SubSeq(rows, 1, first - 1)
           s2 == SubSeq(rows, last + 1, Len(rows))
<1>1. /\ Len(rows) \in Nat /\ rows \in [1..Len(rows) -> Row] /\ first - 1 \in Int
      /\ last + 1 \in Int
  BY LenProperties
<1>2. s1 \in Seq(Row) /\ Len(s1) = first - 1 /\ \A i \in 1..first - 1 : s1[i] = rows[i]
  <2>1. \A i \in 1..first - 1 : rows[i] \in Row
    BY <1>1
  <2>2. s1 \in Seq(Row) /\ Len(s1) = (IF 1 <= first - 1 THEN first - 1 - 1 + 1 ELSE 0)
        /\ \A i \in 1..first - 1 - 1 + 1 : s1[i] = rows[1 + i - 1]
    BY <1>1, <2>1, SubSeqProperties
  <2> HIDE DEF s1
  <2> QED
    BY <2>2
<1>3. /\ s2 \in Seq(Row) /\ Len(s2) = Len(rows) - last
      /\ \A i \in 1..Len(rows) - last : s2[i] = rows[last + i]
  <2>1. \A i \in last + 1..Len(rows) : rows[i] \in Row
    BY <1>1
  <2>2. /\ s2 \in Seq(Row)
        /\ Len(s2) = (IF last + 1 <= Len(rows) THEN Len(rows) - (last + 1) + 1 ELSE 0)
        /\ \A i \in 1..Len(rows) - (last + 1) + 1 : s2[i] = rows[last + 1 + i - 1]
    BY <1>1, <2>1, SubSeqProperties
  <2> HIDE DEF s2
  <2>3. Len(s2) = Len(rows) - last
    <3>1. /\ Len(s2) = (IF last + 1 <= Len(rows) THEN Len(rows) - (last + 1) + 1 ELSE 0)
          /\ Len(rows) \in Nat
      BY <1>1, <2>2
    <3> QED
      BY <3>1
  <2>4. ASSUME NEW i \in 1..Len(rows) - last
        PROVE  s2[i] = rows[last + i]
    <3>1. i \in 1..Len(rows) - (last + 1) + 1 /\ last + 1 + i - 1 = last + i
      BY <1>1
    <3> QED
      BY <2>2, <3>1
  <2> QED
    BY <2>2, <2>3, <2>4
<1>4. Rows!DeleteDimension(rows, first, last) = s1 \o s2
  BY DEF Rows!DeleteDimension
<1> HIDE DEF s1, s2
<1>5. /\ s1 \o s2 \in Seq(Row) /\ Len(s1 \o s2) = Len(s1) + Len(s2)
      /\ \A i \in 1..Len(s1) + Len(s2) : (s1 \o s2)[i] = IF i <= Len(s1)
           THEN s1[i] ELSE s2[i - Len(s1)]
  BY <1>2, <1>3, ConcatProperties
<1>6. Len(s1) + Len(s2) = Len(rows) - n
  BY <1>1, <1>2, <1>3
<1>7. ASSUME NEW i \in 1..Len(rows) - n
      PROVE  (s1 \o s2)[i] = IF i < first THEN rows[i] ELSE rows[i + n]
  <2>1. CASE i < first
    BY <1>1, <1>2, <1>5, <1>6, <2>1
  <2>2. CASE i >= first
    <3>1. (s1 \o s2)[i] = s2[i - (first - 1)]
      BY <1>1, <1>2, <1>5, <1>6, <2>2
    <3>2. i - (first - 1) \in 1..Len(rows) - last
      BY <1>1, <2>2
    <3>3. last + (i - (first - 1)) = i + n
      BY <1>1
    <3>4. (s1 \o s2)[i] = rows[i + n]
      BY <1>3, <3>1, <3>2, <3>3
    <3> QED
      BY <2>2, <3>4
  <2>3. i < first \/ i >= first
    BY <1>1
  <2> QED
    BY <2>1, <2>2, <2>3
<1> QED
  BY <1>4, <1>5, <1>6, <1>7

\* AppendDimension: blank rows come behind.
LEMMA Appended ==
  ASSUME RowsConstants, NEW rows \in Seq(Row), NEW n \in Nat
  PROVE  LET after == Rows!AppendDimension(rows, n)
         IN /\ after \in Seq(Row) /\ Len(after) = Len(rows) + n
            /\ \A i \in 1..Len(rows) : after[i] = rows[i]
            /\ \A i \in Len(rows) + 1..Len(rows) + n : after[i] = Blank
<1>1. Len(rows) \in Nat
  BY LenProperties
<1>2. /\ rows \o Rows!Blanks(n) \in Seq(Row)
      /\ Len(rows \o Rows!Blanks(n)) = Len(rows) + Len(Rows!Blanks(n))
      /\ \A i \in 1..Len(rows) + Len(Rows!Blanks(n)) : (rows \o Rows!Blanks(n))[i] =
           IF i <= Len(rows) THEN rows[i] ELSE Rows!Blanks(n)[i - Len(rows)]
  BY BlanksAre, ConcatProperties
<1>3. Len(Rows!Blanks(n)) = n /\ \A i \in 1..n : Rows!Blanks(n)[i] = Blank
  BY BlanksAre
<1>4. \A i \in Len(rows) + 1..Len(rows) + n : i - Len(rows) \in 1..n
  BY <1>1
<1> QED
  BY <1>1, <1>2, <1>3, <1>4 DEF Rows!AppendDimension

\* Rows are inserted before a place or at the end.
LEMMA InsertedIs ==
  ASSUME RowsConstants, NEW rows \in Seq(Row), NEW at \in Nat, at <= Len(rows), NEW n \in Nat
  PROVE  /\ Rows!Inserted(rows, at, n) \in Seq(Row)
         /\ Len(Rows!Inserted(rows, at, n)) = Len(rows) + n
<1>1. Len(rows) \in Nat /\ rows \in [1..Len(rows) -> Row]
  BY LenProperties
<1>2. CASE n = 0
  BY <1>1, <1>2 DEF Rows!Inserted
<1>3. CASE n # 0 /\ at = 0
  BY <1>3, Appended DEF Rows!Inserted
<1>4. CASE n # 0 /\ at # 0
  <2> DEFINE s1 == SubSeq(rows, 1, at - 1)
             s2 == SubSeq(rows, at, Len(rows))
  <2>1. s1 \in Seq(Row) /\ Len(s1) = at - 1
    <3>1. \A i \in 1..at - 1 : rows[i] \in Row
      BY <1>1
    <3>2. s1 \in Seq(Row) /\ Len(s1) = (IF 1 <= at - 1 THEN at - 1 - 1 + 1 ELSE 0)
      BY <3>1, SubSeqProperties
    <3> HIDE DEF s1
    <3> QED
      BY <1>4, <3>2
  <2>2. s2 \in Seq(Row) /\ Len(s2) = Len(rows) - at + 1
    <3>1. \A i \in at..Len(rows) : rows[i] \in Row
      BY <1>1, <1>4
    <3>2. s2 \in Seq(Row) /\ Len(s2) = (IF at <= Len(rows) THEN Len(rows) - at + 1 ELSE 0)
      BY <1>1, <3>1, SubSeqProperties
    <3> QED
      BY <3>2
  <2>3. Rows!Inserted(rows, at, n) = s1 \o Rows!Blanks(n) \o s2
    BY <1>4 DEF Rows!Inserted, Rows!InsertDimension
  <2> HIDE DEF s1, s2
  <2> DEFINE s3 == Rows!Blanks(n)
             s4 == s1 \o s3
  <2>4. s3 \in Seq(Row) /\ Len(s3) = n
    BY BlanksAre
  <2> HIDE DEF s3
  <2>5. s4 \in Seq(Row) /\ Len(s4) = at - 1 + n
    BY <2>1, <2>4, ConcatProperties
  <2>6. Rows!Inserted(rows, at, n) = s4 \o s2
    BY <2>3 DEF s3
  <2> HIDE DEF s4
  <2>7. s4 \o s2 \in Seq(Row) /\ Len(s4 \o s2) = Len(s4) + Len(s2)
    BY <2>2, <2>5, ConcatProperties
  <2> QED
    BY <1>1, <2>2, <2>5, <2>6, <2>7
<1> QED
  BY <1>2, <1>3, <1>4

\* Where a row is.
PlacesOf(g, row) == {p \in RowsSheets \X (1..RowsMaxRows) : p[2] \in DOMAIN g[p[1]]
       /\ g[p[1]][p[2]] = row}

\* n rows from start on leave one sheet for another, behind its data.
MovesTo(g, h, src, dst, start, n, paste) ==
    /\ start \in Nat \ {0} /\ n \in Nat \ {0} /\ paste \in Nat /\ src # dst
    /\ start + n - 1 <= Len(g[src]) /\ paste + n <= Len(h[dst]) /\ Len(g[dst]) <= Len(h[dst])
    /\ Len(h[src]) = Len(g[src]) - n
    /\ \A i \in 1..Len(g[dst]) : i > paste => g[dst][i] = Blank
    /\ \A i \in 1..Len(h[src]) : h[src][i] = IF i < start THEN g[src][i] ELSE g[src][i + n]
    /\ \A i \in 1..Len(h[dst]) :
         h[dst][i] = IF i \in paste + 1..paste + n THEN g[src][i - paste + start - 1]
                     ELSE IF i <= Len(g[dst]) THEN g[dst][i] ELSE Blank
    /\ \A s \in RowsSheets \ {src, dst} : h[s] = g[s]

\* They are as many as before.
LEMMA MovedCopies ==
  ASSUME RowsConstants, NEW g \in [RowsSheets -> Rows!Grids],
         NEW h \in [RowsSheets -> Rows!Grids],
         NEW src \in RowsSheets, NEW dst \in RowsSheets, NEW start, NEW n, NEW paste,
         MovesTo(g, h, src, dst, start, n, paste), NEW row \in RowsRows
  PROVE  Cardinality(PlacesOf(h, row)) = Cardinality(PlacesOf(g, row))
<1> DEFINE A == PlacesOf(g, row)
           B == PlacesOf(h, row)
           to(p) == IF p[1] = src
                    THEN IF p[2] < start THEN p
                         ELSE IF p[2] < start + n THEN <<dst, p[2] - start + 1 + paste>>
                         ELSE <<src, p[2] - n>>
                    ELSE p
           from(q) == IF q[1] = src
                      THEN IF q[2] < start THEN q ELSE <<src, q[2] + n>>
                      ELSE IF q[1] = dst /\ q[2] \in paste + 1..paste + n
                           THEN <<src, q[2] - paste + start - 1>> ELSE q
           move == [p \in A |-> to(p)]
<1>1. \A s \in RowsSheets :
        /\ DOMAIN g[s] = 1..Len(g[s]) /\ Len(g[s]) \in Nat /\ Len(g[s]) <= RowsMaxRows
        /\ DOMAIN h[s] = 1..Len(h[s]) /\ Len(h[s]) \in Nat /\ Len(h[s]) <= RowsMaxRows
  <2>1. RowsMaxRows \in Nat
    BY DEF RowsConstants
  <2> QED
    BY <2>1, GridHas
<1>2. RowsMaxRows \in Nat /\ row # Blank
  BY DEF RowsConstants
<1>3. /\ start \in Nat \ {0} /\ n \in Nat \ {0} /\ paste \in Nat /\ src # dst
      /\ start + n - 1 <= Len(g[src]) /\ paste + n <= Len(h[dst]) /\ Len(g[dst]) <= Len(h[dst])
      /\ Len(h[src]) = Len(g[src]) - n
      /\ Len(g[src]) \in Nat /\ Len(g[dst]) \in Nat /\ Len(h[src]) \in Nat
      /\ Len(h[dst]) \in Nat
  BY <1>1 DEF MovesTo
<1>4. ASSUME NEW s \in RowsSheets, NEW i
      PROVE  /\ <<s, i>> \in A <=> i \in 1..Len(g[s]) /\ g[s][i] = row
             /\ <<s, i>> \in B <=> i \in 1..Len(h[s]) /\ h[s][i] = row
  BY <1>1, <1>2 DEF PlacesOf
<1>5. \A p \in A \cup B : p[1] \in RowsSheets /\ p = <<p[1], p[2]>>
  BY DEF PlacesOf
<1> HIDE DEF A, B
<1>6. ASSUME NEW i \in 1..Len(h[src])
      PROVE  h[src][i] = IF i < start THEN g[src][i] ELSE g[src][i + n]
  BY DEF MovesTo
<1>7. ASSUME NEW i \in 1..Len(h[dst])
      PROVE  /\ i \in paste + 1..paste + n => h[dst][i] = g[src][i - paste + start - 1]
             /\ i \notin paste + 1..paste + n
                  => h[dst][i] = IF i <= Len(g[dst]) THEN g[dst][i] ELSE Blank
  BY DEF MovesTo
<1>8. ASSUME NEW i \in 1..Len(g[dst]), g[dst][i] = row
      PROVE  i <= paste
  <2>1. i > paste => g[dst][i] = Blank
    BY DEF MovesTo
  <2> QED
    BY <1>2, <1>3, <1>8, <2>1
<1>9. \A s \in RowsSheets \ {src, dst} : h[s] = g[s]
  BY DEF MovesTo
<1>10. ASSUME NEW s \in RowsSheets, NEW i, <<s, i>> \in A
       PROVE  to(<<s, i>>) \in B /\ from(to(<<s, i>>)) = <<s, i>>
  <2>1. i \in 1..Len(g[s]) /\ g[s][i] = row
    BY <1>4, <1>10
  <2>2. CASE s = src /\ i < start
    <3>1. i \in 1..Len(h[src])
      BY <1>3, <2>1, <2>2
    <3>2. h[src][i] = row
      BY <1>6, <2>1, <2>2, <3>1
    <3> QED
      BY <1>4, <2>2, <3>1, <3>2
  <2>3. CASE s = src /\ ~(i < start) /\ i < start + n
    <3> DEFINE j == i - start + 1 + paste
    <3>1. j \in 1..Len(h[dst]) /\ j \in paste + 1..paste + n /\ j - paste + start - 1 = i
      BY <1>3, <2>1, <2>3
    <3>2. to(<<s, i>>) = <<dst, j>>
      BY <2>3
    <3> HIDE DEF j
    <3>3. h[dst][j] = row
      BY <1>7, <2>1, <2>3, <3>1
    <3>4. <<dst, j>> \in B
      BY <1>4, <3>1, <3>3
    <3>5. from(<<dst, j>>) = <<src, i>>
      BY <1>3, <3>1
    <3> HIDE DEF to, from
    <3> QED
      BY <2>3, <3>2, <3>4, <3>5
  <2>4. CASE s = src /\ ~(i < start) /\ ~(i < start + n)
    <3> DEFINE j == i - n
    <3>1. j \in 1..Len(h[src]) /\ j + n = i /\ ~(j < start)
      BY <1>3, <2>1, <2>4
    <3>2. to(<<s, i>>) = <<src, j>>
      BY <2>4
    <3> HIDE DEF j
    <3>3. h[src][j] = row
      BY <1>6, <2>1, <2>4, <3>1
    <3>4. <<src, j>> \in B
      BY <1>4, <3>1, <3>3
    <3>5. from(<<src, j>>) = <<src, i>>
      BY <3>1
    <3> HIDE DEF to, from
    <3> QED
      BY <2>4, <3>2, <3>4, <3>5
  <2>5. CASE s = dst
    <3>1. i <= paste
      BY <1>8, <2>1, <2>5
    <3>2. i \in 1..Len(h[dst]) /\ i \notin paste + 1..paste + n
      BY <1>3, <2>1, <2>5, <3>1
    <3>3. h[dst][i] = row
      BY <1>3, <1>7, <2>1, <2>5, <3>2
    <3>4. <<s, i>> \in B
      BY <1>4, <2>5, <3>2, <3>3
    <3>5. to(<<s, i>>) = <<s, i>> /\ from(<<s, i>>) = <<s, i>>
      BY <1>3, <2>5, <3>2
    <3> QED
      BY <3>4, <3>5
  <2>6. CASE s \notin {src, dst}
    BY <1>4, <1>9, <2>1, <2>6
  <2> QED
    BY <2>2, <2>3, <2>4, <2>5, <2>6
<1>11. ASSUME NEW s \in RowsSheets, NEW i, <<s, i>> \in B
       PROVE  from(<<s, i>>) \in A /\ to(from(<<s, i>>)) = <<s, i>>
  <2>1. i \in 1..Len(h[s]) /\ h[s][i] = row
    BY <1>4, <1>11
  <2>2. CASE s = src /\ i < start
    <3>1. i \in 1..Len(g[src])
      BY <1>3, <2>1, <2>2
    <3>2. g[src][i] = row
      BY <1>6, <2>1, <2>2
    <3> QED
      BY <1>4, <2>2, <3>1, <3>2
  <2>3. CASE s = src /\ ~(i < start)
    <3> DEFINE j == i + n
    <3>1. j \in 1..Len(g[src]) /\ j - n = i /\ ~(j < start) /\ ~(j < start + n)
      BY <1>3, <2>1, <2>3
    <3>2. from(<<s, i>>) = <<src, j>>
      BY <2>3
    <3>3. g[src][j] = row
      BY <1>6, <2>1, <2>3
    <3> HIDE DEF j
    <3>4. <<src, j>> \in A
      BY <1>4, <3>1, <3>3
    <3>5. to(<<src, j>>) = <<src, i>>
      BY <3>1
    <3> HIDE DEF to, from
    <3> QED
      BY <2>3, <3>2, <3>4, <3>5
  <2>4. CASE s = dst /\ i \in paste + 1..paste + n
    <3> DEFINE j == i - paste + start - 1
    <3>1. j \in 1..Len(g[src]) /\ j < start + n /\ ~(j < start) /\ j - start + 1 + paste = i
      BY <1>3, <2>1, <2>4
    <3>2. from(<<s, i>>) = <<src, j>>
      BY <1>3, <2>4
    <3>3. g[src][j] = row
      BY <1>7, <2>1, <2>4
    <3> HIDE DEF j
    <3>4. <<src, j>> \in A
      BY <1>4, <3>1, <3>3
    <3>5. to(<<src, j>>) = <<dst, i>>
      BY <3>1
    <3> HIDE DEF to, from
    <3> QED
      BY <2>4, <3>2, <3>4, <3>5
  <2>5. CASE s = dst /\ i \notin paste + 1..paste + n
    <3>1. from(<<s, i>>) = <<s, i>> /\ to(<<s, i>>) = <<s, i>>
      BY <1>3, <2>5
    <3>2. h[dst][i] = IF i <= Len(g[dst]) THEN g[dst][i] ELSE Blank
      BY <1>7, <2>1, <2>5
    <3>3. i <= Len(g[dst]) /\ g[dst][i] = row
      BY <1>2, <2>1, <2>5, <3>2
    <3>4. i \in 1..Len(g[dst])
      BY <1>3, <2>1, <2>5, <3>3
    <3>5. <<s, i>> \in A
      BY <1>4, <2>5, <3>3, <3>4
    <3> QED
      BY <3>1, <3>5
  <2>6. CASE s \notin {src, dst}
    BY <1>4, <1>9, <2>1, <2>6
  <2> QED
    BY <2>2, <2>3, <2>4, <2>5, <2>6
<1> HIDE DEF to, from
<1>12. \A p \in A : to(p) \in B /\ from(to(p)) = p
  <2>1. ASSUME NEW p \in A PROVE to(p) \in B /\ from(to(p)) = p
    <3>1. p[1] \in RowsSheets /\ p = <<p[1], p[2]>>
      BY <1>5
    <3> QED
      BY <1>10, <3>1
  <2> QED
    BY <2>1
<1>13. \A q \in B : from(q) \in A /\ to(from(q)) = q
  <2>1. ASSUME NEW q \in B PROVE from(q) \in A /\ to(from(q)) = q
    <3>1. q[1] \in RowsSheets /\ q = <<q[1], q[2]>>
      BY <1>5
    <3> QED
      BY <1>11, <3>1
  <2> QED
    BY <2>1
<1>14. move \in Bijection(A, B)
  <2>1. move \in [A -> B]
    BY <1>12
  <2>2. \A a, b \in A : move[a] = move[b] => a = b
    BY <1>12
  <2>3. \A t \in B : \E a \in A : move[a] = t
    BY <1>13
  <2> HIDE DEF move
  <2> QED
    BY <2>1, <2>2, <2>3, Fun_IsBij
<1>15. IsFiniteSet(A)
  <2>1. IsFiniteSet(RowsSheets \X (1..RowsMaxRows))
    <3>1. IsFiniteSet(1..RowsMaxRows) /\ IsFiniteSet(RowsSheets)
      BY <1>2, CountInterval DEF RowsConstants
    <3> QED
      BY <3>1, FS_Product
  <2>2. A \in SUBSET (RowsSheets \X (1..RowsMaxRows))
    BY DEF A, PlacesOf
  <2> QED
    BY <2>1, <2>2, FS_Subset
<1>16. ExistsBijection(A, B)
  BY <1>14 DEF ExistsBijection
<1>17. Cardinality(B) = Cardinality(A)
  BY <1>15, <1>16, FS_Bijection
<1> QED
  BY <1>17 DEF A, B

\* Rows are counted by numbers, and those that stay where they are are no fewer.
LEMMA PlacesFinite ==
  ASSUME RowsConstants, NEW g, NEW row
  PROVE  IsFiniteSet(PlacesOf(g, row)) /\ Cardinality(PlacesOf(g, row)) \in Nat
<1>1. IsFiniteSet(RowsSheets \X (1..RowsMaxRows))
  <2>1. IsFiniteSet(1..RowsMaxRows) /\ IsFiniteSet(RowsSheets)
    BY CountInterval DEF RowsConstants
  <2> QED
    BY <2>1, FS_Product
<1>2. PlacesOf(g, row) \in SUBSET (RowsSheets \X (1..RowsMaxRows))
  BY DEF PlacesOf
<1>3. IsFiniteSet(PlacesOf(g, row))
  BY <1>1, <1>2, FS_Subset
<1> QED
  BY <1>3, FS_CardinalityType

LEMMA StayingCopies ==
  ASSUME RowsConstants, NEW g \in [RowsSheets -> Rows!Grids],
         NEW h \in [RowsSheets -> Rows!Grids], NEW row \in RowsRows,
         \A s \in RowsSheets : \A i \in DOMAIN g[s] :
             g[s][i] = row => i \in DOMAIN h[s] /\ h[s][i] = row
  PROVE  Cardinality(PlacesOf(g, row)) <= Cardinality(PlacesOf(h, row))
<1>1. PlacesOf(g, row) \in SUBSET PlacesOf(h, row)
  BY DEF PlacesOf
<1>2. IsFiniteSet(PlacesOf(h, row))
  BY PlacesFinite
<1> QED
  BY <1>1, <1>2, FS_Subset

\* Of a row nothing is lost by the move of c, and nothing is doubled once it has left.
RowKept(c, row) ==
    /\ Rows!Copies(rowsGrid', row) >= Rows!Copies(rowsGrid, row)
    /\ \A src \in rowsCall[c].src : rowsGrid'[src] # rowsGrid[src] =>
          Rows!Copies(rowsGrid', row) = Rows!Copies(rowsGrid, row)

\* The copies of a row are its places.
LEMMA CopiesCount ==
  ASSUME RowsConstants, NEW row
  PROVE  /\ Rows!Copies(rowsGrid, row) = Cardinality(PlacesOf(rowsGrid, row))
         /\ Rows!Copies(rowsGrid', row) = Cardinality(PlacesOf(rowsGrid', row))
         /\ Rows!Copies(rowsGrid, row) \in Nat /\ Rows!Copies(rowsGrid', row) \in Nat
<1>1. /\ Rows!Copies(rowsGrid, row) = Cardinality(PlacesOf(rowsGrid, row))
      /\ Rows!Copies(rowsGrid', row) = Cardinality(PlacesOf(rowsGrid', row))
  BY SameCount DEF PlacesOf, Rows!Copies
<1> QED
  BY <1>1, PlacesFinite

\* A move is from one sheet to another, and what it read of the destination is so as long
\* as nobody wrote.
Moving(k) ==
    k.pc # "idle" =>
        /\ \A src \in k.src, dst \in k.dst : src # dst
        /\ k.start \in 1..RowsMaxRows /\ k.end \in 1..RowsMaxRows /\ k.start <= k.end
        /\ k.pc = "write" /\ k.fresh
             => \A dst \in k.dst : k.paste_start = Rows!DataRows(rowsGrid[dst])

RowsInv ==
    /\ rowsGrid \in [RowsSheets -> Rows!Grids]
    /\ rowsCall \in [RowsCalls -> Rows!Call]
    /\ \A c \in RowsCalls : Moving(rowsCall[c])

\* A call that is over moves nothing.
LEMMA RowsIdle ==
  ASSUME RowsConstants
  PROVE  Rows!Idle \in Rows!Call /\ Rows!Idle.pc = "idle"
BY DEF Rows!Idle, Rows!Call, RowsConstants

\* So it is from the start, whatever a step does, and this is what is promised.
LEMMA RowsBegin ==
  ASSUME RowsConstants, Rows!Init
  PROVE  RowsInv
<1>1. <<Blank>> \in Rows!Grids
  <2>1. <<Blank>> \in [1..1 -> Row] /\ 1 \in 1..RowsMaxRows
    BY DEF Row, RowsConstants
  <2> QED
    BY <2>1 DEF Rows!Grids, Row
<1> QED
  BY <1>1, RowsIdle DEF Rows!Init, RowsInv, Moving

\* A write: what the others have read is so no more.
LEMMA RowsWrote ==
  ASSUME RowsConstants, RowsInv, NEW done, Rows!Wrote(done),
         rowsGrid' \in [RowsSheets -> Rows!Grids]
  PROVE  /\ RowsInv'
         /\ \A c \in RowsCalls \ done : rowsCall[c].pc = "write" => rowsCall'[c] # Rows!Idle
<1>1. ASSUME NEW c \in RowsCalls
      PROVE  /\ rowsCall'[c] \in Rows!Call /\ Moving(rowsCall[c])'
             /\ c \notin done /\ rowsCall[c].pc = "write" => rowsCall'[c] # Rows!Idle
  <2>1. rowsCall[c] \in Rows!Call /\ Moving(rowsCall[c])
    BY DEF RowsInv
  <2>2. CASE rowsCall'[c] = Rows!Idle /\ (c \in done \/ rowsCall[c] = Rows!Idle)
    BY <2>2, RowsIdle DEF Moving
  <2>3. CASE rowsCall'[c] = [rowsCall[c] EXCEPT !.fresh = FALSE]
    <3>1. /\ rowsCall'[c] \in Rows!Call /\ rowsCall'[c].fresh = FALSE
          /\ rowsCall'[c].pc = rowsCall[c].pc
          /\ rowsCall'[c].src = rowsCall[c].src /\ rowsCall'[c].dst = rowsCall[c].dst
          /\ rowsCall'[c].start = rowsCall[c].start /\ rowsCall'[c].end = rowsCall[c].end
      BY <2>1, <2>3 DEF Rows!Call
    <3>2. Moving(rowsCall[c])'
      BY <2>1, <3>1 DEF Moving
    <3> QED
      BY <3>1, <3>2, RowsIdle
  <2> QED
    BY <2>2, <2>3 DEF Rows!Wrote
<1>2. rowsCall' \in [RowsCalls -> Rows!Call]
  BY <1>1 DEF Rows!Wrote
<1> QED
  BY <1>1, <1>2 DEF RowsInv

\* A write no move makes.
LEMMA RowsWritten ==
  ASSUME RowsConstants, RowsInv, Rows!Wrote({}), NEW s \in RowsSheets, NEW rows \in Rows!Grids,
         rowsGrid' = [rowsGrid EXCEPT ![s] = rows]
  PROVE  RowsInv' /\ Rows!MovesLoseNothing
<1>1. rowsGrid' \in [RowsSheets -> Rows!Grids]
  BY DEF RowsInv
<1> QED
  BY <1>1, RowsWrote DEF Rows!MovesLoseNothing

\* A step of a move that leaves the sheets alone.
LEMMA RowsAside ==
  ASSUME RowsConstants, RowsInv, UNCHANGED rowsGrid, NEW c \in RowsCalls,
         rowsCall'[c] \in Rows!Call,
         Moving(rowsCall[c])', rowsCall' = [rowsCall EXCEPT ![c] = rowsCall'[c]]
  PROVE  RowsInv' /\ Rows!MovesLoseNothing
<1>1. /\ rowsCall' \in [RowsCalls -> Rows!Call]
      /\ \A d \in RowsCalls \ {c} : rowsCall'[d] = rowsCall[d]
  BY DEF RowsInv
<1>2. ASSUME NEW d \in RowsCalls
      PROVE  Moving(rowsCall[d])'
  BY <1>1 DEF RowsInv, Moving
<1>3. RowsInv'
  BY <1>1, <1>2 DEF RowsInv
<1>4. ASSUME NEW row
      PROVE  Rows!Copies(rowsGrid', row) >= Rows!Copies(rowsGrid, row)
  <2>1. Rows!Copies(rowsGrid', row) = Rows!Copies(rowsGrid, row)
    BY DEF Rows!Copies
  <2> QED
    BY <2>1, CopiesCount
<1> QED
  BY <1>3, <1>4 DEF Rows!MovesLoseNothing

\* What a move may have done to the destination.
LEMMA GrownIs ==
  ASSUME RowsConstants, NEW k \in Rows!Call, k.start \in 1..RowsMaxRows, k.end \in 1..RowsMaxRows,
         k.start <= k.end, NEW rows \in Rows!Grids, NEW destination,
         destination = Rows!Grown(k, rows)
  PROVE  /\ destination \in Seq(Row) /\ Len(destination) \in Nat
         /\ Len(rows) <= Len(destination)
         /\ \A i \in 1..Len(destination) :
              destination[i] = IF i <= Len(rows) THEN rows[i] ELSE Blank
<1> DEFINE n == k.end - k.start + 1
           more == (k.paste_start + n) - k.dst_grid_rows
<1>1. /\ n \in Nat /\ k.paste_start \in Nat /\ k.dst_grid_rows \in Nat
      /\ rows \in Seq(Row) /\ Len(rows) \in Nat
  <2>1. /\ k.paste_start \in 0..RowsMaxRows /\ k.dst_grid_rows \in 0..RowsMaxRows
        /\ RowsMaxRows \in Nat
    BY DEF Rows!Call, RowsConstants
  <2> QED
    BY <2>1, GridHas
<1>2. destination = IF k.paste_start + n > k.dst_grid_rows
                    THEN Rows!AppendDimension(rows, more) ELSE rows
  BY DEF Rows!Grown
<1> HIDE DEF n
<1>3. CASE k.paste_start + n > k.dst_grid_rows
  <2>1. more \in Nat
    BY <1>1, <1>3
  <2>2. destination = Rows!AppendDimension(rows, more)
    BY <1>2, <1>3
  <2> HIDE DEF more
  <2>3. /\ Rows!AppendDimension(rows, more) \in Seq(Row)
        /\ Len(Rows!AppendDimension(rows, more)) = Len(rows) + more
        /\ \A i \in 1..Len(rows) : Rows!AppendDimension(rows, more)[i] = rows[i]
        /\ \A i \in Len(rows) + 1..Len(rows) + more : Rows!AppendDimension(rows, more)[i] = Blank
    <3>1. rows \in Seq(Row)
      BY <1>1
    <3> QED
      BY <2>1, <3>1, Appended
  <2>4. /\ destination \in Seq(Row) /\ Len(destination) = Len(rows) + more
        /\ \A i \in 1..Len(rows) : destination[i] = rows[i]
        /\ \A i \in Len(rows) + 1..Len(rows) + more : destination[i] = Blank
    BY <2>2, <2>3, Zenon
  <2> QED
    BY <1>1, <2>1, <2>4
<1>4. CASE ~(k.paste_start + n > k.dst_grid_rows)
  BY <1>1, <1>2, <1>4
<1> QED
  BY <1>3, <1>4

\* The requests of a move: the destination is longer, it has the rows, and the source has not.
MoveAsked(c, src, dst, destination) ==
    /\ rowsCall[c].pc = "write" /\ Rows!Wrote({c}) /\ src \in rowsCall[c].src
    /\ dst \in rowsCall[c].dst
    /\ destination = Rows!Grown(rowsCall[c], rowsGrid[dst]) /\ Len(destination) <= RowsMaxRows
MovePasted(c, src, destination) ==
    Rows!CopyPaste(destination, SubSeq(rowsGrid[src], rowsCall[c].start, rowsCall[c].end),
                   rowsCall[c].paste_start)
MoveBatch(c, src, dst, destination) ==
    /\ MoveAsked(c, src, dst, destination)
    /\ rowsCall[c].end <= Len(rowsGrid[src])
    /\ rowsCall[c].paste_start + (rowsCall[c].end - rowsCall[c].start + 1) <= Len(destination)
    /\ \/ /\ rowsCall[c].end - rowsCall[c].start + 1 < Len(rowsGrid[src])
          /\ rowsGrid' = [rowsGrid EXCEPT
                ![src] = Rows!DeleteDimension(@, rowsCall[c].start, rowsCall[c].end),
                ![dst] = MovePasted(c, src, destination)]
       \/ rowsGrid' = [rowsGrid EXCEPT ![dst] = MovePasted(c, src, destination)]

\* A destination that has only grown has the rows it had.
LEMMA RowsGrown ==
  ASSUME RowsConstants, RowsInv, NEW c \in RowsCalls, NEW src, NEW dst, NEW destination,
         MoveAsked(c, src, dst, destination), rowsGrid' = [rowsGrid EXCEPT ![dst] = destination]
  PROVE  RowsInv' /\ Rows!MovesLoseNothing
<1> DEFINE k == rowsCall[c]
<1>1. /\ k \in Rows!Call /\ Moving(k) /\ rowsGrid \in [RowsSheets -> Rows!Grids]
      /\ k.pc = "write" /\ Rows!Wrote({c}) /\ src \in k.src /\ dst \in k.dst
      /\ destination = Rows!Grown(k, rowsGrid[dst]) /\ Len(destination) <= RowsMaxRows
  BY DEF RowsInv, MoveAsked
<1>2. /\ src \in RowsSheets /\ dst \in RowsSheets /\ k.src = {src} /\ src # dst
      /\ k.start \in 1..RowsMaxRows /\ k.end \in 1..RowsMaxRows /\ k.start <= k.end
  BY <1>1 DEF Moving, Rows!Call
<1>3. /\ rowsGrid[dst] \in Rows!Grids /\ Len(rowsGrid[dst]) \in 1..RowsMaxRows
      /\ DOMAIN rowsGrid[dst] = 1..Len(rowsGrid[dst]) /\ RowsMaxRows \in Nat
  BY <1>1, <1>2, GridHas DEF RowsConstants
<1> HIDE DEF k
<1>5. /\ destination \in Seq(Row) /\ Len(destination) \in Nat
      /\ Len(rowsGrid[dst]) <= Len(destination)
      /\ \A i \in 1..Len(destination) :
           destination[i] = IF i <= Len(rowsGrid[dst]) THEN rowsGrid[dst][i] ELSE Blank
  BY <1>1, <1>2, <1>3, GrownIs
<1>6. destination \in Rows!Grids /\ DOMAIN destination = 1..Len(destination)
  <2>1. Len(destination) \in 1..RowsMaxRows
    BY <1>1, <1>3, <1>5
  <2>2. destination \in Rows!Grids
    BY <1>5, <2>1, IsGrid
  <2> QED
    BY <2>2, GridHas
<1>7. /\ rowsGrid' \in [RowsSheets -> Rows!Grids] /\ rowsGrid'[src] = rowsGrid[src]
      /\ rowsGrid'[dst] = destination
      /\ \A s \in RowsSheets \ {dst} : rowsGrid'[s] = rowsGrid[s]
  BY <1>1, <1>2, <1>6
<1>8. /\ RowsInv'
      /\ \A d \in RowsCalls \ {c} : rowsCall[d].pc = "write" => rowsCall'[d] # Rows!Idle
  BY <1>1, <1>7, RowsWrote
<1>9. ASSUME NEW row \in RowsRows
      PROVE  RowKept(c, row)
  <2>1. ASSUME NEW s \in RowsSheets, NEW i \in DOMAIN rowsGrid[s], rowsGrid[s][i] = row
        PROVE  i \in DOMAIN rowsGrid'[s] /\ rowsGrid'[s][i] = row
    <3>1. CASE s = dst
      <4>1. i \in 1..Len(destination) /\ i <= Len(rowsGrid[dst])
        BY <1>3, <1>5, <2>1, <3>1
      <4> QED
        BY <1>5, <1>6, <1>7, <2>1, <3>1, <4>1
    <3>2. CASE s # dst
      BY <1>7, <2>1, <3>2
    <3> QED
      BY <3>1, <3>2
  <2>2. Cardinality(PlacesOf(rowsGrid, row)) <= Cardinality(PlacesOf(rowsGrid', row))
    BY <1>1, <1>7, <2>1, StayingCopies
  <2> QED
    BY <1>2, <1>7, <2>2, CopiesCount DEF RowKept, k
<1> QED
  BY <1>8, <1>9 DEF Rows!MovesLoseNothing, RowKept

\* The batch of a move loses no row.
LEMMA RowsMoved ==
  ASSUME RowsConstants, RowsInv, NEW c \in RowsCalls, NEW src, NEW dst, NEW destination,
         MoveBatch(c, src, dst, destination)
  PROVE  RowsInv' /\ Rows!MovesLoseNothing
<1> DEFINE k == rowsCall[c]
           start == k.start
           end == k.end
           paste == k.paste_start
           allocated == k.dst_grid_rows
           n == end - start + 1
           deleted == Rows!DeleteDimension(rowsGrid[src], start, end)
           copied == SubSeq(rowsGrid[src], start, end)
           pasted == Rows!CopyPaste(destination, copied, paste)
<1>1. /\ k \in Rows!Call /\ Moving(k) /\ rowsGrid \in [RowsSheets -> Rows!Grids]
      /\ src \in RowsSheets /\ dst \in RowsSheets /\ src # dst /\ k.src = {src}
      /\ start \in 1..RowsMaxRows /\ end \in 1..RowsMaxRows /\ start <= end
      /\ end <= Len(rowsGrid[src])
      /\ paste + n <= Len(destination)
      /\ Len(destination) <= RowsMaxRows
      /\ paste \in 0..RowsMaxRows /\ allocated \in 0..RowsMaxRows
      /\ k.fresh => paste = Rows!DataRows(rowsGrid[dst])
  <2>1. k \in Rows!Call /\ Moving(k) /\ rowsGrid \in [RowsSheets -> Rows!Grids]
    BY DEF RowsInv
  <2>2. /\ src \in k.src /\ dst \in k.dst /\ k.pc = "write" /\ end <= Len(rowsGrid[src])
        /\ paste + n <= Len(destination)
        /\ Len(destination) <= RowsMaxRows
    BY DEF MoveBatch, MoveAsked
  <2> QED
    BY <2>1, <2>2 DEF Moving, Rows!Call
<1>10. \/ /\ n < Len(rowsGrid[src])
          /\ rowsGrid' = [rowsGrid EXCEPT ![src] = deleted, ![dst] = pasted]
       \/ rowsGrid' = [rowsGrid EXCEPT ![dst] = pasted]
  BY DEF MoveBatch, MovePasted
<1>22. Rows!Wrote({c})
  BY DEF MoveBatch, MoveAsked
<1>20. destination = Rows!Grown(k, rowsGrid[dst])
  BY DEF MoveBatch, MoveAsked
<1>21. (\A row \in RowsRows : k.fresh => RowKept(c, row)) /\ RowsInv'
       /\ (\A d \in RowsCalls \ {c} : rowsCall[d].pc = "write" => rowsCall'[d] # Rows!Idle)
       => RowsInv' /\ Rows!MovesLoseNothing
  BY DEF Rows!MovesLoseNothing, RowKept
<1>23. \A row : /\ Rows!Copies(rowsGrid', row) >= Rows!Copies(rowsGrid, row)
                /\ \/ rowsGrid'[src] = rowsGrid[src]
                   \/ Rows!Copies(rowsGrid', row) = Rows!Copies(rowsGrid, row)
                => RowKept(c, row)
  BY <1>1 DEF RowKept
<1> HIDE DEF k, start, end, paste, allocated
<1>2. /\ start \in Nat \ {0} /\ end \in Nat /\ n \in Nat \ {0} /\ paste \in Nat
      /\ RowsMaxRows \in Nat
      /\ end = start + n - 1
  BY <1>1 DEF RowsConstants
<1>3. /\ rowsGrid[src] \in Seq(Row) /\ Len(rowsGrid[src]) \in 1..RowsMaxRows
      /\ rowsGrid[dst] \in Seq(Row) /\ Len(rowsGrid[dst]) \in 1..RowsMaxRows
  BY <1>1, GridHas
<1>4. /\ deleted \in Seq(Row) /\ Len(deleted) = Len(rowsGrid[src]) - n
      /\ \A i \in 1..Len(rowsGrid[src]) - n : deleted[i] = IF i < start
           THEN rowsGrid[src][i] ELSE rowsGrid[src][i + n]
  <2>1. /\ start \in Nat \ {0} /\ end \in Nat /\ start <= end
        /\ rowsGrid[src] \in Seq(Row) /\ end <= Len(rowsGrid[src])
    BY <1>1, <1>2, <1>3
  <2> QED
    BY <2>1, RowsDeleted
<1>5. ASSUME n < Len(rowsGrid[src])
      PROVE  deleted \in Rows!Grids
  <2>1. Len(deleted) \in 1..RowsMaxRows
    BY <1>1, <1>2, <1>3, <1>4, <1>5
  <2> QED
    BY <1>4, <2>1, IsGrid
<1>6. /\ copied \in Seq(Row) /\ Len(copied) = n
      /\ \A i \in 1..n : copied[i] = rowsGrid[src][start + i - 1]
  <2>1. \A i \in start..end : rowsGrid[src][i] \in Row
    BY <1>1, <1>2, <1>3, ElementOfSeq
  <2>2. /\ copied \in Seq(Row) /\ Len(copied) = (IF start <= end THEN end - start + 1 ELSE 0)
        /\ \A i \in 1..end - start + 1 : copied[i] = rowsGrid[src][start + i - 1]
    BY <1>2, <2>1, SubSeqProperties
  <2> HIDE DEF copied
  <2> QED
    BY <1>1, <2>2
<1>7. /\ destination \in Seq(Row) /\ Len(destination) \in Nat
      /\ Len(rowsGrid[dst]) <= Len(destination)
      /\ \A i \in 1..Len(destination) :
           destination[i] = IF i <= Len(rowsGrid[dst]) THEN rowsGrid[dst][i] ELSE Blank
  <2>1. /\ rowsGrid[dst] \in Rows!Grids /\ k \in Rows!Call
        /\ k.start \in 1..RowsMaxRows /\ k.end \in 1..RowsMaxRows /\ k.start <= k.end
    BY <1>1 DEF start, end
  <2> QED
    BY <1>20, <2>1, GrownIs
<1> HIDE DEF deleted, copied, n
<1>8. DOMAIN destination = 1..Len(destination)
  BY <1>7, LenProperties
<1>9. /\ pasted \in Rows!Grids /\ Len(pasted) = Len(destination)
      /\ \A i \in 1..Len(destination) :
           pasted[i] = IF i \in paste + 1..paste + n THEN copied[i - paste] ELSE destination[i]
  <2>1. pasted = [i \in 1..Len(destination) |->
                    IF i \in paste + 1..paste + n THEN copied[i - paste] ELSE destination[i]]
    BY <1>6, <1>8 DEF Rows!CopyPaste
  <2>2. ASSUME NEW i \in 1..Len(destination)
        PROVE  (IF i \in paste + 1..paste + n THEN copied[i - paste] ELSE destination[i])
               \in Row
    <3>1. i \in paste + 1..paste + n => i - paste \in 1..n
      BY <1>2, <1>7
    <3> QED
      BY <1>6, <1>7, <3>1, ElementOfSeq
  <2>3. pasted \in [1..Len(destination) -> Row]
    BY <2>1, <2>2
  <2>4. Len(destination) \in 1..RowsMaxRows
    BY <1>1, <1>2, <1>3, <1>7
  <2>5. pasted \in Rows!Grids
    BY <2>3, <2>4 DEF Rows!Grids, Row
  <2>6. /\ DOMAIN pasted = 1..Len(destination) /\ DOMAIN pasted = 1..Len(pasted)
        /\ Len(pasted) \in 1..RowsMaxRows
    BY <2>3, <2>5, GridHas
  <2>7. Len(pasted) = Len(destination)
    BY <1>2, <1>7, <2>6
  <2> QED
    BY <2>1, <2>5, <2>7
<1> HIDE DEF pasted
<1>24. \A i \in 1..Len(rowsGrid[dst]) : k.fresh /\ i > paste => rowsGrid[dst][i] = Blank
  BY <1>1, DataRowsIs
<1>30. CASE n < Len(rowsGrid[src]) /\ rowsGrid' = [rowsGrid EXCEPT ![src] = deleted, ![dst] = pasted]
  <2>11. /\ rowsGrid' \in [RowsSheets -> Rows!Grids] /\ rowsGrid'[src] = deleted
         /\ rowsGrid'[dst] = pasted
         /\ \A s \in RowsSheets \ {src, dst} : rowsGrid'[s] = rowsGrid[s]
    BY <1>1, <1>5, <1>9, <1>30
  <2>12. /\ RowsInv'
         /\ \A d \in RowsCalls \ {c} : rowsCall[d].pc = "write" => rowsCall'[d] # Rows!Idle
    BY <2>11, <1>22, RowsWrote
  <2>13. ASSUME k.fresh, NEW row \in RowsRows
         PROVE  Rows!Copies(rowsGrid', row) = Rows!Copies(rowsGrid, row)
    <3>1. paste = Rows!DataRows(rowsGrid[dst])
      BY <1>1, <2>13
    <3>2. \A i \in 1..Len(rowsGrid[dst]) : i > paste => rowsGrid[dst][i] = Blank
      BY <1>1, <3>1, DataRowsIs
    <3>3. \A i \in 1..Len(rowsGrid'[src]) :
            rowsGrid'[src][i] = IF i < start THEN rowsGrid[src][i] ELSE rowsGrid[src][i + n]
      BY <1>4, <2>11
    <3>4. ASSUME NEW i \in 1..Len(rowsGrid'[dst])
          PROVE  rowsGrid'[dst][i] = IF i \in paste + 1..paste + n
                 THEN rowsGrid[src][i - paste + start - 1]
                                 ELSE IF i <= Len(rowsGrid[dst]) THEN rowsGrid[dst][i] ELSE Blank
      <4>1. i \in 1..Len(destination) /\ i \in Int
        BY <1>7, <1>9, <2>11
      <4>2. rowsGrid'[dst][i] = IF i \in paste + 1..paste + n
             THEN copied[i - paste] ELSE destination[i]
        BY <1>9, <2>11, <4>1
      <4>3. CASE i \in paste + 1..paste + n
        <5>1. i - paste \in 1..n /\ start + (i - paste) - 1 = i - paste + start - 1
          BY <1>2, <4>1, <4>3
        <5>2. copied[i - paste] = rowsGrid[src][i - paste + start - 1]
          BY <1>6, <5>1
        <5> QED
          BY <4>2, <4>3, <5>2
      <4>4. CASE i \notin paste + 1..paste + n
        BY <1>7, <4>1, <4>2, <4>4
      <4> QED
        BY <4>3, <4>4
    <3>5. /\ start + n - 1 <= Len(rowsGrid[src]) /\ paste + n <= Len(rowsGrid'[dst])
          /\ Len(rowsGrid[dst]) <= Len(rowsGrid'[dst])
          /\ Len(rowsGrid'[src]) = Len(rowsGrid[src]) - n
      BY <1>1, <1>2, <1>4, <1>7, <1>9, <2>11
    <3>6. MovesTo(rowsGrid, rowsGrid', src, dst, start, n, paste)
      BY <1>1, <1>2, <2>11, <3>2, <3>3, <3>4, <3>5 DEF MovesTo
    <3>7. Cardinality(PlacesOf(rowsGrid', row)) = Cardinality(PlacesOf(rowsGrid, row))
      BY <1>1, <2>11, <3>6, MovedCopies
    <3> QED
      BY <3>7, SameCount DEF PlacesOf, Rows!Copies
  <2> QED
    BY <1>1, <1>21, <1>23, <2>12, <2>13, CopiesCount
<1>31. CASE rowsGrid' = [rowsGrid EXCEPT ![dst] = pasted]
  <2>1. /\ rowsGrid' \in [RowsSheets -> Rows!Grids] /\ rowsGrid'[src] = rowsGrid[src]
        /\ rowsGrid'[dst] = pasted
        /\ \A s \in RowsSheets \ {dst} : rowsGrid'[s] = rowsGrid[s]
    BY <1>1, <1>9, <1>31
  <2>2. /\ RowsInv'
        /\ \A d \in RowsCalls \ {c} : rowsCall[d].pc = "write" => rowsCall'[d] # Rows!Idle
    BY <1>22, <2>1, RowsWrote
  <2>3. ASSUME k.fresh, NEW row \in RowsRows
        PROVE  Rows!Copies(rowsGrid', row) >= Rows!Copies(rowsGrid, row)
    <3>1. ASSUME NEW s \in RowsSheets, NEW i \in DOMAIN rowsGrid[s], rowsGrid[s][i] = row
          PROVE  i \in DOMAIN rowsGrid'[s] /\ rowsGrid'[s][i] = row
      <4>1. CASE s = dst
        <5>1. i \in 1..Len(rowsGrid[dst]) /\ row # Blank
          <6>1. rowsGrid[dst] \in Rows!Grids /\ i \in DOMAIN rowsGrid[dst]
            BY <1>1, <3>1, <4>1
          <6> QED
            BY <6>1, GridHas DEF RowsConstants
        <5>2. ~(i > paste) /\ i \in 1..Len(destination)
          BY <1>3, <1>7, <1>24, <2>3, <3>1, <4>1, <5>1
        <5>3. pasted[i] = rowsGrid[dst][i]
          BY <1>2, <1>7, <1>9, <5>1, <5>2
        <5>4. DOMAIN pasted = 1..Len(destination)
          BY <1>9, GridHas
        <5> QED
          BY <2>1, <3>1, <4>1, <5>2, <5>3, <5>4
      <4>2. CASE s # dst
        BY <2>1, <3>1, <4>2
      <4> QED
        BY <4>1, <4>2
    <3>2. Cardinality(PlacesOf(rowsGrid, row)) <= Cardinality(PlacesOf(rowsGrid', row))
      BY <1>1, <2>1, <3>1, StayingCopies
    <3> QED
      BY <3>2, CopiesCount
  <2> QED
    BY <1>1, <1>21, <1>23, <2>1, <2>2, <2>3
<1> QED
  BY <1>10, <1>30, <1>31

\* A sheet after the rows of a batch are inserted.
LEMMA FitsIs ==
  ASSUME RowsConstants, NEW rows \in Rows!Grids, NEW ins \in Rows!Insertion,
         Rows!Fits(rows, ins)
  PROVE  /\ Rows!Inserted(rows, ins.at, ins.n) \in Seq(Row)
         /\ Len(Rows!Inserted(rows, ins.at, ins.n)) = Len(rows) + ins.n
         /\ ins.n \in Nat /\ Len(rows) + ins.n <= RowsMaxRows
<1>1. ins.n \in Nat /\ ins.at \in Nat
  <2>1. CASE ins = [n |-> 0, at |-> 0]
    BY <2>1
  <2>2. CASE ins \in [n : 1..RowsMaxInsert, at : RowsPlaces]
    <3>1. ins.n \in 1..RowsMaxInsert /\ ins.at \in RowsPlaces
      BY <2>2
    <3>2. RowsMaxInsert \in Nat /\ RowsPlaces \subseteq Nat
      BY DEF RowsConstants
    <3>3. ins.n \in Nat
      BY <3>1, <3>2
    <3> QED
      BY <3>1, <3>2, <3>3
  <2> QED
    BY <2>1, <2>2 DEF Rows!Insertion
<1>2. rows \in Seq(Row) /\ ins.at <= Len(rows)
  BY GridHas DEF Rows!Fits
<1> QED
  BY <1>1, <1>2, InsertedIs DEF Rows!Fits

\* A step of the rows keeps the invariant, and a move nobody disturbed loses no row.
LEMMA RowsStep ==
  ASSUME RowsConstants, RowsInv, Rows!Next
  PROVE  RowsInv' /\ Rows!MovesLoseNothing
<1>0. /\ rowsGrid \in [RowsSheets -> Rows!Grids] /\ rowsCall \in [RowsCalls -> Rows!Call]
      /\ RowsMaxRows \in Nat /\ 1 \in 1..RowsMaxRows
      /\ \A c \in RowsCalls : Moving(rowsCall[c])
      /\ \A s \in RowsSheets :
           /\ rowsGrid[s] \in Seq(Row) /\ Len(rowsGrid[s]) \in 1..RowsMaxRows
           /\ DOMAIN rowsGrid[s] = 1..Len(rowsGrid[s])
  BY GridHas DEF RowsInv, RowsConstants
<1>1. ASSUME NEW s \in RowsSheets, Rows!ModifySheetValues(s)
      PROVE  RowsInv' /\ Rows!MovesLoseNothing
  <2>1. PICK i \in DOMAIN rowsGrid[s], row \in Row : rowsGrid' = [rowsGrid EXCEPT ![s][i] = row]
    BY <1>1 DEF Rows!ModifySheetValues, Row
  <2> DEFINE rows == [rowsGrid[s] EXCEPT ![i] = row]
  <2>2. rowsGrid' = [rowsGrid EXCEPT ![s] = rows]
    BY <2>1
  <2>3. rows \in Seq(Row) /\ Len(rows) = Len(rowsGrid[s])
    BY <1>0, <2>1, ExceptSeq
  <2>4. rows \in Rows!Grids
    BY <1>0, <2>3, IsGrid
  <2> HIDE DEF rows
  <2> QED
    BY <1>1, <2>2, <2>4, RowsWritten DEF Rows!ModifySheetValues
<1>2. ASSUME NEW s \in RowsSheets, Rows!AppendTableRows(s)
      PROVE  RowsInv' /\ Rows!MovesLoseNothing
  <2> DEFINE last == Rows!DataRows(rowsGrid[s])
  <2>1. last \in 0..Len(rowsGrid[s])
    BY <1>0, DataRowsIs
  <2>2. PICK row \in Row :
          /\ last < RowsMaxRows
          /\ rowsGrid' = [rowsGrid EXCEPT ![s] =
               IF last < Len(rowsGrid[s])
                      THEN [rowsGrid[s] EXCEPT ![last + 1] = row] ELSE Append(rowsGrid[s], row)]
    BY <1>2 DEF Rows!AppendTableRows, Row
  <2> HIDE DEF last
  <2>3. CASE last < Len(rowsGrid[s])
    <3> DEFINE rows == [rowsGrid[s] EXCEPT ![last + 1] = row]
    <3>1. last + 1 \in 1..Len(rowsGrid[s])
      BY <1>0, <2>1, <2>3
    <3>2. rows \in Seq(Row) /\ Len(rows) = Len(rowsGrid[s])
      BY <1>0, <3>1, ExceptSeq
    <3>3. rows \in Rows!Grids
      BY <1>0, <3>2, IsGrid
    <3>4. rowsGrid' = [rowsGrid EXCEPT ![s] = rows]
      BY <2>2, <2>3
    <3> HIDE DEF rows
    <3> QED
      BY <1>2, <3>3, <3>4, RowsWritten DEF Rows!AppendTableRows
  <2>4. CASE ~(last < Len(rowsGrid[s]))
    <3> DEFINE rows == Append(rowsGrid[s], row)
    <3>1. rows \in Seq(Row) /\ Len(rows) = Len(rowsGrid[s]) + 1
      BY <1>0, AppendProperties
    <3>2. Len(rows) \in 1..RowsMaxRows
      BY <1>0, <2>1, <2>2, <2>4, <3>1
    <3>3. rows \in Rows!Grids
      BY <3>1, <3>2, IsGrid
    <3>4. rowsGrid' = [rowsGrid EXCEPT ![s] = rows]
      BY <2>2, <2>4
    <3> HIDE DEF rows
    <3> QED
      BY <1>2, <3>3, <3>4, RowsWritten DEF Rows!AppendTableRows
  <2> QED
    BY <2>3, <2>4
<1>3. ASSUME NEW s \in RowsSheets, Rows!CreateSheet(s)
      PROVE  RowsInv' /\ Rows!MovesLoseNothing
  <2>1. PICK source \in RowsSheets : rowsGrid' = [rowsGrid EXCEPT ![s] = rowsGrid[source]]
    BY <1>3 DEF Rows!CreateSheet
  <2>2. rowsGrid[source] \in Rows!Grids
    BY <1>0
  <2> QED
    BY <1>3, <2>1, <2>2, RowsWritten DEF Rows!CreateSheet
<1>4. ASSUME NEW s \in RowsSheets, NEW ins, NEW named, Rows!ResizeRows(s, ins, named)
      PROVE  RowsInv' /\ Rows!MovesLoseNothing
  <2>1. PICK rows \in Rows!Grids : rowsGrid' = [rowsGrid EXCEPT ![s] = rows]
    BY <1>4 DEF Rows!ResizeRows
  <2> QED
    BY <1>4, <2>1, RowsWritten DEF Rows!ResizeRows
<1>5. ASSUME NEW s \in RowsSheets, NEW ins \in Rows!Insertion, NEW first \in 1..RowsMaxRows,
             NEW last \in first..RowsMaxRows, Rows!ResizeRange(s, ins, first, last)
      PROVE  RowsInv' /\ Rows!MovesLoseNothing
  <2> DEFINE longer == Rows!Inserted(rowsGrid[s], ins.at, ins.n)
             rows == Rows!DeleteDimension(longer, first, last)
  <2>1. /\ Rows!Fits(rowsGrid[s], ins) /\ last <= Len(rowsGrid[s]) + ins.n
        /\ last - first + 1 < Len(rowsGrid[s]) + ins.n /\ Rows!Wrote({})
        /\ rowsGrid' = [rowsGrid EXCEPT ![s] = rows]
    BY <1>5 DEF Rows!ResizeRange
  <2>2. /\ longer \in Seq(Row) /\ Len(longer) = Len(rowsGrid[s]) + ins.n
        /\ ins.n \in Nat /\ Len(rowsGrid[s]) + ins.n <= RowsMaxRows
    BY <1>0, <2>1, FitsIs
  <2> HIDE DEF longer
  <2>3. first \in Nat \ {0} /\ last \in Nat /\ first <= last /\ last <= Len(longer)
    BY <1>0, <2>1, <2>2
  <2>4. rows \in Seq(Row) /\ Len(rows) = Len(longer) - (last - first + 1)
    BY <2>2, <2>3, RowsDeleted
  <2> HIDE DEF rows
  <2>5. Len(rows) \in 1..RowsMaxRows
    BY <1>0, <2>1, <2>2, <2>3, <2>4
  <2>6. rows \in Rows!Grids
    BY <2>4, <2>5, IsGrid
  <2> QED
    BY <2>1, <2>6, RowsWritten
<1>6. ASSUME NEW c \in RowsCalls, NEW k \in Rows!Call, UNCHANGED rowsGrid,
             rowsCall' = [rowsCall EXCEPT ![c] = k],
             k = Rows!Idle \/ (rowsCall'[c] = k => Moving(rowsCall[c])')
      PROVE  RowsInv' /\ Rows!MovesLoseNothing
  <2>1. rowsCall'[c] = k
    BY <1>0, <1>6
  <2>2. Moving(rowsCall[c])'
    BY <1>6, <2>1, RowsIdle DEF Moving
  <2> QED
    BY <1>6, <2>1, <2>2, RowsAside
<1>7. ASSUME NEW c \in RowsCalls, Rows!MoveSheetRows(c)
      PROVE  RowsInv' /\ Rows!MovesLoseNothing
  <2>1. PICK src \in RowsSources, dst \in RowsSheets, start \in 1..RowsMaxRows,
         end \in 1..RowsMaxRows :
          /\ start <= end /\ src # dst
          /\ rowsCall' = [rowsCall EXCEPT ![c] =
              [Rows!Idle EXCEPT !.pc = "source", !.src = {src}, !.dst = {dst}, !.start = start,
                           !.end = end, !.dst_grid_rows = Len(rowsGrid[dst])]]
    BY <1>7 DEF Rows!MoveSheetRows
  <2> DEFINE k == [Rows!Idle EXCEPT !.pc = "source", !.src = {src}, !.dst = {dst},
         !.start = start,
                               !.end = end, !.dst_grid_rows = Len(rowsGrid[dst])]
  <2>2. /\ src \in RowsSheets /\ Len(rowsGrid[dst]) \in 0..RowsMaxRows
        /\ start \in 0..RowsMaxRows /\ end \in 0..RowsMaxRows
    BY <1>0 DEF RowsConstants
  <2>3. k \in Rows!Call
    BY <2>2, RowsIdle DEF Rows!Call
  <2>4. k.pc = "source" /\ k.src = {src} /\ k.dst = {dst} /\ k.start = start /\ k.end = end
    BY DEF Rows!Idle
  <2> HIDE DEF k
  <2>5. rowsCall' = [rowsCall EXCEPT ![c] = k]
    BY <2>1 DEF k
  <2>6. rowsCall'[c] = k => Moving(rowsCall[c])'
    BY <2>1, <2>4 DEF Moving
  <2>7. UNCHANGED rowsGrid
    BY <1>7 DEF Rows!MoveSheetRows
  <2> QED
    BY <1>6, <2>3, <2>5, <2>6, <2>7
<1>8. ASSUME NEW c \in RowsCalls, Rows!ReadSource(c)
      PROVE  RowsInv' /\ Rows!MovesLoseNothing
  <2> DEFINE k == [rowsCall[c] EXCEPT !.pc = "destination"]
  <2>1. /\ UNCHANGED rowsGrid
        /\ (rowsCall' = [rowsCall EXCEPT ![c] = Rows!Idle]
             \/ rowsCall' = [rowsCall EXCEPT ![c] = k])
        /\ rowsCall[c].pc = "source" /\ rowsCall[c] \in Rows!Call /\ Moving(rowsCall[c])
    BY <1>0, <1>8 DEF Rows!ReadSource
  <2>2. /\ k \in Rows!Call /\ k.pc = "destination" /\ k.src = rowsCall[c].src
        /\ k.dst = rowsCall[c].dst
        /\ k.start = rowsCall[c].start /\ k.end = rowsCall[c].end
    BY <2>1 DEF Rows!Call
  <2> HIDE DEF k
  <2>3. rowsCall'[c] = k => Moving(rowsCall[c])'
    BY <2>1, <2>2 DEF Moving
  <2> QED
    BY <1>6, <2>1, <2>2, <2>3, RowsIdle
<1>9. ASSUME NEW c \in RowsCalls, Rows!ReadDestination(c)
      PROVE  RowsInv' /\ Rows!MovesLoseNothing
  <2>1. /\ UNCHANGED rowsGrid /\ rowsCall[c].pc = "destination" /\ rowsCall[c] \in Rows!Call
        /\ Moving(rowsCall[c])
    BY <1>0, <1>9 DEF Rows!ReadDestination
  <2>2. PICK dst \in rowsCall[c].dst :
          rowsCall' = [rowsCall EXCEPT ![c].pc = "write",
                 ![c].paste_start = Rows!PasteStart(rowsGrid[dst])]
    BY <1>9 DEF Rows!ReadDestination
  <2> DEFINE k == [rowsCall[c] EXCEPT !.pc = "write",
         !.paste_start = Rows!PasteStart(rowsGrid[dst])]
  <2>3. rowsCall' = [rowsCall EXCEPT ![c] = k]
    BY <1>0, <2>2
  <2>4. dst \in RowsSheets /\ rowsCall[c].dst = {dst}
    BY <2>1, <2>2 DEF Rows!Call
  <2>5. Rows!PasteStart(rowsGrid[dst]) \in 0..RowsMaxRows
    <3>1. Rows!DataRows(rowsGrid[dst]) \in 0..Len(rowsGrid[dst])
      BY <1>0, <2>4, DataRowsIs
    <3> QED
      BY <1>0, <2>4, <3>1 DEF Rows!PasteStart
  <2>6. /\ k \in Rows!Call /\ k.pc = "write" /\ k.src = rowsCall[c].src
        /\ k.dst = rowsCall[c].dst
        /\ k.start = rowsCall[c].start /\ k.end = rowsCall[c].end
        /\ k.paste_start = Rows!DataRows(rowsGrid[dst])
    BY <2>1, <2>5 DEF Rows!Call, Rows!PasteStart
  <2> HIDE DEF k
  <2>7. rowsCall'[c] = k => Moving(rowsCall[c])'
    BY <2>1, <2>4, <2>6 DEF Moving
  <2> QED
    BY <1>6, <2>1, <2>3, <2>6, <2>7
<1>10. ASSUME NEW c \in RowsCalls, Rows!MoveWrite(c)
       PROVE  RowsInv' /\ Rows!MovesLoseNothing
  <2>1. CASE rowsCall' = [rowsCall EXCEPT ![c] = Rows!Idle] /\ UNCHANGED rowsGrid
    BY <1>6, <2>1, RowsIdle
  <2>2. CASE \E src, dst, destination : MoveBatch(c, src, dst, destination)
    BY <2>2, RowsMoved
  <2>3. CASE \E src, dst, destination : /\ MoveAsked(c, src, dst, destination)
                                       /\ rowsGrid' = [rowsGrid EXCEPT ![dst] = destination]
    BY <2>3, RowsGrown
  <2>4. PICK src \in rowsCall[c].src, dst \in rowsCall[c].dst :
          LET destination == Rows!Grown(rowsCall[c], rowsGrid[dst])
          IN \/ MoveBatch(c, src, dst, destination)
             \/ /\ MoveAsked(c, src, dst, destination)
                /\ rowsGrid' = [rowsGrid EXCEPT ![dst] = destination]
             \/ rowsCall' = [rowsCall EXCEPT ![c] = Rows!Idle] /\ UNCHANGED rowsGrid
    BY <1>10 DEF Rows!MoveWrite, MoveBatch, MoveAsked, MovePasted
  <2> QED
    BY <2>1, <2>2, <2>3, <2>4
<1> QED
  BY <1>1, <1>2, <1>3, <1>4, <1>5, <1>7, <1>8, <1>9, <1>10 DEF Rows!Next

\* So does a step of another tool.
LEMMA RowsKept ==
  ASSUME RowsConstants, RowsInv, UNCHANGED Rows!vars
  PROVE  RowsInv' /\ Rows!MovesLoseNothing
<1>1. rowsGrid' = rowsGrid /\ rowsCall' = rowsCall
  BY DEF Rows!vars
<1>2. RowsInv'
  BY <1>1 DEF RowsInv, Moving
<1>3. ASSUME NEW row
      PROVE  Rows!Copies(rowsGrid', row) >= Rows!Copies(rowsGrid, row)
  <2>1. Rows!Copies(rowsGrid', row) = Rows!Copies(rowsGrid, row)
    BY <1>1 DEF Rows!Copies
  <2> QED
    BY <2>1, CopiesCount
<1> QED
  BY <1>1, <1>2, <1>3 DEF Rows!MovesLoseNothing

-----------------------------------------------------------------------------
(* Tasks                                                                   *)

\* What an update read is the task as it is, unless somebody wrote since.
Reads(k) ==
    k.pc = "update" =>
        /\ k.id \in TasksTaskIds /\ k.ask \subseteq TasksTexts \cup Tasks!Statuses
        /\ k.read \in Tasks!Task
        /\ k.fresh => Tasks!Exists(k.id) /\ k.read = tasksTask[k.id]

\* A call has what a write looks at and sets.
HasFields(k) == {"pc", "fresh", "id", "ask", "read"} \subseteq DOMAIN k

TasksInv ==
    /\ tasksLists \subseteq TasksLists
    /\ tasksTask \in [TasksTaskIds -> Tasks!Task \cup {Unused, Deleted}]
    /\ tasksCall = [c \in TasksCalls |-> tasksCall[c]]
    /\ \A c \in TasksCalls : HasFields(tasksCall[c]) /\ Reads(tasksCall[c])

\* A call that is over has what a write looks at.
LEMMA TasksIdle == HasFields(Tasks!Idle) /\ Tasks!Idle.pc = "idle"
BY DEF Tasks!Idle, HasFields

\* So it is from the start, whatever a step does, and this is what is promised.
LEMMA TasksBegin ==
  ASSUME TasksConstants, Tasks!Init
  PROVE  TasksInv
BY TasksIdle DEF Tasks!Init, TasksInv, Reads

\* A step of one call, which writes nothing.
LEMMA TasksAside ==
  ASSUME TasksConstants, TasksInv, UNCHANGED tasksTask, tasksLists' \subseteq TasksLists,
         tasksCall' = [c \in TasksCalls |-> tasksCall'[c]],
         \A c \in TasksCalls : tasksCall'[c] = tasksCall[c]
                \/ (HasFields(tasksCall'[c]) /\ Reads(tasksCall[c])')
  PROVE  TasksInv' /\ Tasks!UpdateKeepsTheRest
<1>1. ASSUME NEW c \in TasksCalls
      PROVE  HasFields(tasksCall'[c]) /\ Reads(tasksCall[c])'
  <2>1. CASE tasksCall'[c] = tasksCall[c]
    BY <2>1 DEF TasksInv, Reads, Tasks!Exists
  <2> QED
    BY <1>1, <2>1
<1> QED
  BY <1>1 DEF TasksInv, Tasks!UpdateKeepsTheRest

\* What somebody's write makes of a call on its way: no update is fresh after it.
Stale(before, after) ==
    /\ HasFields(after) /\ after.pc = before.pc
    /\ after.pc = "update" =>
         /\ after.fresh = FALSE
         /\ after.id = before.id /\ after.ask = before.ask /\ after.read = before.read

LEMMA WroteStale ==
  ASSUME TasksInv, NEW c, NEW reparented, Tasks!Wrote(c, reparented)
  PROVE  /\ tasksCall' = [d \in TasksCalls |-> tasksCall'[d]]
         /\ c \in TasksCalls => tasksCall'[c] = Tasks!Idle
         /\ \A d \in TasksCalls : d # c => Stale(tasksCall[d], tasksCall'[d])
<1>1. tasksCall' = [d \in TasksCalls |-> tasksCall'[d]]
  BY DEF Tasks!Wrote
<1>2. c \in TasksCalls => tasksCall'[c] = Tasks!Idle
  BY DEF Tasks!Wrote
<1>3. ASSUME NEW d \in TasksCalls, d # c
      PROVE  Stale(tasksCall[d], tasksCall'[d])
  <2>1. HasFields(tasksCall[d])
    BY DEF TasksInv
  <2>2. \/ tasksCall[d].pc \in {"idle", "done"} /\ tasksCall'[d] = tasksCall[d]
        \/ tasksCall[d].pc = "update" /\ tasksCall'[d] = [tasksCall[d] EXCEPT !.fresh = FALSE]
        \/ /\ tasksCall[d].pc \notin {"idle", "done", "update"}
           /\ tasksCall'[d] = [tasksCall[d] EXCEPT !.reparented = @ \cup reparented]
    BY <1>3 DEF Tasks!Wrote
  <2>3. CASE tasksCall[d].pc \in {"idle", "done"} /\ tasksCall'[d] = tasksCall[d]
    BY <2>1, <2>3 DEF Stale
  <2>4. CASE tasksCall[d].pc = "update" /\ tasksCall'[d] = [tasksCall[d] EXCEPT !.fresh = FALSE]
    BY <2>1, <2>4 DEF HasFields, Stale
  <2>5. CASE /\ tasksCall[d].pc \notin {"idle", "done", "update"}
             /\ tasksCall'[d] = [tasksCall[d] EXCEPT !.reparented = @ \cup reparented]
    BY <2>1, <2>5 DEF HasFields, Stale
  <2> QED
    BY <2>2, <2>3, <2>4, <2>5
<1> QED
  BY <1>1, <1>2, <1>3

\* Somebody's write, which no update under way makes.
LEMMA TasksWritten ==
  ASSUME TasksConstants, TasksInv, NEW reparented, Tasks!Wrote("nobody", reparented),
         tasksLists' \subseteq TasksLists,
                tasksTask' \in [TasksTaskIds -> Tasks!Task \cup {Unused, Deleted}]
  PROVE  TasksInv' /\ Tasks!UpdateKeepsTheRest
<1>1. ASSUME NEW d \in TasksCalls
      PROVE  /\ HasFields(tasksCall'[d]) /\ tasksCall'[d].pc = tasksCall[d].pc
             /\ Reads(tasksCall[d])'
  <2>1. Reads(tasksCall[d]) /\ d # "nobody"
    BY DEF TasksInv, TasksConstants
  <2>2. Stale(tasksCall[d], tasksCall'[d])
    BY <2>1, WroteStale
  <2> QED
    BY <2>1, <2>2 DEF Reads, Stale
<1>2. TasksInv'
  BY <1>1, WroteStale DEF TasksInv
<1> QED
  BY <1>1, <1>2, TasksIdle DEF Tasks!UpdateKeepsTheRest

\* The body of an update holds what was asked for and, for the rest, what was read.
LEMMA BodyKeeps ==
  ASSUME NEW k, k.ask \subseteq TasksTexts \cup Tasks!Statuses, k.read \in Tasks!Task
  PROVE  /\ Tasks!Body(k).text \in TasksTexts /\ Tasks!Body(k).text \in k.ask \cup {k.read.text}
         /\ Tasks!Body(k).status \in Tasks!Statuses
         /\ Tasks!Body(k).status \in k.ask \cup {k.read.status}
<1>1. k.read.text \in TasksTexts /\ k.read.status \in Tasks!Statuses
  BY DEF Tasks!Task
<1>2. k.ask \cap TasksTexts # {}
       => (CHOOSE v \in k.ask : v \in TasksTexts) \in k.ask \cap TasksTexts
  OBVIOUS
<1>3. k.ask \cap Tasks!Statuses # {}
       => (CHOOSE s \in k.ask : s \in Tasks!Statuses) \in k.ask \cap Tasks!Statuses
  OBVIOUS
<1> QED
  BY <1>1, <1>2, <1>3 DEF Tasks!Body

\* Tasks that go with their list or their parent leave the others what they are.
LEMMA TasksDropped ==
  ASSUME TasksConstants, TasksInv, NEW ts, Tasks!Drop(ts), tasksLists' \subseteq TasksLists
  PROVE  TasksInv' /\ Tasks!UpdateKeepsTheRest
<1>1. tasksTask' \in [TasksTaskIds -> Tasks!Task \cup {Unused, Deleted}]
  BY DEF Tasks!Drop, TasksInv
<1>2. Tasks!Wrote("nobody", {})
  BY DEF Tasks!Drop
<1> QED
  BY <1>1, <1>2, TasksWritten

\* A step of the tasks keeps the invariant, and an update keeps what it was not asked for.
LEMMA TasksStep ==
  ASSUME TasksConstants, TasksInv, Tasks!Next
  PROVE  TasksInv' /\ Tasks!UpdateKeepsTheRest
<1>0. /\ tasksLists \subseteq TasksLists
      /\ tasksTask \in [TasksTaskIds -> Tasks!Task \cup {Unused, Deleted}]
      /\ tasksCall = [c \in TasksCalls |-> tasksCall[c]]
      /\ \A c \in TasksCalls : HasFields(tasksCall[c]) /\ Reads(tasksCall[c])
  BY DEF TasksInv
<1>1. ASSUME NEW l \in TasksLists, Tasks!CreateTaskList(l)
      PROVE  TasksInv' /\ Tasks!UpdateKeepsTheRest
  <2>1. tasksLists' \subseteq TasksLists /\ UNCHANGED <<tasksTask, tasksCall>>
    BY <1>0, <1>1 DEF Tasks!CreateTaskList
  <2> QED
    BY <1>0, <2>1, TasksAside
<1>2. ASSUME NEW l \in TasksLists, Tasks!DeleteTaskList(l)
      PROVE  TasksInv' /\ Tasks!UpdateKeepsTheRest
  <2>1. tasksLists' \subseteq TasksLists
    BY <1>0, <1>2 DEF Tasks!DeleteTaskList
  <2> QED
    BY <1>2, <2>1, TasksDropped DEF Tasks!DeleteTaskList
<1>3. ASSUME NEW l \in TasksLists, Tasks!ClearCompleted(l)
      PROVE  TasksInv' /\ Tasks!UpdateKeepsTheRest
  <2>1. ASSUME NEW t \in TasksTaskIds, Tasks!Exists(t)
        PROVE  [tasksTask[t] EXCEPT !.hidden = TRUE] \in Tasks!Task
    BY <1>0, <2>1 DEF Tasks!Exists, Tasks!Task
  <2>2. /\ tasksTask' \in [TasksTaskIds -> Tasks!Task \cup {Unused, Deleted}]
        /\ UNCHANGED tasksLists
    BY <1>0, <1>3, <2>1 DEF Tasks!ClearCompleted
  <2> QED
    BY <1>0, <1>3, <2>2, TasksWritten DEF Tasks!ClearCompleted
<1>4. ASSUME NEW t \in TasksTaskIds, NEW l \in TasksLists, Tasks!CreateTask(t, l)
      PROVE  TasksInv' /\ Tasks!UpdateKeepsTheRest
  <2>1. PICK parent \in TasksTaskIds \cup {Top}, text \in TasksTexts :
          tasksTask' = [tasksTask EXCEPT ![t] = [list |-> l, parent |-> parent, text |-> text,
                                       status |-> "needsAction", hidden |-> FALSE]]
    BY <1>4 DEF Tasks!CreateTask
  <2>2. /\ tasksTask' \in [TasksTaskIds -> Tasks!Task \cup {Unused, Deleted}]
        /\ UNCHANGED tasksLists
    BY <1>0, <1>4, <2>1 DEF Tasks!CreateTask, Tasks!Task, Tasks!Statuses
  <2> QED
    BY <1>0, <1>4, <2>2, TasksWritten DEF Tasks!CreateTask
<1>5. ASSUME NEW t \in TasksTaskIds, Tasks!DeleteTask(t)
      PROVE  TasksInv' /\ Tasks!UpdateKeepsTheRest
  BY <1>0, <1>5, TasksDropped DEF Tasks!DeleteTask
<1>6. ASSUME NEW t \in TasksTaskIds, Tasks!MoveTask(t)
      PROVE  TasksInv' /\ Tasks!UpdateKeepsTheRest
  <2>1. PICK parent \in (TasksTaskIds \cup {Top}) \ {t}, l \in tasksLists :
          /\ tasksTask' = [u \in TasksTaskIds |->
               IF u = t THEN [tasksTask[t] EXCEPT !.list = l, !.parent = parent]
               ELSE IF u \in Tasks!Subtasks(t)
                      THEN [tasksTask[u] EXCEPT !.list = l] ELSE tasksTask[u]]
          /\ Tasks!Wrote("nobody", {t} \ {u \in {t} : tasksTask[u].parent = parent})
    BY <1>6 DEF Tasks!MoveTask
  <2>2. [tasksTask[t] EXCEPT !.list = l, !.parent = parent] \in Tasks!Task
    BY <1>0, <1>6 DEF Tasks!MoveTask, Tasks!Exists, Tasks!Task
  <2>3. ASSUME NEW u \in Tasks!Subtasks(t)
        PROVE  [tasksTask[u] EXCEPT !.list = l] \in Tasks!Task
    BY <1>0 DEF Tasks!Subtasks, Tasks!Exists, Tasks!Task
  <2>4. /\ tasksTask' \in [TasksTaskIds -> Tasks!Task \cup {Unused, Deleted}]
        /\ UNCHANGED tasksLists
    BY <1>0, <1>6, <2>1, <2>2, <2>3 DEF Tasks!MoveTask
  <2> QED
    BY <1>0, <2>1, <2>4, TasksWritten
<1>7. ASSUME NEW c \in TasksCalls, UNCHANGED <<tasksLists, tasksTask>>, NEW k, HasFields(k),
             k.pc # "update",
             tasksCall' = [tasksCall EXCEPT ![c] = k]
      PROVE  TasksInv' /\ Tasks!UpdateKeepsTheRest
  <2>1. /\ tasksCall' = [d \in TasksCalls |-> tasksCall'[d]] /\ tasksCall'[c] = k
        /\ \A d \in TasksCalls \ {c} : tasksCall'[d] = tasksCall[d]
    BY <1>0, <1>7
  <2>2. Reads(tasksCall[c])'
    BY <1>7, <2>1 DEF Reads
  <2> QED
    BY <1>0, <1>7, <2>1, <2>2, TasksAside
<1>8. ASSUME NEW c \in TasksCalls, NEW t \in TasksTaskIds, Tasks!UpdateTask(c, t)
      PROVE  TasksInv' /\ Tasks!UpdateKeepsTheRest
  <2>1. PICK text \in TasksTexts, status \in Tasks!Statuses : \E ask \in SUBSET {text, status} :
          tasksCall' = [tasksCall EXCEPT ![c]
                 = [Tasks!Idle EXCEPT !.pc = "update", !.id = t, !.ask = ask,
                                                   !.read = tasksTask[t]]]
    BY <1>8 DEF Tasks!UpdateTask
  <2>2. PICK ask \in SUBSET {text, status} :
          tasksCall' = [tasksCall EXCEPT ![c]
                 = [Tasks!Idle EXCEPT !.pc = "update", !.id = t, !.ask = ask,
                                                   !.read = tasksTask[t]]]
    BY <2>1
  <2> DEFINE k == [Tasks!Idle EXCEPT !.pc = "update", !.id = t, !.ask = ask,
         !.read = tasksTask[t]]
  <2>3. HasFields(k) /\ k.pc = "update" /\ k.id = t /\ k.ask = ask /\ k.read = tasksTask[t]
    BY DEF HasFields, Tasks!Idle
  <2> HIDE DEF k
  <2>4. /\ tasksCall' = [d \in TasksCalls |-> tasksCall'[d]] /\ tasksCall'[c] = k
        /\ \A d \in TasksCalls \ {c} : tasksCall'[d] = tasksCall[d]
    BY <1>0, <2>2 DEF k
  <2>5. UNCHANGED <<tasksLists, tasksTask>> /\ Tasks!Exists(t)
    BY <1>8 DEF Tasks!UpdateTask
  <2>6. tasksTask[t] \in Tasks!Task /\ ask \subseteq TasksTexts \cup Tasks!Statuses
    BY <1>0, <2>5 DEF Tasks!Exists
  <2>7. Reads(tasksCall[c])'
    BY <2>3, <2>4, <2>5, <2>6 DEF Reads, Tasks!Exists
  <2> QED
    BY <1>0, <2>3, <2>4, <2>5, <2>7, TasksAside
<1>9. ASSUME NEW c \in TasksCalls, Tasks!SendUpdate(c)
      PROVE  TasksInv' /\ Tasks!UpdateKeepsTheRest
  <2> DEFINE t == tasksCall[c].id
  <2>1. /\ t \in TasksTaskIds /\ tasksCall[c].ask \subseteq TasksTexts \cup Tasks!Statuses
        /\ tasksCall[c].read \in Tasks!Task
        /\ tasksCall[c].fresh => Tasks!Exists(t) /\ tasksCall[c].read = tasksTask[t]
    BY <1>0, <1>9 DEF Tasks!SendUpdate, Reads
  <2>2. CASE tasksCall' = [tasksCall EXCEPT ![c] = Tasks!Idle] /\ UNCHANGED tasksTask
    BY <1>7, <1>9, <2>2, TasksIdle DEF Tasks!SendUpdate
  <2>3. CASE /\ Tasks!Exists(t) /\ Tasks!Wrote(c, {})
             /\ tasksTask'
                  = [tasksTask EXCEPT ![t]
                         = [tasksTask[t] EXCEPT !.text = Tasks!Body(tasksCall[c]).text,
                           !.status = Tasks!Body(tasksCall[c]).status,
                           !.hidden = @ /\ Tasks!Body(tasksCall[c]).status = "completed"]]
    <3> DEFINE text == Tasks!Body(tasksCall[c]).text
               status == Tasks!Body(tasksCall[c]).status
               new == [tasksTask[t] EXCEPT !.text = text, !.status = status,
                                      !.hidden = @ /\ status = "completed"]
    <3>1. /\ text \in TasksTexts /\ text \in tasksCall[c].ask \cup {tasksCall[c].read.text}
          /\ status \in Tasks!Statuses
          /\ status \in tasksCall[c].ask \cup {tasksCall[c].read.status}
      BY <2>1, BodyKeeps
    <3> HIDE DEF text, status
    <3>2. tasksTask[t] \in Tasks!Task
      BY <1>0, <2>1, <2>3 DEF Tasks!Exists
    <3>3. new \in Tasks!Task /\ new.text = text /\ new.status = status
      BY <3>1, <3>2 DEF Tasks!Task
    <3>4. tasksTask' = [tasksTask EXCEPT ![t] = new]
      BY <2>3 DEF text, status
    <3> HIDE DEF t, new
    <3>5. /\ tasksTask' \in [TasksTaskIds -> Tasks!Task \cup {Unused, Deleted}]
          /\ tasksTask'[t] = new
      BY <1>0, <2>1, <3>3, <3>4
    <3>6. ASSUME NEW d \in TasksCalls
          PROVE  /\ HasFields(tasksCall'[d]) /\ Reads(tasksCall[d])'
                 /\ tasksCall[d].pc = "update" /\ tasksCall'[d] = Tasks!Idle => d = c
      <4>1. CASE d = c
        BY <2>3, <4>1, WroteStale, TasksIdle DEF Reads
      <4>2. CASE d # c
        <5>1. Stale(tasksCall[d], tasksCall'[d])
          BY <2>3, <4>2, WroteStale
        <5>2. Reads(tasksCall[d])
          BY <1>0
        <5> QED
          BY <5>1, <5>2, TasksIdle DEF Reads, Stale
      <4> QED
        BY <4>1, <4>2
    <3>7. tasksCall' = [d \in TasksCalls |-> tasksCall'[d]]
      BY <2>3, WroteStale
    <3>8. tasksLists' = tasksLists
      BY <1>9 DEF Tasks!SendUpdate
    <3>9. TasksInv'
      BY <1>0, <3>5, <3>6, <3>7, <3>8 DEF TasksInv
    <3>10. Tasks!UpdateKeepsTheRest
      BY <2>1, <3>1, <3>3, <3>5, <3>6 DEF Tasks!UpdateKeepsTheRest, t
    <3> QED
      BY <3>9, <3>10
  <2> QED
    BY <1>9, <2>2, <2>3 DEF Tasks!SendUpdate
<1>10. ASSUME NEW k, HasFields(k)
       PROVE  HasFields(Tasks!Fetched(k)) /\ Tasks!Fetched(k).pc # "update"
  BY <1>10 DEF Tasks!Fetched, HasFields
<1>11. ASSUME NEW c \in TasksCalls, NEW l \in TasksLists, NEW max, Tasks!ListTasks(c, l, max)
       PROVE  TasksInv' /\ Tasks!UpdateKeepsTheRest
  <2>1. PICK all \in BOOLEAN :
          tasksCall' = [tasksCall EXCEPT ![c]
                 = Tasks!Fetched([Tasks!Idle EXCEPT !.list = l, !.all = all, !.left = max])]
    BY <1>11 DEF Tasks!ListTasks
  <2>2. HasFields([Tasks!Idle EXCEPT !.list = l, !.all = all, !.left = max])
    BY DEF HasFields, Tasks!Idle
  <2> QED
    BY <1>7, <1>10, <1>11, <2>1, <2>2 DEF Tasks!ListTasks
<1>12. ASSUME NEW c \in TasksCalls, Tasks!NextPage(c)
       PROVE  TasksInv' /\ Tasks!UpdateKeepsTheRest
  <2>1. HasFields(tasksCall[c])
    BY <1>0
  <2>2. CASE tasksCall' = [tasksCall EXCEPT ![c] = Tasks!Fetched(tasksCall[c])]
    BY <1>7, <1>10, <1>12, <2>1, <2>2 DEF Tasks!NextPage
  <2>3. CASE tasksCall' = [tasksCall EXCEPT ![c] = Tasks!Idle]
    BY <1>7, <1>12, <2>3, TasksIdle DEF Tasks!NextPage
  <2> QED
    BY <1>12, <2>2, <2>3 DEF Tasks!NextPage
<1>13. ASSUME NEW c \in TasksCalls, Tasks!Return(c)
       PROVE  TasksInv' /\ Tasks!UpdateKeepsTheRest
  BY <1>7, <1>13, TasksIdle DEF Tasks!Return
<1> QED
  BY <1>1, <1>2, <1>3, <1>4, <1>5, <1>6, <1>8, <1>9, <1>11, <1>12, <1>13 DEF Tasks!Next

\* So does a step of another tool.
LEMMA TasksKept ==
  ASSUME TasksInv, UNCHANGED Tasks!vars
  PROVE  TasksInv' /\ Tasks!UpdateKeepsTheRest
BY DEF TasksInv, Reads, Tasks!Exists, Tasks!vars, Tasks!UpdateKeepsTheRest

-----------------------------------------------------------------------------
(* Files of scripts                                                        *)

\* Who reads or pushes holds the lock of its process, and what it is to push after a merge
\* nobody overtook is what there is but for its file.
Holds(c) == scriptsCall[c].pc \in {"read", "push"} => scriptsLock[ScriptsProcessOf[c]] = c
Lays(k) ==
    k.pc = "push" =>
        /\ k.body \in Scripts!Content
        /\ k.merge /\ ~k.overtaken /\ scriptsContent # Absent =>
             \A f \in ScriptsFiles : f # k.file => k.body[f] = scriptsContent[f]

ScriptsInv == Scripts!TypeOK /\ \A c \in ScriptsCalls : Holds(c) /\ Lays(scriptsCall[c])

\* So it is from the start, whatever a step does, and this is what is promised.
LEMMA ScriptsBegin ==
  ASSUME ScriptsConstants, Scripts!Init
  PROVE  ScriptsInv
<1>1. Scripts!Idle \in Scripts!Call /\ Scripts!Idle.pc = "idle"
  BY DEF Scripts!Idle, Scripts!Call, ScriptsConstants
<1>2. scriptsContent \in Scripts!Content
  BY DEF Scripts!Init, Scripts!NoFiles, Scripts!Content
<1>3. /\ scriptsVersions \in 0..ScriptsMaxVersions
      /\ scriptsDeployment \in [ScriptsDeployments -> 0..ScriptsMaxVersions]
  BY DEF Scripts!Init, ScriptsConstants
<1> QED
  BY <1>1, <1>2, <1>3 DEF Scripts!Init, ScriptsInv, Scripts!TypeOK, Holds, Lays

\* A call that is over has no body and no file.
LEMMA ScriptsIdle ==
  ASSUME ScriptsConstants
  PROVE  /\ Scripts!Idle \in Scripts!Call /\ Scripts!Idle.pc = "idle"
         /\ Scripts!Idle.body = Omitted /\ Scripts!Idle.file = Omitted
BY DEF Scripts!Idle, Scripts!Call, ScriptsConstants

\* A step of one call, or of none, that leaves the content alone or takes it away.
LEMMA ScriptsMove ==
  ASSUME ScriptsConstants, ScriptsInv, scriptsContent' \in {scriptsContent, Absent},
         scriptsVersions' \in 0..ScriptsMaxVersions,
         scriptsDeployment' \in [ScriptsDeployments -> 0..ScriptsMaxVersions],
         scriptsLock' \in [ScriptsProcesses -> ScriptsCalls \cup {Scripts!Free}],
         scriptsCall' \in [ScriptsCalls -> Scripts!Call],
         \A c \in ScriptsCalls : Holds(c)'
                /\ (scriptsCall'[c] = scriptsCall[c] \/ Lays(scriptsCall[c])'),
         UNCHANGED scriptsContent \/ UNCHANGED scriptsCall
  PROVE  ScriptsInv' /\ Scripts!MergeLeavesOtherFiles
<1>1. ASSUME NEW c \in ScriptsCalls
      PROVE  Lays(scriptsCall[c])'
  <2>1. CASE Lays(scriptsCall[c])'
    BY <2>1
  <2>2. CASE scriptsCall'[c] = scriptsCall[c]
    BY <2>2 DEF Lays, ScriptsInv
  <2> QED
    BY <1>1, <2>1, <2>2
<1>2. ScriptsInv'
  BY <1>1 DEF ScriptsInv, Scripts!TypeOK
<1>3. Scripts!MergeLeavesOtherFiles
  <2>1. CASE UNCHANGED scriptsContent
    BY <2>1 DEF Scripts!MergeLeavesOtherFiles
  <2>2. CASE UNCHANGED scriptsCall
    BY <2>2, ScriptsIdle DEF Scripts!MergeLeavesOtherFiles
  <2> QED
    BY <2>1, <2>2
<1> QED
  BY <1>2, <1>3

\* Files are pushed or edited: whoever was about to push them has been overtaken.
LEMMA ScriptsPushed ==
  ASSUME ScriptsConstants, ScriptsInv, NEW p, NEW c, Scripts!Overtakes(p, c),
         scriptsContent # Absent,
         scriptsContent' \in Scripts!Content, UNCHANGED <<scriptsVersions, scriptsDeployment>>,
         c \in ScriptsCalls =>
             /\ scriptsCall[c].pc = "push" /\ p = ScriptsProcessOf[c]
             /\ scriptsContent' = scriptsCall[c].body
             /\ scriptsLock' = [scriptsLock EXCEPT ![p] = Scripts!Free],
         c \notin ScriptsCalls => p = Scripts!Free /\ UNCHANGED scriptsLock
  PROVE  ScriptsInv' /\ Scripts!MergeLeavesOtherFiles
<1>1. /\ scriptsCall \in [ScriptsCalls -> Scripts!Call]
      /\ scriptsLock \in [ScriptsProcesses -> ScriptsCalls \cup {Scripts!Free}]
      /\ \A d \in ScriptsCalls : Holds(d) /\ Lays(scriptsCall[d])
  BY DEF ScriptsInv, Scripts!TypeOK
<1>2. ASSUME NEW d \in ScriptsCalls, scriptsCall[d].pc = "push"
      PROVE  d = c \/ p = Scripts!Free \/ ScriptsProcessOf[d] # p
  BY <1>1, <1>2 DEF Holds, ScriptsConstants
<1>3. ASSUME NEW d \in ScriptsCalls
      PROVE  \/ d = c /\ scriptsCall'[d] = Scripts!Idle
             \/ d # c /\ scriptsCall[d].pc = "push"
                  /\ scriptsCall'[d] = [scriptsCall[d] EXCEPT !.overtaken = TRUE]
             \/ d # c /\ scriptsCall[d].pc # "push" /\ scriptsCall'[d] = scriptsCall[d]
  BY <1>2 DEF Scripts!Overtakes
<1>4. ASSUME NEW d \in ScriptsCalls
      PROVE  /\ scriptsCall'[d] \in Scripts!Call
             /\ scriptsCall'[d].pc \in {"read", "push"}
                  => scriptsCall[d].pc = scriptsCall'[d].pc /\ d # c
             /\ scriptsCall'[d].pc = "push"
                  => scriptsCall'[d].overtaken /\ scriptsCall'[d].body = scriptsCall[d].body
             /\ scriptsCall[d].pc = "push" /\ d # c => scriptsCall'[d].pc = "push"
  <2>1. scriptsCall[d] \in Scripts!Call
    BY <1>1
  <2>2. CASE d # c /\ scriptsCall[d].pc = "push"
                   /\ scriptsCall'[d] = [scriptsCall[d] EXCEPT !.overtaken = TRUE]
    BY <2>1, <2>2 DEF Scripts!Call
  <2> QED
    BY <1>3, <2>1, <2>2, ScriptsIdle
<1>5. scriptsCall' \in [ScriptsCalls -> Scripts!Call]
  BY <1>4 DEF Scripts!Overtakes
<1>6. scriptsLock' \in [ScriptsProcesses -> ScriptsCalls \cup {Scripts!Free}]
  BY <1>1
<1>7. ASSUME NEW d \in ScriptsCalls
      PROVE  Holds(d)' /\ Lays(scriptsCall[d])'
  <2>1. Lays(scriptsCall[d])'
    BY <1>1, <1>4 DEF Lays
  <2>2. Holds(d)'
    <3>1. SUFFICES ASSUME scriptsCall'[d].pc \in {"read", "push"}
                   PROVE  scriptsLock'[ScriptsProcessOf[d]] = d
      BY DEF Holds
    <3>2. scriptsLock[ScriptsProcessOf[d]] = d /\ d # c
      BY <1>1, <1>4, <3>1 DEF Holds
    <3>3. c \in ScriptsCalls => scriptsLock[ScriptsProcessOf[c]] = c
      BY <1>1 DEF Holds
    <3>4. c \in ScriptsCalls => ScriptsProcessOf[c] # ScriptsProcessOf[d]
      BY <3>2, <3>3
    <3> QED
      BY <1>1, <3>2, <3>4 DEF ScriptsConstants
  <2> QED
    BY <2>1, <2>2
<1>8. ScriptsInv'
  BY <1>5, <1>6, <1>7 DEF ScriptsInv, Scripts!TypeOK
<1>9. Scripts!MergeLeavesOtherFiles
  <2>1. ASSUME NEW d \in ScriptsCalls, scriptsCall[d].pc = "push",
               scriptsCall'[d] = Scripts!Idle
        PROVE  d = c
    BY <1>4, <2>1, ScriptsIdle
  <2> QED
    BY <1>1, <2>1 DEF Scripts!MergeLeavesOtherFiles, Lays
<1> QED
  BY <1>8, <1>9

\* A call that has laid its files.
Ready(call, f, merge, body) ==
    [call EXCEPT !.pc = "push", !.file = f, !.merge = merge, !.body = body]

LEMMA ReadyToPush ==
  ASSUME NEW call \in Scripts!Call, NEW f \in ScriptsFiles, NEW merge \in BOOLEAN,
         NEW body \in Scripts!Content
  PROVE  LET k == Ready(call, f, merge, body)
         IN k \in Scripts!Call /\ k.pc = "push" /\ k.file = f /\ k.merge = merge
              /\ k.body = body
<1> DEFINE k == Ready(call, f, merge, body)
<1>1. k \in Scripts!Call
  BY DEF Scripts!Call, Ready
<1>2. k.pc = "push" /\ k.file = f /\ k.merge = merge /\ k.body = body
  BY DEF Scripts!Call, Ready
<1> QED
  BY <1>1, <1>2

\* A step of the scripts keeps the invariant, and a merge leaves the other files alone.
LEMMA ScriptsStep ==
  ASSUME ScriptsConstants, ScriptsInv, Scripts!Next
  PROVE  ScriptsInv' /\ Scripts!MergeLeavesOtherFiles
<1>0. /\ scriptsContent \in Scripts!Content \cup {Absent}
      /\ scriptsVersions \in 0..ScriptsMaxVersions
      /\ scriptsDeployment \in [ScriptsDeployments -> 0..ScriptsMaxVersions]
      /\ scriptsLock \in [ScriptsProcesses -> ScriptsCalls \cup {Scripts!Free}]
      /\ scriptsCall \in [ScriptsCalls -> Scripts!Call]
      /\ \A c \in ScriptsCalls : Holds(c) /\ Lays(scriptsCall[c])
           /\ ScriptsProcessOf[c] \in ScriptsProcesses
  BY DEF ScriptsInv, Scripts!TypeOK, ScriptsConstants
<1>1. ASSUME NEW c \in ScriptsCalls, NEW k \in Scripts!Call, k.pc \notin {"read", "push"},
             scriptsCall[c].pc \notin {"read", "push"},
             scriptsCall' = [scriptsCall EXCEPT ![c] = k],
             UNCHANGED <<scriptsContent, scriptsLock>>,
             scriptsVersions' \in 0..ScriptsMaxVersions,
             scriptsDeployment' \in [ScriptsDeployments -> 0..ScriptsMaxVersions]
      PROVE  ScriptsInv' /\ Scripts!MergeLeavesOtherFiles
  <2>1. /\ scriptsCall' \in [ScriptsCalls -> Scripts!Call] /\ scriptsCall'[c] = k
        /\ \A d \in ScriptsCalls \ {c} : scriptsCall'[d] = scriptsCall[d]
    BY <1>0, <1>1
  <2>2. \A d \in ScriptsCalls : Holds(d)'
         /\ (scriptsCall'[d] = scriptsCall[d] \/ Lays(scriptsCall[d])')
    BY <1>0, <1>1, <2>1 DEF Holds, Lays
  <2> QED
    BY <1>0, <1>1, <2>1, <2>2, ScriptsMove
<1>2. ASSUME NEW c \in ScriptsCalls, scriptsCall[c].pc \in {"read", "push"},
             scriptsCall' = [scriptsCall EXCEPT ![c] = Scripts!Idle],
             Scripts!Release(c),
                    UNCHANGED <<scriptsContent, scriptsVersions, scriptsDeployment>>
      PROVE  ScriptsInv' /\ Scripts!MergeLeavesOtherFiles
  <2>1. /\ scriptsCall' \in [ScriptsCalls -> Scripts!Call] /\ scriptsCall'[c] = Scripts!Idle
        /\ \A d \in ScriptsCalls \ {c} : scriptsCall'[d] = scriptsCall[d]
    BY <1>0, <1>2, ScriptsIdle
  <2>2. /\ scriptsLock' = [scriptsLock EXCEPT ![ScriptsProcessOf[c]] = Scripts!Free]
        /\ scriptsLock[ScriptsProcessOf[c]] = c
    BY <1>0, <1>2 DEF Scripts!Release, Holds
  <2>3. \A d \in ScriptsCalls : Holds(d)'
         /\ (scriptsCall'[d] = scriptsCall[d] \/ Lays(scriptsCall[d])')
    BY <1>0, <2>1, <2>2, ScriptsIdle DEF Holds, Lays
  <2>4. scriptsLock' \in [ScriptsProcesses -> ScriptsCalls \cup {Scripts!Free}]
    BY <1>0, <2>2
  <2> QED
    BY <1>0, <1>2, <2>1, <2>3, <2>4, ScriptsMove
<1>3. ASSUME NEW c \in ScriptsCalls, Scripts!UpdateContent(c)
      PROVE  ScriptsInv' /\ Scripts!MergeLeavesOtherFiles
  <2> DEFINE k == [Scripts!Idle EXCEPT !.pc = "wait"]
  <2>1. k \in Scripts!Call /\ k.pc = "wait" /\ scriptsCall' = [scriptsCall EXCEPT ![c] = k]
    BY <1>3, ScriptsIdle DEF Scripts!Call, Scripts!UpdateContent, Scripts!Go
  <2> HIDE DEF k
  <2>2. /\ scriptsCall[c].pc = "idle"
        /\ UNCHANGED <<scriptsContent, scriptsVersions, scriptsDeployment, scriptsLock>>
    BY <1>3, ScriptsIdle DEF Scripts!UpdateContent
  <2> QED
    BY <1>0, <1>1, <2>1, <2>2
<1>4. ASSUME NEW c \in ScriptsCalls, Scripts!Lock(c)
      PROVE  ScriptsInv' /\ Scripts!MergeLeavesOtherFiles
  <2> DEFINE k == [scriptsCall[c] EXCEPT !.pc = "read"]
  <2>1. k \in Scripts!Call /\ k.pc = "read" /\ scriptsCall' = [scriptsCall EXCEPT ![c] = k]
    BY <1>0, <1>4 DEF Scripts!Call, Scripts!Lock, Scripts!Go
  <2> HIDE DEF k
  <2>2. /\ scriptsLock[ScriptsProcessOf[c]] = Scripts!Free
        /\ scriptsLock' = [scriptsLock EXCEPT ![ScriptsProcessOf[c]] = c]
        /\ UNCHANGED <<scriptsContent, scriptsVersions, scriptsDeployment>>
    BY <1>4 DEF Scripts!Lock
  <2>3. /\ scriptsCall' \in [ScriptsCalls -> Scripts!Call] /\ scriptsCall'[c] = k
        /\ \A d \in ScriptsCalls \ {c} : scriptsCall'[d] = scriptsCall[d]
    BY <1>0, <2>1
  <2>4. \A d \in ScriptsCalls : Holds(d)'
         /\ (scriptsCall'[d] = scriptsCall[d] \/ Lays(scriptsCall[d])')
    BY <1>0, <2>1, <2>2, <2>3 DEF Holds, Lays, ScriptsConstants
  <2>5. scriptsLock' \in [ScriptsProcesses -> ScriptsCalls \cup {Scripts!Free}]
    BY <1>0, <2>2
  <2> QED
    BY <1>0, <2>2, <2>3, <2>4, <2>5, ScriptsMove
<1>5. ASSUME NEW c \in ScriptsCalls, Scripts!ReadContent(c)
      PROVE  ScriptsInv' /\ Scripts!MergeLeavesOtherFiles
  <2>1. CASE Scripts!Go(c, Scripts!Idle) /\ Scripts!Release(c)
    BY <1>2, <1>5, <2>1 DEF Scripts!ReadContent, Scripts!Go
  <2>2. ASSUME NEW ask \in Scripts!Asks, NEW merge \in BOOLEAN, scriptsContent # Absent,
               NEW f \in Scripts!Target(IF merge THEN scriptsContent ELSE Scripts!NoFiles, ask),
               UNCHANGED scriptsLock,
               Scripts!Go(c, [scriptsCall[c] EXCEPT !.pc = "push", !.file = f, !.merge = merge,
                        !.body = Scripts!Laid(IF merge
                               THEN scriptsContent ELSE Scripts!NoFiles, f, ask.source)])
        PROVE  ScriptsInv' /\ Scripts!MergeLeavesOtherFiles
    <3> DEFINE files == IF merge THEN scriptsContent ELSE Scripts!NoFiles
               body == Scripts!Laid(files, f, ask.source)
               k == [scriptsCall[c] EXCEPT !.pc = "push", !.file = f, !.merge = merge,
                      !.body = body]
    <3>1. files \in Scripts!Content /\ (merge => files = scriptsContent)
      BY <1>0, <2>2 DEF Scripts!NoFiles, Scripts!Content
    <3>2. f \in ScriptsFiles
      BY DEF Scripts!Target, Scripts!SameName, Scripts!Present
    <3>3. ask.source \in ScriptsSources \cup {Omitted}
      BY DEF Scripts!Asks
    <3> HIDE DEF files
    <3>4. body \in Scripts!Content /\ \A g \in ScriptsFiles : g # f => body[g] = files[g]
      BY <3>1, <3>2, <3>3 DEF Scripts!Laid, Scripts!Content
    <3> HIDE DEF body
    <3>5. k \in Scripts!Call /\ k.pc = "push" /\ k.file = f /\ k.merge = merge /\ k.body = body
      <4>1. scriptsCall[c] \in Scripts!Call /\ k = Ready(scriptsCall[c], f, merge, body)
        BY <1>0 DEF Ready
      <4> HIDE DEF k
      <4> QED
        BY <3>2, <3>4, <4>1, ReadyToPush
    <3>6. scriptsCall' = [scriptsCall EXCEPT ![c] = k]
      BY <2>2 DEF Scripts!Go, body, files
    <3> HIDE DEF k
    <3>7. /\ scriptsCall' \in [ScriptsCalls -> Scripts!Call] /\ scriptsCall'[c] = k
          /\ \A d \in ScriptsCalls \ {c} : scriptsCall'[d] = scriptsCall[d]
      BY <1>0, <3>5, <3>6
    <3>8. /\ UNCHANGED <<scriptsContent, scriptsVersions, scriptsDeployment>>
          /\ scriptsCall[c].pc = "read"
      BY <1>5 DEF Scripts!ReadContent
    <3>9. \A d \in ScriptsCalls : Holds(d)'
           /\ (scriptsCall'[d] = scriptsCall[d] \/ Lays(scriptsCall[d])')
      BY <1>0, <2>2, <3>1, <3>4, <3>5, <3>7, <3>8 DEF Holds, Lays
    <3> QED
      BY <1>0, <2>2, <3>7, <3>8, <3>9, ScriptsMove
  <2> QED
    BY <1>5, <2>1, <2>2 DEF Scripts!ReadContent
<1>6. ASSUME NEW c \in ScriptsCalls, Scripts!Push(c)
      PROVE  ScriptsInv' /\ Scripts!MergeLeavesOtherFiles
  <2>1. CASE Scripts!Go(c, Scripts!Idle) /\ UNCHANGED scriptsContent
    BY <1>2, <1>6, <2>1 DEF Scripts!Push, Scripts!Go
  <2>2. CASE scriptsContent # Absent /\ scriptsContent' = scriptsCall[c].body
                                     /\ Scripts!Overtakes(ScriptsProcessOf[c], c)
    <3>1. scriptsContent' \in Scripts!Content
      BY <1>0, <1>6, <2>2 DEF Scripts!Push, Lays
    <3> QED
      BY <1>6, <2>2, <3>1, ScriptsPushed DEF Scripts!Push, Scripts!Release
  <2> QED
    BY <1>6, <2>1, <2>2 DEF Scripts!Push
<1>7. CASE Scripts!SomebodyEdits
  <2>1. scriptsContent' \in Scripts!Content /\ scriptsContent # Absent
    BY <1>0, <1>7 DEF Scripts!SomebodyEdits, Scripts!Content
  <2> QED
    BY <1>7, <2>1, ScriptsPushed DEF Scripts!SomebodyEdits, ScriptsConstants
<1>8. ASSUME UNCHANGED <<scriptsLock, scriptsCall>>,
             scriptsContent' \in {scriptsContent, Absent},
             scriptsVersions' \in 0..ScriptsMaxVersions,
             scriptsDeployment' \in [ScriptsDeployments -> 0..ScriptsMaxVersions]
      PROVE  ScriptsInv' /\ Scripts!MergeLeavesOtherFiles
  <2>1. \A d \in ScriptsCalls : Holds(d)'
    BY <1>0, <1>8 DEF Holds
  <2> QED
    BY <1>0, <1>8, <2>1, ScriptsMove
<1>9. CASE Scripts!DeleteScriptProject
  BY <1>8, <1>9 DEF Scripts!DeleteScriptProject, ScriptsConstants
<1>10. Scripts!Snapshot
       => scriptsVersions' \in 0..ScriptsMaxVersions
              /\ scriptsVersions + 1 \in 0..ScriptsMaxVersions
  BY <1>0 DEF Scripts!Snapshot, ScriptsConstants
<1>11. CASE Scripts!CreateVersion
  BY <1>0, <1>8, <1>10, <1>11 DEF Scripts!CreateVersion
<1>12. ASSUME NEW c \in ScriptsCalls, Scripts!CreateDeployment(c)
       PROVE  ScriptsInv' /\ Scripts!MergeLeavesOtherFiles
  <2> DEFINE k == [Scripts!Idle EXCEPT !.pc = "deploy", !.version = scriptsVersions + 1]
  <2>1. k \in Scripts!Call /\ k.pc = "deploy" /\ scriptsCall' = [scriptsCall EXCEPT ![c] = k]
    BY <1>10, <1>12, ScriptsIdle DEF Scripts!Call, Scripts!CreateDeployment, Scripts!Go
  <2> HIDE DEF k
  <2>2. /\ scriptsCall[c].pc = "idle"
        /\ UNCHANGED <<scriptsContent, scriptsDeployment, scriptsLock>>
        /\ scriptsVersions' \in 0..ScriptsMaxVersions
    BY <1>10, <1>12, ScriptsIdle DEF Scripts!CreateDeployment
  <2> QED
    BY <1>0, <1>1, <2>1, <2>2
<1>13. ASSUME NEW c \in ScriptsCalls, Scripts!Deploy(c)
       PROVE  ScriptsInv' /\ Scripts!MergeLeavesOtherFiles
  <2>1. scriptsCall[c].version \in 0..ScriptsMaxVersions
    BY <1>0 DEF Scripts!Call
  <2>2. scriptsDeployment' \in [ScriptsDeployments -> 0..ScriptsMaxVersions]
    BY <1>0, <1>13, <2>1 DEF Scripts!Deploy
  <2>3. /\ scriptsCall[c].pc = "deploy"
        /\ scriptsCall' = [scriptsCall EXCEPT ![c] = Scripts!Idle]
        /\ UNCHANGED <<scriptsContent, scriptsVersions, scriptsLock>>
    BY <1>13 DEF Scripts!Deploy, Scripts!Go
  <2> QED
    BY <1>0, <1>1, <2>2, <2>3, ScriptsIdle
<1>14. ASSUME NEW d \in ScriptsDeployments,
              Scripts!UpdateDeployment(d) \/ Scripts!DeleteDeployment(d)
       PROVE  ScriptsInv' /\ Scripts!MergeLeavesOtherFiles
  <2>1. scriptsDeployment' \in [ScriptsDeployments -> 0..ScriptsMaxVersions]
    <3>1. 1..scriptsVersions \subseteq 0..ScriptsMaxVersions /\ 0 \in 0..ScriptsMaxVersions
      BY <1>0 DEF ScriptsConstants
    <3> QED
      BY <1>0, <1>14, <3>1 DEF Scripts!UpdateDeployment, Scripts!DeleteDeployment
  <2> QED
    BY <1>0, <1>8, <1>14, <2>1 DEF Scripts!UpdateDeployment, Scripts!DeleteDeployment
<1> QED
  BY <1>3, <1>4, <1>5, <1>6, <1>7, <1>9, <1>11, <1>12, <1>13, <1>14 DEF Scripts!Next

\* So does a step of another tool.
LEMMA ScriptsKept ==
  ASSUME ScriptsInv, UNCHANGED Scripts!vars
  PROVE  ScriptsInv' /\ Scripts!MergeLeavesOtherFiles
BY DEF ScriptsInv, Scripts!TypeOK, Holds, Lays, Scripts!vars, Scripts!MergeLeavesOtherFiles

-----------------------------------------------------------------------------
(* The tools                                                               *)

\* A step is one of the component in focus, if it is one at all.
LEMMA InFocus ==
    ASSUME [EditsNext]_edits
    PROVE  /\ UNCHANGED focus
           /\ focus = "calendar" => Calendar!Next \/ UNCHANGED Calendar!vars
           /\ focus = "contacts" => Contacts!Next \/ UNCHANGED Contacts!vars
           /\ focus = "rows" => Rows!Next \/ UNCHANGED Rows!vars
           /\ focus = "tasks" => Tasks!Next \/ UNCHANGED Tasks!vars
           /\ focus = "scripts" => Scripts!Next \/ UNCHANGED Scripts!vars
<1>1. CASE EditsNext
  BY <1>1 DEF EditsNext, OtherEdits
<1>2. CASE UNCHANGED edits
  <2>1. UNCHANGED <<focus, calendarVars, contactsVars, rowsVars, tasksVars, scriptsVars>>
    BY <1>2 DEF edits
  <2> QED
    BY <2>1 DEF calendarVars, Calendar!vars, contactsVars, Contacts!vars, rowsVars, Rows!vars,
       tasksVars, Tasks!vars, scriptsVars, Scripts!vars
<1> QED BY <1>1, <1>2

\* What a tool's caller did not name is after each step what it was: an event's other
\* fields, the rest of a contact and what was written since, the rows around those that
\* move, the rest of a task, and the other files of a script.
THEOREM WhatIsNotNamedStays == Edits => NothingElseIsLost
<1> DEFINE Inv == /\ focus = "calendar" => CalendarInv
                  /\ focus = "contacts" => ContactsInv
                  /\ focus = "rows" => RowsInv
                  /\ focus = "tasks" => TasksInv
                  /\ focus = "scripts" => ScriptsInv
           Loses == /\ focus = "calendar" => Calendar!NothingElseRollsBack
                    /\ focus = "contacts" => Contacts!WritesLoseNothing
                    /\ focus = "rows" => Rows!MovesLoseNothing
                    /\ focus = "tasks" => Tasks!UpdateKeepsTheRest
                    /\ focus = "scripts" => Scripts!MergeLeavesOtherFiles
<1>1. EditsInit => Inv
  BY CalendarBegin, CalendarAssumption, ContactsBegin, ContactsAssumption, RowsBegin,
     RowsAssumption,
     TasksBegin, TasksAssumption, ScriptsBegin, ScriptsAssumption DEF EditsInit
<1>2. Inv /\ [EditsNext]_edits => Inv' /\ Loses
  <2> SUFFICES ASSUME Inv, [EditsNext]_edits
               PROVE  Inv' /\ Loses
    OBVIOUS
  <2>1. focus = "calendar" => CalendarInv' /\ Calendar!NothingElseRollsBack
    BY InFocus, CalendarStep, CalendarKept, CalendarAssumption
  <2>2. focus = "contacts" => ContactsInv' /\ Contacts!WritesLoseNothing
    BY InFocus, ContactsStep, ContactsKept, ContactsAssumption
  <2>3. focus = "rows" => RowsInv' /\ Rows!MovesLoseNothing
    BY InFocus, RowsStep, RowsKept, RowsAssumption
  <2>4. focus = "tasks" => TasksInv' /\ Tasks!UpdateKeepsTheRest
    BY InFocus, TasksStep, TasksKept, TasksAssumption
  <2>5. focus = "scripts" => ScriptsInv' /\ Scripts!MergeLeavesOtherFiles
    BY InFocus, ScriptsStep, ScriptsKept, ScriptsAssumption
  <2> QED
    BY <2>1, <2>2, <2>3, <2>4, <2>5, InFocus
<1> QED
  BY <1>1, <1>2, PTL DEF Edits, NothingElseIsLost
=============================================================================
