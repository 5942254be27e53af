--------------------------- MODULE CalendarEvents ---------------------------
(***************************************************************************)
(* The calendar tools that write (gcalendar/calendar_tools.py).  A tool    *)
(* reads the event, decides, and patches or deletes it with a second       *)
(* request; other tools and other people may write in between.             *)
(*                                                                         *)
(* A field is abstracted to the number of the write its value comes from,  *)
(* so a value that returns after it was replaced shows as a smaller number.*)
(***************************************************************************)
EXTENDS Naturals

CONSTANTS
    Calls,     \* tool calls in flight
    Events,    \* event ids
    Guests,    \* people on an event's attendee list, the user among them
    Self,      \* the user
    Unused,    \* an id no event has had yet
    Deleted,   \* an id whose event is deleted
    MaxWrites  \* bound on the writes to the calendar

VARIABLES
    event,  \* the calendar as Google keeps it
    call,   \* the calls in flight
    writes  \* writes so far

vars == <<event, call, writes>>

Kinds == {"default", "outOfOffice", "focusTime"}

\* text: summary, description, location, colorId and recurrence.  when: start, end and
\* whatever else a body holds only if it is asked for.  mode and message: the properties
\* of out-of-office and focus-time events.  A guest: the answer of that guest.
Props == {"mode", "message"}
Fields == {"text", "when", "conference"} \cup Props \cup Guests

\* role: is the user the organizer, a guest, or neither.
Event == [kind : Kinds, role : {"organizer", "guest", "neither"}, val : [Fields -> 0..MaxWrites]]

\* What a call read before it writes; blind: the read failed and the call goes on.
NotSeen == [f \in Fields |-> 0]
Idle == [does |-> "nothing", id |-> Unused, seen |-> NotSeen]
Call == [does : {"nothing", "modify", "modify_blind", "rsvp", "update_typed", "delete"},
         id : Events \cup {Unused}, seen : [Fields -> 0..MaxWrites]]

TypeOK ==
    /\ event \in [Events -> Event \cup {Unused, Deleted}]
    /\ call \in [Calls -> Call]
    /\ writes \in 0..MaxWrites

Init ==
    /\ event = [e \in Events |-> Unused]
    /\ call = [c \in Calls |-> Idle]
    /\ writes = 0

-----------------------------------------------------------------------------
(* What Google does *)

Exists(e) == event[e] \notin {Unused, Deleted}

\* events.insert.
Insert(e, kind, role) ==
    /\ event[e] = Unused
    /\ writes < MaxWrites
    /\ writes' = writes + 1
    /\ event' = [event EXCEPT ![e] = [kind |-> kind, role |-> role,
                                     val |-> [f \in Fields |-> writes + 1]]]

\* events.patch: a field of the body replaces the event's, the others stay.
Patched(e, asks, copied, seen) ==
    [event EXCEPT ![e].val = [f \in Fields |->
        IF f \in asks THEN writes + 1 ELSE IF f \in copied THEN seen[f] ELSE @[f]]]

\* Somebody else writes: a guest answers, a field is edited, an event deleted.
SomebodyElse ==
    \E e \in Events :
        /\ Exists(e) /\ writes < MaxWrites /\ writes' = writes + 1
        /\ \/ \E f \in Fields : event' = Patched(e, {f}, {}, NotSeen)
           \/ event' = [event EXCEPT ![e] = Deleted]
        /\ UNCHANGED call

-----------------------------------------------------------------------------
(* The read half of a tool, after which it goes on, or ends with an answer or an error *)

Begin(c, e, does, seen) ==
    /\ call' = [call EXCEPT ![c] = [does |-> does, id |-> e, seen |-> seen]]
    /\ UNCHANGED <<event, writes>>

Idling(c, e) == call[c] = Idle /\ event[e] # Unused

\* _modify_event_impl up to the get: 404 ends it, any other error means that nothing is
\* copied from the event.
ModifyEvent(c, e) ==
    /\ Idling(c, e)
    /\ \/ Exists(e) /\ Begin(c, e, "modify", event[e].val)
       \/ Begin(c, e, "modify_blind", NotSeen)

\* _delete_event_impl: any error but 404 is passed over.
DeleteEvent(c, e) == Idling(c, e) /\ Begin(c, e, "delete", NotSeen)

\* _rsvp_event_impl: only a guest may answer.
RsvpEvent(c, e) ==
    /\ Idling(c, e) /\ Exists(e)
    /\ event[e].role = "guest"
    /\ Begin(c, e, "rsvp", event[e].val)

\* The type of an event is checked on the read.
Typed(c, e, kind, does, seen) ==
    /\ Idling(c, e) /\ Exists(e)
    /\ event[e].kind = kind
    /\ Begin(c, e, does, seen)

UpdateOutOfOffice(c, e) == Typed(c, e, "outOfOffice", "update_typed", event[e].val)
UpdateFocusTime(c, e) == Typed(c, e, "focusTime", "update_typed", event[e].val)
DeleteOutOfOffice(c, e) == Typed(c, e, "outOfOffice", "delete", NotSeen)
DeleteFocusTime(c, e) == Typed(c, e, "focusTime", "delete", NotSeen)

-----------------------------------------------------------------------------
(* The write half: it fails when the event is gone, and may fail anyway *)

\* A plausible bug: conference data is taken from the event as the other fields are.
CopiedWithConference(asks) ==
    ({"text", "conference"} \ asks) \cup (IF asks \cap Guests = {} THEN Guests ELSE {})

\* _preserve_existing_fields as _modify_event_impl calls it: not given means copied from
\* the event as it was read, the attendee list as a whole.
Copied(asks) ==
    ({"text"} \ asks) \cup (IF asks \cap Guests = {} THEN Guests ELSE {})

\* The fields an update may ask for: at least one, all guests or none of them.
Asked == ((SUBSET {"text", "when", "conference"}) \ {{}})
         \cup {asks \cup Guests : asks \in SUBSET {"text", "when", "conference"}}

\* The bodies a tool may send: the fields it was asked for, and those it copies.  A list
\* of attendees replaces everybody's answer (_normalize_attendees), an answer is sent
\* with all the others, and properties go together as soon as one of them is given.
Bodies(does) ==
    CASE does = "modify" ->
           {<<asks, Copied(asks)>> : asks \in Asked}
      [] does = "modify_blind" -> {<<asks, {}>> : asks \in Asked}
      [] does = "rsvp" -> {<<{Self}, Guests \ {Self}>>}
      [] does = "update_typed" ->
           {<<asks, IF asks \cap Props = {} THEN {} ELSE Props \ asks>> :
               asks \in (SUBSET ({"text", "when"} \cup Props)) \ {{}}}

Patch(c) ==
    /\ call[c].does \notin {"nothing", "delete"}
    /\ call' = [call EXCEPT ![c] = Idle]
    /\ \/ /\ Exists(call[c].id) /\ writes < MaxWrites
          /\ writes' = writes + 1
          /\ \E body \in Bodies(call[c].does) :
               event' = Patched(call[c].id, body[1], body[2], call[c].seen)
       \/ UNCHANGED <<event, writes>>

Delete(c) ==
    /\ call[c].does = "delete"
    /\ call' = [call EXCEPT ![c] = Idle]
    /\ \/ /\ Exists(call[c].id) /\ writes < MaxWrites
          /\ writes' = writes + 1
          /\ event' = [event EXCEPT ![call[c].id] = Deleted]
       \/ UNCHANGED <<event, writes>>

-----------------------------------------------------------------------------
(* The tools *)

\* _create_event_impl, and a calendar that already holds other people's invitations.
CreateEvent(e) == \E role \in {"organizer", "guest", "neither"} : Insert(e, "default", role)
CreateOutOfOffice(e) == Insert(e, "outOfOffice", "organizer")
CreateFocusTime(e) == Insert(e, "focusTime", "organizer")

ManageEvent(e) ==
    \/ CreateEvent(e) /\ UNCHANGED call
    \/ \E c \in Calls : ModifyEvent(c, e) \/ DeleteEvent(c, e) \/ RsvpEvent(c, e)

ManageOutOfOffice(e) ==
    \/ CreateOutOfOffice(e) /\ UNCHANGED call
    \/ \E c \in Calls : UpdateOutOfOffice(c, e) \/ DeleteOutOfOffice(c, e)

ManageFocusTime(e) ==
    \/ CreateFocusTime(e) /\ UNCHANGED call
    \/ \E c \in Calls : UpdateFocusTime(c, e) \/ DeleteFocusTime(c, e)

Next ==
    \/ \E e \in Events : ManageEvent(e) \/ ManageOutOfOffice(e) \/ ManageFocusTime(e)
    \/ \E c \in Calls : Patch(c) \/ Delete(c)
    \/ SomebodyElse

Spec == Init /\ [][Next]_vars

-----------------------------------------------------------------------------
(* Properties *)

\* "Existing conference data preserved via patch (not copied)": whoever writes between
\* the read and the patch of a tool, times and conference data never return to a value
\* that was replaced; nor does an event come back once it is deleted.
NothingElseRollsBack ==
    \A e \in Events :
        /\ event[e] = Deleted => event'[e] = Deleted
        /\ Exists(e) /\ event'[e] # Deleted =>
             \A f \in {"when", "conference"} : event'[e].val[f] >= event[e].val[f]

ConferenceSurvives == [][NothingElseRollsBack]_vars
=============================================================================
