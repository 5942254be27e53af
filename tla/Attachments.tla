----------------------------- MODULE Attachments ----------------------------
(***************************************************************************)
(* Files kept for download (core/attachment_storage.py, and the route of   *)
(* core/server.py that serves them): a file on disk and an entry in the    *)
(* memory of the process, written and removed one after the other by       *)
(* worker threads while requests are answered.                             *)
(***************************************************************************)
EXTENDS Naturals

CONSTANTS
    Ids,       \* file ids, each used once
    Saves,     \* worker threads saving a file
    Requests,  \* requests being answered
    NoId,      \* none
    Lifetime   \* expiration_seconds, in ticks

VARIABLES
    now,       \* time
    disk,      \* id -> what is in its file
    entry,     \* _metadata: id -> the tick it expires at
    saving,    \* the id a worker thread is writing
    request,   \* a request: what it asks for and how far it has got
    until,     \* history: id -> the tick the URL handed out for it is good until
    disturbed  \* ids whose file something else removed, or could not be removed

vars == <<now, disk, entry, saving, request, until, disturbed>>

Never == Lifetime + Lifetime + 1
Times == 0..(Lifetime + Lifetime)
NoRequest == [id |-> NoId, pc |-> "none"]

TypeOK ==
    /\ now \in Times
    /\ disk \in [Ids -> {"unused", "absent", "partial", "whole"}]
    /\ entry \in [Ids -> Times \cup {Never}]
    /\ saving \in [Saves -> Ids \cup {NoId}]
    /\ request \in [Requests -> [id : Ids \cup {NoId},
                                 pc : {"none", "listed", "found", "served", "refused", "broken"}]]
    /\ until \in [Ids -> Times \cup {Never}] /\ disturbed \subseteq Ids

Init ==
    /\ now = 0
    /\ disk = [i \in Ids |-> "unused"]
    /\ entry = [i \in Ids |-> Never]
    /\ saving = [s \in Saves |-> NoId]
    /\ request = [r \in Requests |-> NoRequest]
    /\ until = [i \in Ids |-> Never]
    /\ disturbed = {}

Listed(i) == entry[i] # Never
HandedOut(i) == until[i] # Never
Expired(i) == Listed(i) /\ now > entry[i]

-----------------------------------------------------------------------------
(* save_attachment and get_attachment_url *)

\* The file is created under a name of its own ...
Open(s, i) ==
    /\ saving[s] = NoId /\ disk[i] = "unused"
    /\ saving' = [saving EXCEPT ![s] = i]
    /\ disk' = [disk EXCEPT ![i] = "partial"]
    /\ UNCHANGED <<now, entry, request, until, disturbed>>

\* A bug of the kind the order guards against: the entry is made whatever came of it.
WriteUnchecked(s) ==
    /\ saving[s] # NoId
    /\ LET i == saving[s]
       IN \/ /\ disk' = [disk EXCEPT ![i] = "whole"]
          \/ UNCHANGED disk
    /\ entry' = [entry EXCEPT ![saving[s]] = now + Lifetime]
    /\ until' = [until EXCEPT ![saving[s]] = now + Lifetime]
    /\ saving' = [saving EXCEPT ![s] = NoId]
    /\ UNCHANGED <<now, request, disturbed>>

\* ... written in full, entered, and its URL handed out; a failure leaves the file as far
\* as it got, without an entry.  Bound: nothing is saved that could not expire.
Write(s) ==
    /\ saving[s] # NoId
    /\ LET i == saving[s]
       IN \/ /\ now <= Lifetime
             /\ disk' = [disk EXCEPT ![i] = "whole"]
             /\ entry' = [entry EXCEPT ![i] = now + Lifetime]
             /\ until' = [until EXCEPT ![i] = now + Lifetime]
          \/ UNCHANGED <<disk, entry, until>>
    /\ saving' = [saving EXCEPT ![s] = NoId]
    /\ UNCHANGED <<now, request, disturbed>>

-----------------------------------------------------------------------------
(* serve_attachment *)

\* _cleanup_file: the entry goes whether or not the file could be removed.
Cleanup(i) ==
    /\ entry' = [entry EXCEPT ![i] = Never]
    /\ \/ disk' = [disk EXCEPT ![i] = "absent"] /\ UNCHANGED disturbed
       \/ UNCHANGED disk /\ disturbed' = disturbed \cup {i}

To(r, pc) == request' = [request EXCEPT ![r].pc = pc]

\* get_attachment_metadata; an expired file is removed on the way.
Ask(r, i) ==
    /\ request[r] = NoRequest /\ HandedOut(i)
    /\ request' = [request EXCEPT ![r] =
                     [id |-> i, pc |-> IF Listed(i) /\ ~Expired(i) THEN "listed" ELSE "refused"]]
    /\ IF Expired(i) THEN Cleanup(i) ELSE UNCHANGED <<entry, disk, disturbed>>
    /\ UNCHANGED <<now, saving, until>>

\* get_attachment_path: everything is looked at once more.
Find(r) ==
    /\ request[r].pc = "listed"
    /\ LET i == request[r].id
       IN IF ~Listed(i) THEN To(r, "refused") /\ UNCHANGED <<entry, disk, disturbed>>
          ELSE IF Expired(i) THEN To(r, "refused") /\ Cleanup(i)
          ELSE IF disk[i] = "absent"
          THEN /\ To(r, "refused") /\ UNCHANGED <<disk, disturbed>>
               /\ entry' = [entry EXCEPT ![i] = Never]
          ELSE To(r, "found") /\ UNCHANGED <<entry, disk, disturbed>>
    /\ UNCHANGED <<now, saving, until>>

\* FileResponse opens the file when the answer is sent.
Send(r) ==
    /\ request[r].pc = "found"
    /\ To(r, CASE disk[request[r].id] = "whole" -> "served"
               [] OTHER -> "broken")
    /\ UNCHANGED <<now, disk, entry, saving, until, disturbed>>

Done(r) ==
    /\ request[r].pc \in {"served", "refused", "broken"}
    /\ request' = [request EXCEPT ![r] = NoRequest]
    /\ UNCHANGED <<now, disk, entry, saving, until, disturbed>>

-----------------------------------------------------------------------------
(* The world *)

Tick ==
    /\ now < Lifetime + Lifetime
    /\ now' = now + 1
    /\ UNCHANGED <<disk, entry, saving, request, until, disturbed>>

\* The operating system tidies up.
Vanish(i) ==
    /\ disk[i] \in {"whole", "partial"} /\ \A s \in Saves : saving[s] # i
    /\ disk' = [disk EXCEPT ![i] = "absent"]
    /\ disturbed' = disturbed \cup {i}
    /\ UNCHANGED <<now, entry, saving, request, until>>

\* The process ends: the entries are gone and the files stay.
Restart ==
    /\ entry' = [i \in Ids |-> Never]
    /\ saving' = [s \in Saves |-> NoId]
    /\ request' = [r \in Requests |-> NoRequest]
    /\ disturbed' = disturbed \cup {i \in Ids : disk[i] # "unused"}
    /\ UNCHANGED <<now, disk, until>>

Next ==
    \/ \E s \in Saves : (\E i \in Ids : Open(s, i)) \/ Write(s)
    \/ \E r \in Requests : (\E i \in Ids : Ask(r, i)) \/ Find(r) \/ Send(r) \/ Done(r)
    \/ Tick \/ (\E i \in Ids : Vanish(i)) \/ Restart

Spec == Init /\ [][Next]_vars

-----------------------------------------------------------------------------
(* Properties *)

\* "The file will expire after 1 hour": until its time is up a file a tool handed out is
\* there in full and listed, unless the process has ended or others removed it; a request
\* that finds it then is sent the whole file, and finds nothing that is no longer there
\* but what expired, or was removed, between the look and the answer.
UrlsAreGood ==
    /\ \A i \in Ids \ disturbed :
         HandedOut(i) /\ now <= until[i] => disk[i] = "whole" /\ Listed(i)
    /\ \A r \in Requests :
         LET i == request[r].id
         IN request[r].pc = "broken" => i \in disturbed \/ now > until[i]
=============================================================================
