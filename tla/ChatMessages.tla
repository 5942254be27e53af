---------------------------- MODULE ChatMessages ----------------------------
(***************************************************************************)
(* gchat/chat_tools.py: reading the messages of a space and searching all  *)
(* spaces, with the names of the senders, which every call of the process  *)
(* looks up in one cache and, if they are not there, in the directory.     *)
(*                                                                         *)
(* Of a message its space and its sender count; messages that do not match *)
(* are left out.  A sender is shown by a name or by the bare id.  The SSL  *)
(* errors of a space are counted, for the third gives it up.               *)
(***************************************************************************)
EXTENDS Naturals, Sequences, FiniteSets
LOCAL INSTANCE SequencesExt

CONSTANTS
    Calls,      \* tool calls in flight
    Senders,
    Spaces,     \* the sequence in which the service lists them
    MaxSpaces,  \* max_spaces
    Retries,    \* _SEARCH_MESSAGES_SSL_RETRIES
    CacheMax,   \* _SENDER_CACHE_MAX_SIZE, at least 2
    Nobody,     \* no sender
    MaxPosts    \* bound: messages posted

VARIABLES
    posts,  \* per space, who has a matching message in it
    cache,  \* _sender_name_cache, in the order of its keys
    call

vars == <<posts, cache, call>>

AllSpaces == ToSet(Spaces)
Messages == AllSpaces \X Senders
\* refused: spaces that answered with an error; skipped: those whose requests all failed;
\* since (history): the messages there were when the call began; told: the spaces the answer
\* says were skipped.
Idle ==
    [pc |-> "idle", tool |-> "get", todo |-> {}, errors |-> [s \in AllSpaces |-> 0],
     refused |-> {}, skipped |-> {}, since |-> {}, found |-> {}, names |-> <<>>, asked |-> Nobody,
     answer |-> "none", told |-> 0]
\* get_messages, and search_messages with a space and without one.
Tools == {"get", "search_one", "search_all"}

TypeOK ==
    /\ posts \in SUBSET Messages
    /\ \A i \in DOMAIN cache : cache[i].user \in Senders /\ cache[i].name \in {"name", "id"}
    /\ \A c \in Calls :
        /\ call[c].pc \in {"idle", "fetch", "names", "ask", "done"}
        /\ call[c].tool \in Tools
        /\ call[c].todo \cup call[c].refused \cup call[c].skipped \subseteq AllSpaces
        /\ call[c].found \cup call[c].since \subseteq Messages
        /\ DOMAIN call[c].names \subseteq Senders

Init ==
    /\ posts = {}
    /\ cache = <<>>
    /\ call = [c \in Calls |-> Idle]

Becomes(c, r) == call' = [call EXCEPT ![c] = r]
Answers(c, what, told) ==
    Becomes(c, [call[c] EXCEPT !.pc = "done", !.answer = what, !.told = told])

-----------------------------------------------------------------------------
(* The cache.  A dict: a key that is set again keeps its place. *)

Cached(user) == {cache[i].name : i \in {j \in DOMAIN cache : cache[j].user = user}}

\* A bug of the kind a bound checked after the fact is: the cache is thinned out only once
\* it has grown beyond its size.
RoomLate(entries) ==
    IF Len(entries) > CacheMax THEN SubSeq(entries, CacheMax \div 2 + 1, Len(entries))
    ELSE entries

\* Half of it goes, the oldest keys first, when it is full, also when the key is in it.
Room(entries) ==
    IF Len(entries) >= CacheMax THEN SubSeq(entries, CacheMax \div 2 + 1, Len(entries))
    ELSE entries

\* _cache_sender.
CacheSender(user, name) ==
    LET room == Room(cache)
        places == {i \in DOMAIN room : room[i].user = user}
    IN cache' = IF places = {} THEN Append(room, [user |-> user, name |-> name])
                ELSE [i \in DOMAIN room |->
                        IF i \in places THEN [room[i] EXCEPT !.name = name] ELSE room[i]]

-----------------------------------------------------------------------------
(* The calls. *)

\* The first of the spaces when there are more than the call may search.
Searched == {Spaces[i] : i \in {j \in DOMAIN Spaces : j <= MaxSpaces}}

Begin(c) ==
    /\ call[c].pc = "idle"
    /\ LET k == [Idle EXCEPT !.pc = "fetch", !.since = posts]
       IN \/ \E tool \in {"get", "search_one"}, s \in AllSpaces :
               Becomes(c, [k EXCEPT !.tool = tool, !.todo = {s}])
          \/ Becomes(c, [k EXCEPT !.tool = "search_all", !.todo = Searched])
    /\ UNCHANGED <<posts, cache>>

\* get_messages asks once, a search up to three times. (That a search of one space is called
\* again by its decorator when they all fail is another call here.)
Patience(tool) == IF tool = "get" THEN 1 ELSE Retries

\* fetch_space_messages and _execute_chat_request: the spaces one at a time (the
\* semaphore), in any order, for one that waits to try again lets the others go first. An
\* HttpError of whatever status makes a space one without messages.
Fetch(c, s) ==
    LET k == call[c]
        left == [k EXCEPT !.todo = @ \ {s}]
        lastError == k.errors[s] + 1 = Patience(k.tool)
    IN /\ k.pc = "fetch" /\ s \in k.todo
       /\ \/ Becomes(c, [left EXCEPT !.found = @ \cup (posts \cap ({s} \X Senders))])
          \/ /\ ~lastError
             /\ Becomes(c, [k EXCEPT !.errors[s] = @ + 1])
          \* The error of the only space is the error of the tool.
          \/ /\ k.tool # "search_all"
             /\ Answers(c, "raised", 0)
          \/ /\ k.tool = "search_all"
             /\ \/ Becomes(c, [left EXCEPT !.refused = @ \cup {s}])
                \/ lastError /\ Becomes(c, [left EXCEPT !.skipped = @ \cup {s}])
       /\ UNCHANGED <<posts, cache>>

\* A plausible bug: the last error of a space is taken for an answer without messages.
HopelessNever(k) == FALSE

\* When every space was given up the search is to be made again.
Hopeless(k) ==
    k.tool = "search_all" /\ Searched # {} /\ Cardinality(k.skipped) = Cardinality(Searched)

\* All fetched: the error, the answer without messages, or on to the names.
Collect(c) ==
    LET k == call[c]
    IN /\ k.pc = "fetch" /\ k.todo = {}
       /\ CASE Hopeless(k) -> Answers(c, "raised", 0)
            [] ~Hopeless(k) /\ k.found = {} -> Answers(c, "none", Cardinality(k.skipped))
            [] OTHER -> Becomes(c, [k EXCEPT !.pc = "names"])
       /\ UNCHANGED <<posts, cache>>

Unnamed(k) == {m[2] : m \in k.found} \ DOMAIN k.names
Named(k, user, name) ==
    [k EXCEPT !.pc = "names", !.asked = Nobody,
              !.names = [u \in DOMAIN k.names \cup {user} |->
                            IF u = user THEN name ELSE k.names[u]]]

\* _resolve_sender up to its await: the cache, or a request to the directory.
Resolve(c, user) ==
    LET k == call[c]
    IN /\ k.pc = "names" /\ user \in Unnamed(k)
       /\ \/ \E name \in Cached(user) : Becomes(c, Named(k, user, name))
          \/ /\ Cached(user) = {}
             /\ Becomes(c, [k EXCEPT !.pc = "ask", !.asked = user])
       /\ UNCHANGED <<posts, cache>>

\* The rest of it: a failure and a person without a name are cached as the bare id.
Resolved(c) ==
    LET k == call[c]
    IN /\ k.pc = "ask"
       /\ \E name \in {"name", "id"} :
            /\ CacheSender(k.asked, name)
            /\ Becomes(c, Named(k, k.asked, name))
       /\ UNCHANGED posts

Show(c) ==
    /\ call[c].pc = "names" /\ Unnamed(call[c]) = {}
    /\ Answers(c, "found", 0)
    /\ UNCHANGED <<posts, cache>>

\* A lookup of some other call of the process ends.
ResolvedElsewhere ==
    /\ \E user \in Senders, name \in {"name", "id"} :
         CacheSender(user, name)
    /\ UNCHANGED <<posts, call>>

Post ==
    /\ Cardinality(posts) < MaxPosts
    /\ \E m \in Messages \ posts : posts' = posts \cup {m}
    /\ UNCHANGED <<cache, call>>

Next ==
    \/ Post \/ ResolvedElsewhere
    \/ \E c \in Calls :
        \/ Begin(c) \/ Collect(c) \/ Resolved(c) \/ Show(c)
        \/ \E s \in AllSpaces : Fetch(c, s)
        \/ \E user \in Senders : Resolve(c, user)

Spec == Init /\ [][Next]_vars

-----------------------------------------------------------------------------
(* Properties. *)

\* A search of all spaces that says there is nothing tells how many it gave up after
\* repeated SSL errors, and has not given up all of them; in those it was to search that are
\* neither given up nor answered with an error there was no message when it began, in
\* whatever order the requests ended and others posted. Of the spaces that answered with an
\* error it tells nothing.
SearchesMissNothingTheyRead ==
    \A c \in Calls : LET k == call[c] IN
        k.pc = "done" /\ k.answer = "none" /\ k.tool = "search_all" =>
            /\ k.told = Cardinality(k.skipped)
            /\ k.skipped = {} \/ k.skipped # Searched
            /\ \A m \in k.since : m[1] \in Searched => m[1] \in k.refused \cup k.skipped

\* However the lookups of overlapping calls end, the cache keeps within its size and holds
\* one name of a sender.
CacheIsBounded ==
    /\ Len(cache) <= CacheMax
    /\ \A i, j \in DOMAIN cache : i # j => cache[i].user # cache[j].user

\* Not so: "No messages found ... in all accessible spaces" is also said when a space
\* answered with an error, 429 and 500 too, or was one too many.
NothingFoundMeansNothingThere ==
    \A c \in Calls : LET k == call[c] IN
        k.answer = "none" /\ k.tool = "search_all" => \A m \in k.since : m[1] \in k.skipped

\* Not so: a search that found something says "in all accessible spaces" and nothing of
\* those it skipped, and a lookup that fails late replaces a name by the bare id.
FindingsTellWhatTheySkip ==
    \A c \in Calls : call[c].answer = "found" => call[c].skipped = {}
NamesAreKept ==
    [][\A user \in Senders : "name" \in Cached(user) => "id" \notin Cached(user)']_vars
=============================================================================
