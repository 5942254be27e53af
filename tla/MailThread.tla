----------------------------- MODULE MailThread -----------------------------
(***************************************************************************)
(* One thread of a mailbox and the Gmail tools that write to it            *)
(* (gmail/gmail_tools.py, gmail_helpers.py): replies are composed from a   *)
(* fetched thread, forwards from a fetched message and its attachments,    *)
(* and both are posted by a request the client library sends again when    *)
(* its answer is lost.  A message is known by its Message-ID; what is      *)
(* posted to no thread begins one of its own.                              *)
(***************************************************************************)
EXTENDS Naturals, Sequences, FiniteSets
LOCAL INSTANCE SequencesExt

CONSTANTS
    Calls,       \* tool calls in flight
    User,        \* the user
    Others,      \* who writes to the user
    Nobody,      \* a recipient or a sender that is not known
    MaxMessages, \* bound on the messages of the mailbox
    MaxFiles,    \* bound on the attachments of a message
    GOOGLE_API_WRITE_RETRIES  \* retries of a post

VARIABLES
    thread,  \* the messages, in the order of their dates
    apart,   \* those that were posted into threads of their own
    call     \* the calls in flight

vars == <<thread, apart, call>>

People == {User} \cup Others
NoMessage == 0
Ids == 1..MaxMessages
Message == [id : Ids, from : People, to : People \cup {Nobody}, draft : BOOLEAN,
            trash : BOOLEAN, files : 0..MaxFiles]
Mails == [to : People \cup {Nobody}, draft : BOOLEAN, files : 0..MaxFiles]

\* mail: what the call has composed; named: it goes to the thread; reply, refs: the headers
\* of a draft; of: the message it answers with headers of its own making, or forwards;
\* left: retries left.
Idle == [pc |-> "idle", mail |-> Nobody, named |-> FALSE, of |-> NoMessage, reply |-> NoMessage,
         refs |-> <<>>, left |-> 0]
Call == [pc : {"idle", "files", "post"}, mail : Mails \cup {Nobody}, named : BOOLEAN,
         of : {NoMessage} \cup Ids, reply : {NoMessage} \cup Ids, refs : Seq(Ids),
         left : 0..GOOGLE_API_WRITE_RETRIES]

TypeOK ==
    /\ thread \in Seq(Message) /\ apart \in Seq(Message)
    /\ {m.id : m \in ToSet(thread \o apart)} = 1..Len(thread \o apart)
    /\ call \in [Calls -> Call]

Init ==
    /\ thread = <<>>
    /\ apart = <<>>
    /\ call = [c \in Calls |-> Idle]

-----------------------------------------------------------------------------
(* _fetch_thread_reply_context, _derive_reply_headers *)

IdsOf(s) == [i \in DOMAIN s |-> s[i].id]
Known == ToSet(IdsOf(thread))
The(id) == CHOOSE m \in ToSet(thread) : m.id = id

\* The messages of a context, trashed ones left out.
Context == IdsOf(SelectSeq(thread, LAMBDA m : ~m.trash))

\* The message a reply is composed for.
ReplyTarget(ids, inReplyTo) == IF inReplyTo \in ToSet(ids) THEN inReplyTo ELSE Last(ids)

\* The ids up to and with the one that is answered.
Chain(ids, id) == SubSeq(ids, 1, CHOOSE i \in DOMAIN ids : ids[i] = id)

DerivedReply(ids, inReplyTo, refs) ==
    IF inReplyTo # NoMessage \/ ids = <<>> THEN inReplyTo
    ELSE IF refs # <<>> THEN Last(refs) ELSE Last(ids)

DerivedRefs(ids, reply, refs) ==
    IF refs # <<>> \/ ids = <<>> THEN refs
    ELSE IF reply \in ToSet(ids) THEN Chain(ids, reply) ELSE <<reply>>

-----------------------------------------------------------------------------
(* Composing. What the caller attaches to a mail of his own is left out. *)

Compose(c, rec) ==
    /\ call[c] = Idle
    /\ call' = [call EXCEPT ![c] = [rec EXCEPT !.left = GOOGLE_API_WRITE_RETRIES]]
    /\ UNCHANGED <<thread, apart>>
Mail(to, draft, files) == [to |-> to, draft |-> draft, files |-> files]

\* What the caller may give: nothing, or headers it has read off the thread before.
KnownRefs == {<<>>} \cup {<<id>> : id \in Known}

\* draft_gmail_message. What is missing of the headers and the recipient of an answer is
\* taken from the thread; a context that cannot be fetched leaves them as they are, and when
\* every message is trashed composing fails. A caller who gives references, or a message that
\* is trashed, gets the recipient of the last message all the same.
DraftMessage(c) ==
    \E named \in BOOLEAN, given \in Others \cup {Nobody}, inReplyTo \in {NoMessage} \cup Known,
       refs \in KnownRefs :
      LET k == [Idle EXCEPT !.pc = "post", !.named = named]
          ids == Context
          reply == DerivedReply(ids, inReplyTo, refs)
          target == ReplyTarget(ids, inReplyTo)
          own == given = Nobody /\ refs = <<>> /\ inReplyTo \in {NoMessage} \cup ToSet(ids)
      IN \/ /\ named /\ ids # <<>>
            /\ Compose(c, [k EXCEPT !.mail = Mail(IF given = Nobody THEN The(target).from ELSE given, TRUE, 0),
                                    !.of = IF own THEN target ELSE NoMessage,
                                    !.reply = reply, !.refs = DerivedRefs(ids, reply, refs)])
         \/ /\ named => thread # <<>>
            /\ Compose(c, [k EXCEPT !.mail = Mail(given, TRUE, 0), !.reply = inReplyTo, !.refs = refs])

\* send_gmail_message, whose headers are the caller's.
SendMessage(c) ==
    \E to \in Others, named \in {thread # <<>>, FALSE} :
        Compose(c, [Idle EXCEPT !.pc = "post", !.mail = Mail(to, FALSE, 0), !.named = named])

\* send_gmail_message with forward_message_id: the message is fetched, then its
\* attachments one by one if they are wanted. It goes to no thread.
ForwardMessage(c) ==
    \E of \in Known, to \in Others :
        \/ Compose(c, [Idle EXCEPT !.pc = "files", !.mail = Mail(to, FALSE, 0), !.of = of])
        \/ Compose(c, [Idle EXCEPT !.pc = "post", !.mail = Mail(to, FALSE, 0)])

\* A bug of the kind the check guards against: what fails is left out silently.
FetchFilesThatCome(c) ==
    /\ call[c].pc = "files"
    /\ \E got \in 0..The(call[c].of).files :
         call' = [call EXCEPT ![c].mail.files = got, ![c].pc = "post"]
    /\ UNCHANGED <<thread, apart>>

\* One that fails fails the forward.
FetchFiles(c) ==
    /\ call[c].pc = "files"
    /\ \E got \in 0..The(call[c].of).files :
         call' = IF got = The(call[c].of).files
                 THEN [call EXCEPT ![c].mail.files = got, ![c].pc = "post"]
                 ELSE [call EXCEPT ![c] = Idle]
    /\ UNCHANGED <<thread, apart>>

-----------------------------------------------------------------------------
(* Posting *)

\* A message joins the thread it names; a draft only with both headers, and otherwise it
\* is one that belongs to no thread.
Threaded(k) == k.named /\ (k.mail.draft => k.reply # NoMessage /\ k.refs # <<>>)

Room == Len(thread) + Len(apart) < MaxMessages
NewMessage(from, mail) ==
    [id |-> Len(thread) + Len(apart) + 1, from |-> from, to |-> mail.to, draft |-> mail.draft,
     trash |-> FALSE, files |-> mail.files]
Lands(c) ==
    LET m == NewMessage(User, call[c].mail)
    IN /\ Room
       /\ IF Threaded(call[c]) THEN thread' = Append(thread, m) /\ UNCHANGED apart
          ELSE apart' = Append(apart, m) /\ UNCHANGED thread
Retried(c) == IF call[c].left > 0 THEN [call[c] EXCEPT !.left = @ - 1] ELSE Idle

\* The message is stored and the answer comes; it is stored and the answer is lost; it is
\* not stored.  The last two are tried again, as long as the library has retries left.
Post(c) ==
    /\ call[c].pc = "post"
    /\ \/ Lands(c) /\ call' = [call EXCEPT ![c] = Idle]
       \/ Lands(c) /\ call' = [call EXCEPT ![c] = Retried(c)]
       \/ call' = [call EXCEPT ![c] = Retried(c)] /\ UNCHANGED <<thread, apart>>
       \/ call' = [call EXCEPT ![c] = Idle] /\ UNCHANGED <<thread, apart>>

-----------------------------------------------------------------------------
(* Labels, and everybody else *)

\* modify_gmail_message_labels: a message goes to the trash or comes back.  For the batch
\* it is the messages one after the other.
ModifyLabels ==
    /\ \E i \in DOMAIN thread : thread' = [thread EXCEPT ![i].trash = ~@]
    /\ UNCHANGED <<apart, call>>

\* A message comes in.
Arrive ==
    /\ Room
    /\ \E p \in Others, files \in 0..MaxFiles :
         thread' = Append(thread, NewMessage(p, Mail(User, FALSE, files)))
    /\ UNCHANGED <<apart, call>>

\* The user sends a draft in his own client: its date is that of the sending, so it is
\* now the last of the thread.
SendDraft ==
    /\ \E i \in DOMAIN thread :
         /\ thread[i].draft /\ thread[i].to # Nobody
         /\ thread' = Append(RemoveAt(thread, i), [thread[i] EXCEPT !.draft = FALSE])
    /\ UNCHANGED <<apart, call>>

-----------------------------------------------------------------------------
(* _analyze_thread_ownership_impl *)

\* A bug of the kind the label guards against: drafts count as well.
SentWithDrafts(t) == SelectSeq(t, LAMBDA m : m.draft \in BOOLEAN)

\* The messages that count: drafts do not.
Sent(t) == SelectSeq(t, LAMBDA m : ~m.draft)

BallInCourtOf(t) ==
    LET sent == Sent(t)
        external == UNION {{sent[i].from, sent[i].to} : i \in DOMAIN sent} \ {User, Nobody}
    IN IF sent = <<>> \/ external = {} THEN Nobody
       ELSE IF Last(sent).from = User THEN "them" ELSE "user"

-----------------------------------------------------------------------------
Next ==
    \/ \E c \in Calls :
         \/ DraftMessage(c) \/ SendMessage(c) \/ ForwardMessage(c)
         \/ FetchFiles(c) \/ Post(c)
    \/ ModifyLabels \/ Arrive \/ SendDraft

Spec == Init /\ [][Next]_vars

-----------------------------------------------------------------------------
(* Properties *)

\* The mail a call lands, each time it lands it: a draft that was left to find its own
\* headers joins the thread, is addressed to the writer of the very message it answers, and
\* its references end there; one without both headers stays out of the thread; a forward
\* stays out of it too and, with its attachments, has all of them, whatever failed on the
\* way and whatever came in, was sent, trashed or posted meanwhile.
LandsAsComposed ==
    \A c \in Calls :
        LET k == call[c]
            joins == Len(thread') > Len(thread)
            posted == call'[c] # k /\ (joins \/ Len(apart') > Len(apart))
        IN k.pc = "post" /\ posted =>
             /\ k.mail.draft /\ joins => k.reply # NoMessage /\ k.refs # <<>>
             /\ k.of # NoMessage =>
                  IF k.mail.draft
                  THEN joins /\ k.reply = k.of /\ Last(k.refs) = k.of /\ k.mail.to = The(k.of).from
                  ELSE ~joins /\ k.mail.files = The(k.of).files

MailLandsAsComposed == [][LandsAsComposed]_vars

\* "Ball-in-court": no draft, however many copies a retry leaves of it, no forward, no mail
\* in another thread and no label takes the ball from who has it; every message of the
\* thread that goes out to somebody hands it over, also one that was long a draft.
SentIds(t) == {t[i].id : i \in {j \in DOMAIN t : ~t[j].draft}}
HandsOverTheBall ==
    LET sent == SentIds(thread') \ SentIds(thread)
    IN IF sent = {} THEN BallInCourtOf(thread') = BallInCourtOf(thread)
       ELSE \A i \in DOMAIN thread' : thread'[i].id \in sent =>
              BallInCourtOf(thread') = IF thread'[i].from = User THEN "them" ELSE "user"

DraftsKeepTheBall == [][HandsOverTheBall]_vars
=============================================================================
