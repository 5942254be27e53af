-------------------------- MODULE AccountDirectory --------------------------
(***************************************************************************)
(* What the server says about its Google accounts: the credential store as *)
(* it is listed (core/account_directory.py), the cached verdict on the     *)
(* Developer Preview (gdocs_preview/preview_status.py), the report of      *)
(* list_google_accounts, the instructions, and the accounts a failed call  *)
(* names as candidates.  Nothing here calls Google or switches account.    *)
(***************************************************************************)
EXTENDS Naturals, SequencesExt

CONSTANTS
    Sorted,      \* every spelling of an address a file may be kept under, as sorted() has them
    Fold,        \* spelling -> the account it is the address of (fold_email)
    NoEmail,     \* None in the place of a spelling
    Capacity     \* MAX_USERS of preview_status

Spellings == ToSet(Sorted)
Accounts == {Fold[e] : e \in Spellings}
Modes == {"single_user", "oauth21_multi_user", "trusted_gateway"}
Directories == {"ok", "unreadable", "unsupported", "unavailable"}
Verdicts == {"available", "unavailable", "unknown"}

VARIABLES
    mode,      \* _identity_mode
    default,   \* resolve_default_account
    stored,    \* spellings with a credential file
    directory, \* what comes of listing the store
    states,    \* _states of preview_status: oldest recorded first
    last,      \* history: an account's last verdict, and who was observed since
    said       \* what was answered last

vars == <<mode, default, stored, directory, states, last, said>>

Observation == [account : Accounts, verdict : Verdicts]
Nothing == [kind |-> "nothing", caller |-> NoEmail, names |-> <<>>, marked |-> {}, shown |-> {}]

TypeOK ==
    /\ mode \in Modes
    /\ default \in Spellings \cup {NoEmail}
    /\ stored \subseteq Spellings
    /\ directory \in Directories
    /\ ToSet(states) \subseteq Observation /\ Len(states) <= Capacity
    /\ last \in [Accounts -> [verdict : Verdicts \cup {"none"}, since : SUBSET Accounts]]
    /\ said.kind \in {"nothing", "hint", "report", "instructions", "pick"}
    /\ ToSet(said.names) \subseteq Spellings
    /\ said.marked \subseteq Spellings /\ said.shown \subseteq Observation

Init ==
    /\ mode \in Modes
    \* None in the OAuth 2.1 mode; behind a gateway nothing here reads it.
    /\ default \in IF mode = "single_user" THEN Spellings \cup {NoEmail} ELSE {NoEmail}
    /\ stored = {}
    /\ directory \in Directories
    /\ states = <<>>
    /\ last = [a \in Accounts |-> [verdict |-> "none", since |-> {}]]
    /\ said = Nothing

-----------------------------------------------------------------------------
(* The store as it is listed *)

\* list_users.
Listing == SelectSeq(Sorted, LAMBDA e : e \in stored)

\* enumerate_accounts: an unreadable directory lists as empty, and is told apart.
Emails == IF directory = "ok" THEN Listing ELSE <<>>
Enumerated == directory = "ok"

\* _distinct_accounts: one entry per address, the first spelling wins.
Distinct(emails) ==
    FoldLeft(LAMBDA kept, e : IF \E f \in ToSet(kept) : Fold[f] = Fold[e] THEN kept
                              ELSE Append(kept, e), <<>>, emails)

\* A bug of the kind folding guards against: addresses are compared as they are spelled.
OthersBySpelling(emails, caller) == SelectSeq(Distinct(emails), LAMBDA e : e # caller)

\* _accounts_other_than.
Others(emails, caller) == SelectSeq(Distinct(emails), LAMBDA e : Fold[e] # Fold[caller])

\* other_accounts: nothing unless the caller is one of the accounts listed.
OtherAccounts(caller) ==
    IF /\ mode = "single_user"
       /\ caller # NoEmail
       /\ Enumerated
       /\ \E e \in ToSet(Emails) : Fold[e] = Fold[caller]
    THEN Others(Emails, caller) ELSE <<>>

-----------------------------------------------------------------------------
(* The verdicts *)

\* The bug of the first version: one verdict for everybody.
StatusOfAnybody(account) == IF states = <<>> THEN "unknown" ELSE Last(states).verdict

\* get_status: what the account's own calls showed, or unknown.
Status(account) ==
    IF \E s \in ToSet(states) : s.account = account
    THEN (CHOOSE s \in ToSet(states) : s.account = account).verdict ELSE "unknown"

\* record: the account's entry is taken out, room is made, it goes in last.
Recorded(account, verdict) ==
    LET others == SelectSeq(states, LAMBDA s : s.account # account)
        kept == IF Len(others) >= Capacity
                THEN SubSeq(others, Len(others) - Capacity + 2, Len(others)) ELSE others
    IN Append(kept, [account |-> account, verdict |-> verdict])

\* classify_preview_error and the branches for an answered call: what is recorded for
\* each outcome, and whether the call is refused as not enrolled.
Outcomes == {[verdict |-> "available", refused |-> FALSE],   \* answered, or refused for its arguments
             [verdict |-> "unavailable", refused |-> TRUE],  \* 400: the field is not known
             [verdict |-> "unknown", refused |-> FALSE]}     \* 403, 404, a value not parsed

-----------------------------------------------------------------------------
(* Answers *)

\* Bound: an answer is given to one that has none yet.
Say(kind, caller, names) ==
    /\ said = Nothing
    /\ said' = [kind |-> kind, caller |-> caller, names |-> names, marked |-> {}, shown |-> {}]

Record(caller, verdict) ==
    /\ states' = Recorded(Fold[caller], verdict)
    /\ last' = [a \in Accounts |->
                  IF a = Fold[caller] THEN [verdict |-> verdict, since |-> {}]
                  ELSE [last[a] EXCEPT !.since = @ \cup {Fold[caller]}]]

\* The choke point of the preview writes: a refused one names the candidates.
Write(caller, outcome) ==
    /\ said = Nothing
    /\ Record(caller, outcome.verdict)
    /\ IF outcome.refused THEN Say("hint", caller, OtherAccounts(caller)) ELSE UNCHANGED said
    /\ UNCHANGED <<mode, default, stored, directory>>

\* check_docs_review_capabilities with a probe: whatever comes of it is recorded.
Probe(caller, outcome) ==
    /\ said = Nothing
    /\ Record(caller, outcome.verdict)
    /\ UNCHANGED <<mode, default, stored, directory, said>>

\* read_for_review: only a read of all threads that succeeds is evidence.
Read(caller) == Probe(caller, [verdict |-> "available", refused |-> FALSE])

\* http_error_account_hint: a 403 that is not a throttle, and a 404, name the others; a
\* 401 and everything else name nobody.  A tool with no account parameter has no caller.
Failed(caller, status) ==
    /\ Say("hint", caller,
           IF status \in {"forbidden", "not_found"} THEN OtherAccounts(caller) ELSE <<>>)
    /\ UNCHANGED <<mode, default, stored, directory, states, last>>

\* build_account_report: where the server picks the account nothing is listed.
ListAccounts ==
    /\ said = Nothing
    /\ LET listed == IF mode = "single_user" THEN Distinct(Emails) ELSE <<>>
       IN said' = [kind |-> "report", caller |-> NoEmail, names |-> listed,
                   marked |-> {e \in ToSet(listed) :
                                 default # NoEmail /\ Fold[e] = Fold[default]},
                   shown |-> {[account |-> Fold[e], verdict |-> Status(Fold[e])] :
                                e \in ToSet(listed)}]
    /\ UNCHANGED <<mode, default, stored, directory, states, last>>

\* build_server_instructions: the others are named beside the default account when
\* there is more than one account.
Instructions ==
    /\ default # NoEmail /\ mode = "single_user"
    /\ Say("instructions", default,
           IF Enumerated /\ Len(Distinct(Emails)) > 1
           THEN Others(Distinct(Emails), default) ELSE <<>>)
    /\ UNCHANGED <<mode, default, stored, directory, states, last>>

\* _find_any_credentials: the first of the listing, announced when it is one of several.
Pick ==
    /\ mode = "single_user" /\ Emails # <<>>
    /\ Say("pick", Emails[1], IF Len(Distinct(Emails)) < 2 THEN <<>> ELSE Distinct(Emails))
    /\ UNCHANGED <<mode, default, stored, directory, states, last>>

\* The files come and go, and the directory becomes readable or not.
StoreChanges ==
    /\ said = Nothing
    /\ \/ \E e \in Spellings : /\ stored' = (stored \ {e}) \cup ({e} \ stored)
                               /\ UNCHANGED directory
       \/ /\ directory \in {"ok", "unreadable"}
          /\ directory' \in {"ok", "unreadable"} \ {directory}
          /\ UNCHANGED stored
    /\ UNCHANGED <<mode, default, states, last, said>>

Forget == said' = Nothing /\ UNCHANGED <<mode, default, stored, directory, states, last>>

Next ==
    \/ \E e \in Spellings, o \in Outcomes : Write(e, o) \/ Probe(e, o)
    \/ \E e \in Spellings : Read(e)
    \/ \E e \in Spellings \cup {NoEmail} :
         \E s \in {"forbidden", "not_found", "throttled", "unauthenticated"} : Failed(e, s)
    \/ ListAccounts \/ Instructions \/ Pick \/ StoreChanges \/ Forget

Spec == Init /\ [][Next]_vars

-----------------------------------------------------------------------------
(* Properties *)

\* "Naming the other accounts": the candidates after a failed call are each an address a
\* file is kept under, and are all the accounts there are but the caller's, once each,
\* whatever the spelling the call or the files use; no account is ever named where the
\* store is shared by tenants or cannot be listed.
HintsNameTheOthers ==
    said.kind \in {"hint", "instructions"} /\ said.names # <<>> =>
        /\ mode = "single_user" /\ Enumerated
        /\ ToSet(said.names) \subseteq stored
        /\ {Fold[e] : e \in ToSet(said.names)} = {Fold[e] : e \in stored} \ {Fold[said.caller]}
        /\ \A i, j \in DOMAIN said.names : Fold[said.names[i]] = Fold[said.names[j]] => i = j

\* "Evidence of the caller's own": the verdict reported for an account is the last its
\* own calls showed, under any spelling, for as long as fewer than MAX_USERS others have
\* been observed since; never another account's.
VerdictsAreTheirOwn ==
    said.kind = "report" =>
        \A s \in said.shown :
            LET own == last[s.account]
            IN /\ own.verdict # "none" /\ Cardinality(own.since) < Capacity =>
                      s.verdict = own.verdict
               /\ own.verdict = "none" => s.verdict = "unknown"
=============================================================================
