---------------------------- MODULE ContactBook ----------------------------
(***************************************************************************)
(* The contact tools that write (gcontacts/contacts_tools.py with the      *)
(* merges of contacts_helpers.py).  An update reads the contact, merges    *)
(* its lists and writes them back under the etag it read; a conflict makes *)
(* it start over, three times at most.                                     *)
(*                                                                         *)
(* A list is a set of entries <<key, form>>: the key is what the merge     *)
(* compares (a normalised number, address, URL, ...), the form the rest.   *)
(***************************************************************************)
EXTENDS Naturals, FiniteSets

CONSTANTS
    Calls,      \* tool calls in flight
    People,     \* contact ids
    Keys,       \* what entries are compared by
    Forms,      \* spellings of one key
    Unused,     \* an id no contact has had yet
    Deleted,    \* an id whose contact is deleted
    MaxVersion  \* bound on the versions of a contact

VARIABLES
    contact,  \* the address book as Google keeps it
    group,    \* the members of the user's contact group
    call      \* the calls in flight

vars == <<contact, group, call>>

\* lists: phones, emails, organizations, nicknames, urls, relations.  custom: the
\* user-defined fields, where a new value replaces the one of the same key.
Fields == {"lists", "custom"}
Modes == {"merge", "replace", "remove"}
Entries == Keys \X Forms
KeysOf(entries) == {e[1] : e \in entries}

Contact == [etag : 1..MaxVersion, lists : SUBSET Entries, custom : SUBSET Entries]

MaxRetries == 3
Idle == [pc |-> "idle", who |-> {}, field |-> "lists", mode |-> "merge", new |-> {},
         body |-> {}, etag |-> [p \in People |-> 0], attempt |-> 0]
Call == [pc : {"idle", "read", "write", "batch"}, who : SUBSET People, field : Fields,
         mode : Modes, new : SUBSET Entries, body : SUBSET Entries,
         etag : [People -> 0..MaxVersion], attempt : 0..MaxRetries]

TypeOK ==
    /\ contact \in [People -> Contact \cup {Unused, Deleted}]
    /\ group \subseteq People
    /\ call \in [Calls -> Call]

Init ==
    /\ contact = [p \in People |-> Unused]
    /\ group = {}
    /\ call = [c \in Calls |-> Idle]

Exists(p) == contact[p] \notin {Unused, Deleted}
Etag(p) == IF Exists(p) THEN contact[p].etag ELSE 0

-----------------------------------------------------------------------------
(* The merges *)

\* _merge_phones and its likes: a key that is there already keeps its form.
MergedList(existing, new) ==
    existing \cup {e \in new : e[1] \notin KeysOf(existing)}

\* _merge_user_defined: the new value wins.
MergedCustom(existing, new) ==
    {e \in existing : e[1] \notin KeysOf(new)} \cup new

Without(existing, new) == {e \in existing : e[1] \notin KeysOf(new)}

Merged(field, existing, new, mode) ==
    CASE mode = "replace" -> new
      [] mode = "remove" -> Without(existing, new)
      [] mode = "merge" -> IF field = "lists" THEN MergedList(existing, new)
                           ELSE MergedCustom(existing, new)

-----------------------------------------------------------------------------
(* What Google does with a write *)

Written(p, field, body) ==
    [contact EXCEPT ![p] = [etag |-> @.etag + 1,
                            lists |-> IF field = "lists" THEN body ELSE @.lists,
                            custom |-> IF field = "custom" THEN body ELSE @.custom]]

CanWrite(p) == Exists(p) /\ contact[p].etag < MaxVersion

\* A contact that is deleted leaves the group.
Remove(people) ==
    /\ contact' = [p \in People |-> IF p \in people /\ Exists(p) THEN Deleted ELSE contact[p]]
    /\ group' = group \ people

\* Another client adds an entry, clears a list or deletes the contact.
SomebodyElse ==
    /\ \E p \in People :
         \/ /\ CanWrite(p)
            /\ \E f \in Fields :
                 \/ contact' = Written(p, f, {})
                 \/ \E e \in Entries :
                      contact' = Written(p, f, Without(contact[p][f], {e}) \cup {e})
            /\ UNCHANGED group
         \/ Exists(p) /\ Remove({p})
    /\ UNCHANGED call

-----------------------------------------------------------------------------
(* manage_contact *)

\* The contact as Google creates it, whatever its lists.
CreateContact(p) ==
    /\ contact[p] = Unused
    /\ \E e \in Entries, f \in Fields :
         contact' = [contact EXCEPT ![p] =
             [etag |-> 1, lists |-> IF f = "lists" THEN {e} ELSE {},
              custom |-> IF f = "custom" THEN {e} ELSE {}]]
    /\ UNCHANGED <<group, call>>

\* The arguments are checked and the first attempt begins.
UpdateContact(c, p) ==
    /\ call[c] = Idle
    /\ contact[p] # Unused
    /\ \E field \in Fields, mode \in Modes, e \in Entries :
         call' = [call EXCEPT ![c] = [Idle EXCEPT !.pc = "read", !.who = {p}, !.field = field,
                                        !.mode = mode, !.new = {e}, !.attempt = 1]]
    /\ UNCHANGED <<contact, group>>

\* The get and the merge; what is gone is an error.
FetchContact(c) ==
    /\ call[c].pc = "read"
    /\ LET p == CHOOSE q \in call[c].who : TRUE
           k == call[c]
       IN call' = [call EXCEPT ![c] =
            IF ~Exists(p) THEN Idle
            ELSE [k EXCEPT !.pc = "write", !.etag = [@ EXCEPT ![p] = contact[p].etag],
                    !.body = Merged(k.field, contact[p][k.field], k.new, k.mode)]]
    /\ UNCHANGED <<contact, group>>

\* A bug of the kind the loop guards against: a conflict renews the etag and not the body.
ConflictKeepsBody(c, p) ==
    call' = [call EXCEPT ![c] = IF call[c].attempt < MaxRetries /\ Exists(p)
                                THEN [call[c] EXCEPT !.attempt = @ + 1,
                                        !.etag = [@ EXCEPT ![p] = contact[p].etag]]
                                ELSE Idle]

\* 412: the next attempt reads again, the last one raises.
Conflict(c, p) ==
    call' = [call EXCEPT ![c] = IF call[c].attempt < MaxRetries
                                THEN [call[c] EXCEPT !.pc = "read", !.attempt = @ + 1]
                                ELSE Idle]

\* updateContact succeeds under the etag that was read, and fails otherwise.
UpdateWrite(c) ==
    /\ call[c].pc = "write"
    /\ LET p == CHOOSE q \in call[c].who : TRUE
       IN \/ /\ CanWrite(p) /\ Etag(p) = call[c].etag[p]
             /\ contact' = Written(p, call[c].field, call[c].body)
             /\ call' = [call EXCEPT ![c] = Idle]
          \/ Etag(p) # call[c].etag[p] /\ Conflict(c, p) /\ UNCHANGED contact
          \/ call' = [call EXCEPT ![c] = Idle] /\ UNCHANGED contact
    /\ UNCHANGED group

DeleteContact(p) == contact[p] # Unused /\ Remove({p}) /\ UNCHANGED call

ManageContact(p) ==
    CreateContact(p) \/ (\E c \in Calls : UpdateContact(c, p)) \/ DeleteContact(p)

-----------------------------------------------------------------------------
(* manage_contacts_batch: one field of several contacts is replaced, under the etags  *)
(* of one read, without a second attempt.  The contacts the read does not find are    *)
(* left out.                                                                          *)

BatchRead(c) ==
    /\ call[c] = Idle
    /\ \E who \in (SUBSET People) \ {{}}, field \in Fields, e \in Entries :
         LET found == {p \in who : Exists(p)}
         IN /\ found # {}
            /\ call' = [call EXCEPT ![c] = [Idle EXCEPT !.pc = "batch", !.who = found,
                          !.field = field, !.mode = "replace", !.new = {e},
                          !.etag = [p \in People |-> IF p \in found THEN Etag(p) ELSE 0]]]
    /\ UNCHANGED <<contact, group>>

BatchWrite(c) ==
    /\ call[c].pc = "batch"
    /\ LET k == call[c]
       IN contact' = IF \A p \in k.who : CanWrite(p) /\ Etag(p) = k.etag[p]
                     THEN [p \in People |-> IF p \in k.who THEN Written(p, k.field, k.new)[p]
                                            ELSE contact[p]]
                     ELSE contact
    /\ call' = [call EXCEPT ![c] = Idle]
    /\ UNCHANGED group

BatchDelete == (\E who \in (SUBSET People) \ {{}} : Remove(who)) /\ UNCHANGED call

ManageContactsBatch == BatchDelete \/ \E c \in Calls : BatchRead(c)

-----------------------------------------------------------------------------
(* manage_contact_group: members are added and removed; with the group its contacts  *)
(* are deleted if that is asked for.                                                 *)

ManageContactGroup ==
    /\ \/ /\ \E add, remove \in SUBSET People :
               group' = (group \cup {p \in add : Exists(p)}) \ remove
          /\ UNCHANGED contact
       \/ Remove(group)
       \/ group' = {} /\ UNCHANGED contact
    /\ UNCHANGED call

-----------------------------------------------------------------------------
Next ==
    \/ \E p \in People : ManageContact(p)
    \/ \E c \in Calls : FetchContact(c) \/ UpdateWrite(c) \/ BatchWrite(c)
    \/ ManageContactsBatch \/ ManageContactGroup
    \/ SomebodyElse

Spec == Init /\ [][Next]_vars

-----------------------------------------------------------------------------
(* Properties *)

\* The call was asked to take the entry out.
Asked(k, field, e) ==
    /\ k.field = field
    /\ k.mode = "replace" \/ ((k.mode = "remove" \/ field = "custom") /\ e[1] \in KeysOf(k.new))

\* However the reads, the writes and the retries of several calls and other clients
\* interleave, the write of a call takes out no entry it was not asked to take out, those
\* added since its read included, and what it was asked to add is there.
WritesLoseNothing ==
    \A c \in Calls, f \in Fields : \A p \in call[c].who :
        Exists(p) /\ contact'[p] # contact[p] /\ call'[c] = Idle /\ call[c].pc \in {"write", "batch"} =>
            /\ \A e \in contact[p][f] \ contact'[p][f] : Asked(call[c], f, e)
            /\ call[c].field = f /\ call[c].mode # "remove" =>
                 KeysOf(call[c].new) \subseteq KeysOf(contact'[p][f])

UpdatesLoseNothing == [][WritesLoseNothing]_vars
=============================================================================
