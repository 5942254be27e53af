---------------------------- MODULE DriveSharing ----------------------------
(***************************************************************************)
(* The Drive tools that write (gdrive/drive_tools.py): creating, copying   *)
(* and updating files, and who may see them.  Every tool first follows     *)
(* shortcuts to the real item (drive_helpers.py); some then need several   *)
(* requests, between which others share the file too.                      *)
(***************************************************************************)
EXTENDS Naturals, Sequences, FiniteSets

CONSTANTS
    Calls,    \* tool calls in flight
    FileIds,  \* ids of files, of folders and of shortcuts
    FolderIds,
    ShortcutIds,
    Watched,  \* bound: the items whose permissions change
    Unused,   \* an id no item has had yet
    Root,     \* "root", the user's own top folder
    User,     \* the user, who owns what he creates
    Others,   \* people files are shared with
    Anyone,   \* the permission of everybody who has the link
    MaxDepth  \* max_depth of resolve_drive_item

VARIABLES
    item,  \* the drive as Google keeps it
    call   \* the calls in flight

vars == <<item, call>>

Items == FileIds \cup FolderIds \cup ShortcutIds
Roles == {"reader", "writer"}
Who == {User, Anyone} \cup Others
NoPermission == "none"
Private == [w \in Who |-> IF w = User THEN "owner" ELSE NoPermission]
Permissions == [Who -> Roles \cup {"owner", NoPermission}]

\* target: of a shortcut.
Item == [target : Items \cup {Unused}, parent : Items \cup {Root}, perms : Permissions]

\* todo: recipients still to be shared with; shared: those the answer will count as
\* succeeded; before: the permissions when the call began; fresh: nobody else has
\* written since; pc "done": the answer is given.
Idle == [pc |-> "idle", does |-> "nothing", id |-> Unused, role |-> NoPermission,
         todo |-> {}, shared |-> {}, before |-> Private, fresh |-> TRUE]
Call == [pc : {"idle", "batch", "update", "list", "link", "done"},
         does : {"nothing", "batch", "expiry", "off", "link"},
         id : Items \cup {Unused}, role : Roles \cup {"owner", NoPermission},
         todo : SUBSET Who, shared : SUBSET Who, before : Permissions, fresh : BOOLEAN]

TypeOK ==
    /\ item \in [Items -> Item \cup {Unused}]
    /\ call \in [Calls -> Call]

Init ==
    /\ item = [i \in Items |-> Unused]
    /\ call = [c \in Calls |-> Idle]

-----------------------------------------------------------------------------
(* drive_helpers.py *)

Exists(i) == i # Root /\ item[i] # Unused

Hop(i) == IF Exists(i) /\ i \in ShortcutIds THEN item[i].target ELSE i

\* The hops of resolve_drive_item, max_depth at most.
Followed(i) ==
    LET after[n \in 0..MaxDepth] == IF n = 0 THEN i ELSE Hop(after[n - 1]) IN after[MaxDepth]

\* A bug of the kind resolve_drive_item guards against: the shortcut itself is used.
ResolvedNothing(i) == {j \in {i} : Exists(j)}

\* What a call goes on with; nothing when there are too many shortcuts.
Resolved(i) == {j \in {Followed(i)} : Exists(j) /\ j \notin ShortcutIds}

\* What the ids given to the tools lead to.
Named == UNION {Resolved(i) : i \in Items}

\* resolve_folder_id: the item has to be a folder.
Folders == {Root} \cup (Named \cap FolderIds)

-----------------------------------------------------------------------------
(* Writing: a file the other calls work on is no longer what they have seen *)

Wrote(c, i, rec) ==
    call' = [d \in Calls |-> IF d = c THEN rec
                             ELSE IF call[d].id = i THEN [call[d] EXCEPT !.fresh = FALSE, !.before = Private]
                             ELSE call[d]]
Share(i, w, role) == i \in Watched /\ item' = [item EXCEPT ![i].perms[w] = role]

\* A request the drive refuses, or that is lost, ends the call with an error.
Fail(c) == call' = [call EXCEPT ![c] = Idle] /\ UNCHANGED item
Begin(c, rec) == call[c] = Idle /\ call' = [call EXCEPT ![c] = rec] /\ UNCHANGED item
Done(c) == [call[c] EXCEPT !.pc = "done"]

\* The answer is read and the slot is free again.
Return(c) == call[c].pc = "done" /\ call' = [call EXCEPT ![c] = Idle] /\ UNCHANGED item

-----------------------------------------------------------------------------
(* Files *)

NewItem(i, target, parent) ==
    /\ item[i] = Unused
    /\ item' = [item EXCEPT ![i] = [target |-> target, parent |-> parent, perms |-> Private]]
    /\ UNCHANGED call

\* create_drive_file, create_drive_folder and the imports.
CreateDriveFile(i) ==
    /\ i \notin ShortcutIds /\ item[i] = Unused
    /\ \E parent \in Folders : NewItem(i, Unused, parent)

\* A copy is the user's alone.
CopyDriveFile(i) ==
    /\ i \in FileIds /\ item[i] = Unused /\ Named \cap FileIds # {}
    /\ \E parent \in Folders : NewItem(i, Unused, parent)

\* A shortcut is made in Google's own client, to a file or to another shortcut.
SomebodyMakesShortcut(i, of) ==
    i \in ShortcutIds /\ Exists(of) /\ NewItem(i, of, Root)

\* update_drive_file: metadata, parents and content; who may see the file stays.
UpdateDriveFile(j) ==
    /\ \E parent \in Folders \ {j} : item' = [item EXCEPT ![j].parent = parent]
    /\ UNCHANGED call

-----------------------------------------------------------------------------
(* manage_drive_access *)

\* A grant, an update with a role and a revocation are one request after the shortcut is
\* followed.  The drive keeps the owner.
Access(j, w, role) ==
    /\ item[j].perms[w] # "owner"
    /\ Share(j, w, role)
    /\ Wrote("nobody", j, Idle)

Grant(j, w, role) == Access(j, w, role)
UpdateRole(j, w, role) == item[j].perms[w] # NoPermission /\ Access(j, w, role)
Revoke(j, w) == Access(j, w, NoPermission)

\* "Previous owner now has editor access."
TransferOwner(j, w) ==
    /\ j \in Watched
    /\ item' = [item EXCEPT ![j].perms = [v \in Who |->
         IF v = w THEN "owner" ELSE IF @[v] = "owner" THEN "writer" ELSE @[v]]]
    /\ Wrote("nobody", j, Idle)

\* update with an expiration and no role: the role is read first and sent along.
UpdateExpiry(c, j, w) ==
    /\ item[j].perms[w] # NoPermission
    /\ Begin(c, [Idle EXCEPT !.pc = "update", !.does = "expiry", !.id = j, !.todo = {w},
                             !.role = item[j].perms[w], !.before = item[j].perms])

SendRole(c) ==
    /\ call[c].pc = "update"
    /\ \E w \in call[c].todo :
         \/ /\ item[call[c].id].perms[w] \notin {"owner", NoPermission} /\ call[c].role # "owner"
            /\ Share(call[c].id, w, call[c].role)
            /\ Wrote(c, call[c].id, Done(c))
         \/ Fail(c)

\* grant_batch: one request per recipient; one that fails is counted and passed over.
GrantBatch(c, j) ==
    \E recipients \in SUBSET Others, role \in Roles :
        /\ recipients # {}
        /\ Begin(c, [Idle EXCEPT !.pc = "batch", !.does = "batch", !.id = j, !.role = role,
                                 !.todo = recipients, !.before = item[j].perms])


GrantNext(c) ==
    /\ call[c].pc = "batch"
    /\ \E w \in call[c].todo :
         LET rest == [call[c] EXCEPT !.todo = @ \ {w}]
             next == IF rest.todo = {} THEN [rest EXCEPT !.pc = "done"] ELSE rest
         IN \/ /\ item[call[c].id].perms[w] # "owner"
               /\ Share(call[c].id, w, call[c].role)
               /\ Wrote(c, call[c].id, [next EXCEPT !.shared = @ \cup {w}])
            \/ call' = [call EXCEPT ![c] = next] /\ UNCHANGED item

-----------------------------------------------------------------------------
(* set_drive_file_permissions: the settings of the file, which say nothing of who may *)
(* see it, then its link sharing.                                                     *)

SetPermissions(c, j) ==
    \E role \in Roles \cup {NoPermission} :
        Begin(c, [Idle EXCEPT !.pc = "list", !.id = j, !.role = role, !.before = item[j].perms,
                              !.does = IF role = NoPermission THEN "off" ELSE "link"])

\* permissions.list: there is nothing to turn off, or something to delete, to change or
\* to create.
ListPermissions(c) ==
    /\ call[c].pc = "list"
    /\ LET found == item[call[c].id].perms[Anyone] # NoPermission
       IN call' = [call EXCEPT ![c] =
            IF call[c].does = "off" /\ ~found THEN Done(c)
            ELSE [@ EXCEPT !.pc = "link", !.todo = IF found THEN {Anyone} ELSE {}]]
    /\ UNCHANGED item

\* Deleting or changing what is gone fails, creating what is there changes it.
SetLink(c) ==
    /\ call[c].pc = "link"
    /\ \/ /\ call[c].todo = {} \/ item[call[c].id].perms[Anyone] # NoPermission
          /\ Share(call[c].id, Anyone, call[c].role)
          /\ Wrote(c, call[c].id, Done(c))
       \/ Fail(c)

-----------------------------------------------------------------------------
Next ==
    \/ \E i \in Items : CreateDriveFile(i) \/ CopyDriveFile(i)
    \/ \E i, of \in Items : SomebodyMakesShortcut(i, of)
    \/ \E j \in Named :
         \/ UpdateDriveFile(j)
         \/ \E w \in Who \ {User} :
              \/ \E role \in Roles : Grant(j, w, role) \/ UpdateRole(j, w, role)
              \/ Revoke(j, w)
              \/ \E c \in Calls : UpdateExpiry(c, j, w)
         \/ \E w \in Others : TransferOwner(j, w)
         \/ \E c \in Calls : GrantBatch(c, j) \/ SetPermissions(c, j)
    \/ \E c \in Calls : SendRole(c) \/ GrantNext(c) \/ ListPermissions(c) \/ SetLink(c) \/ Return(c)

Spec == Init /\ [][Next]_vars

-----------------------------------------------------------------------------
(* Properties *)

\* "so downstream callers operate on the real item": whatever chain of shortcuts a tool
\* is given, no shortcut is ever shared and nothing is ever put into one.
ShortcutsAreFollowed ==
    \A i \in Items : Exists(i) =>
        /\ i \in ShortcutIds => item[i].perms = Private
        /\ item[i].parent \in FolderIds \cup {Root}

\* What a call of several requests, some of which failed, reports is what the file's
\* permissions are, as long as nobody else changed them: a batch has shared the file with
\* those it counts and with nobody else, turning the link off leaves nobody with it, and
\* an expiration changes no role.
SharingIsAsReported ==
    \A c \in Calls :
        LET k == call[c]
            now == item[k.id].perms
        IN k.pc = "done" /\ k.fresh =>
             CASE k.does = "batch" ->
                    now = [w \in Who |-> IF w \in k.shared THEN k.role ELSE k.before[w]]
               [] k.does = "expiry" -> now = k.before
               [] k.does \in {"off", "link"} -> now = [k.before EXCEPT ![Anyone] = k.role]
=============================================================================
