----------------------------- MODULE TaskLists ------------------------------
(***************************************************************************)
(* The task tools (gtasks/tasks_tools.py).  A list is fetched page by page *)
(* and put together as a tree from what the pages say of each task's       *)
(* parent; an update reads the task and writes it back whole.  The pages   *)
(* and the two halves of an update are requests of their own, between      *)
(* which other calls write.                                                *)
(***************************************************************************)
EXTENDS Naturals, Sequences, FiniteSets, SequencesExt

CONSTANTS
    Calls,    \* tool calls in flight
    Lists,    \* task list ids
    TaskIds,
    Texts,    \* what title, notes and due date may say
    Unused,   \* an id no task has had yet
    Deleted,  \* an id whose task is deleted
    Top,      \* the parent of a task that has none
    PageMax   \* bound: tasks the service puts on one page

VARIABLES
    lists,  \* the task lists there are
    task,   \* the tasks as Google keeps them
    order,  \* their ids, in order of position
    call    \* the calls in flight

vars == <<lists, task, order, call>>

Statuses == {"needsAction", "completed"}
Task == [list : Lists, parent : TaskIds \cup {Top}, text : Texts, status : Statuses, hidden : BOOLEAN]
Entry == TaskIds \X (TaskIds \cup {Top})

\* ask: what an update was asked to change; read: the task as an update read it; got: the
\* entries of the pages so far; token: where the next page begins, 0 if there is none;
\* reparented: tasks given another parent since the call began; fresh: nothing has been
\* written since an update read the task.
Idle == [pc |-> "idle", id |-> Unused, ask |-> {}, read |-> Unused, list |-> Unused, all |-> TRUE,
         got |-> <<>>, token |-> 0, left |-> 0, reparented |-> {}, fresh |-> TRUE]
Call == [pc : {"idle", "update", "page", "done"}, id : TaskIds \cup {Unused},
         ask : SUBSET (Texts \cup Statuses), read : Task \cup {Unused},
         list : Lists \cup {Unused}, all : BOOLEAN, got : Seq(Entry), token : Nat, left : Nat,
         reparented : SUBSET TaskIds, fresh : BOOLEAN]

TypeOK ==
    /\ lists \subseteq Lists
    /\ task \in [TaskIds -> Task \cup {Unused, Deleted}]
    /\ order \in Seq(TaskIds)
    /\ call \in [Calls -> Call]

Init ==
    /\ lists = {}
    /\ task = [t \in TaskIds |-> Unused]
    /\ order = <<>>
    /\ call = [c \in Calls |-> Idle]

Exists(t) == task[t] \notin {Unused, Deleted}
Subtasks(t) == {u \in TaskIds : Exists(u) /\ task[u].parent = t}

-----------------------------------------------------------------------------
(* What a write does to the calls in flight *)

Wrote(c, reparented) ==
    call' = [d \in Calls |->
        IF d = c THEN Idle
        ELSE IF call[d].pc \in {"idle", "done"} THEN call[d]
        ELSE IF call[d].pc = "update" THEN [call[d] EXCEPT !.fresh = FALSE]
        ELSE [call[d] EXCEPT !.reparented = @ \cup reparented]]

\* A task goes right behind another or to the front of the list.
Placed(t, previous) ==
    LET rest == Remove(order, t)
    IN IF previous = Top THEN <<t>> \o rest
       ELSE InsertAt(rest, CHOOSE i \in 1..Len(rest) + 1 : i > 1 /\ rest[i - 1] = previous, t)

\* A subtask has no subtasks and is in the list of its parent.
CanHold(parent, list) ==
    parent # Top => (Exists(parent) /\ task[parent].parent = Top /\ task[parent].list = list)

Siblings(t, parent, list) ==
    {Top} \cup {u \in TaskIds \ {t} : Exists(u) /\ task[u].parent = parent /\ task[u].list = list}

\* Tasks go together with their subtasks.
Drop(ts) ==
    LET gone == ts \cup UNION {Subtasks(t) : t \in ts}
    IN /\ task' = [t \in TaskIds |-> IF t \in gone /\ Exists(t) THEN Deleted ELSE task[t]]
       /\ order' = SelectSeq(order, LAMBDA t : t \notin gone)
       /\ Wrote("nobody", {})

-----------------------------------------------------------------------------
(* manage_task_list *)

CreateTaskList(l) ==
    /\ l \notin lists /\ lists' = lists \cup {l}
    /\ UNCHANGED <<task, order, call>>

DeleteTaskList(l) ==
    /\ l \in lists /\ lists' = lists \ {l}
    /\ Drop({t \in TaskIds : Exists(t) /\ task[t].list = l})

ClearCompleted(l) ==
    /\ l \in lists
    /\ task' = [t \in TaskIds |->
         IF Exists(t) /\ task[t].list = l /\ task[t].status = "completed"
         THEN [task[t] EXCEPT !.hidden = TRUE] ELSE task[t]]
    /\ Wrote("nobody", {})
    /\ UNCHANGED <<lists, order>>

-----------------------------------------------------------------------------
(* manage_task *)

CreateTask(t, l) ==
    /\ task[t] = Unused /\ l \in lists
    /\ \E parent \in TaskIds \cup {Top}, text \in Texts :
         /\ CanHold(parent, l)
         /\ task' = [task EXCEPT ![t] = [list |-> l, parent |-> parent, text |-> text,
                                         status |-> "needsAction", hidden |-> FALSE]]
         /\ \E previous \in Siblings(t, parent, l) : order' = Placed(t, previous)
    /\ Wrote("nobody", {})
    /\ UNCHANGED lists

DeleteTask(t) == Exists(t) /\ Drop({t}) /\ UNCHANGED lists

MoveTask(t) ==
    /\ Exists(t)
    /\ \E parent \in (TaskIds \cup {Top}) \ {t}, l \in lists :
         /\ CanHold(parent, l)
         /\ parent # Top => Subtasks(t) = {}
         /\ \E previous \in Siblings(t, parent, l) : order' = Placed(t, previous)
         /\ task' = [u \in TaskIds |->
              IF u = t THEN [task[t] EXCEPT !.list = l, !.parent = parent]
              ELSE IF u \in Subtasks(t) THEN [task[u] EXCEPT !.list = l] ELSE task[u]]
         /\ Wrote("nobody", {t} \ {u \in {t} : task[u].parent = parent})
    /\ UNCHANGED lists

\* _update_task_impl: the task is read first; the arguments that are given replace a
\* field each.
UpdateTask(c, t) ==
    /\ call[c] = Idle /\ Exists(t)
    /\ \E text \in Texts, status \in Statuses : \E ask \in SUBSET {text, status} :
         call' = [call EXCEPT ![c] = [Idle EXCEPT !.pc = "update", !.id = t, !.ask = ask,
                                                  !.read = task[t]]]
    /\ UNCHANGED <<lists, task, order>>

\* A bug of the kind the body guards against: a status that is not given is the default.
BodyWithDefault(k) ==
    [text |-> IF k.ask \cap Texts = {} THEN k.read.text ELSE CHOOSE v \in k.ask : v \in Texts,
     status |-> IF k.ask \cap Statuses = {} THEN "needsAction" ELSE CHOOSE s \in k.ask : s \in Statuses]

Body(k) ==
    [text |-> IF k.ask \cap Texts = {} THEN k.read.text ELSE CHOOSE v \in k.ask : v \in Texts,
     status |-> IF k.ask \cap Statuses = {} THEN k.read.status ELSE CHOOSE s \in k.ask : s \in Statuses]

\* The whole task is written; a request that fails changes nothing.
SendUpdate(c) ==
    /\ call[c].pc = "update"
    /\ LET t == call[c].id
       IN \/ /\ Exists(t)
             /\ task' = [task EXCEPT ![t] = [task[t] EXCEPT !.text = Body(call[c]).text,
                           !.status = Body(call[c]).status,
                           !.hidden = @ /\ Body(call[c]).status = "completed"]]
             /\ Wrote(c, {})
          \/ call' = [call EXCEPT ![c] = Idle] /\ UNCHANGED task
    /\ UNCHANGED <<lists, order>>

-----------------------------------------------------------------------------
(* list_tasks *)

Visible(l, all) ==
    SelectSeq(order, LAMBDA t : task[t].list = l /\ (all \/ (~task[t].hidden /\ task[t].status # "completed")))

\* One request: a page of n tasks at most.  A token counts the tasks before the page.
Page(k) ==
    LET seen == Visible(k.list, k.all)
        n == IF k.left < PageMax THEN k.left ELSE PageMax
        from == k.token + 1
        ids == SubSeq(seen, from, IF from + n - 1 < Len(seen) THEN from + n - 1 ELSE Len(seen))
    IN [entries |-> [i \in DOMAIN ids |-> <<ids[i], task[ids[i]].parent>>],
        token |-> IF k.token + n < Len(seen) THEN k.token + n ELSE 0]

\* The loop ends when enough is there, when there is no further page, or on an empty one.
Fetched(k) ==
    LET page == Page(k)
        left == k.left - Len(page.entries)
        more == left > 0 /\ page.token # 0 /\ page.entries # <<>>
    IN [k EXCEPT !.got = @ \o page.entries, !.token = page.token, !.left = left,
                 !.pc = IF more THEN "page" ELSE "done"]

ListTasks(c, l, max) ==
    /\ call[c] = Idle /\ l \in lists /\ max > 0
    /\ \E all \in BOOLEAN :
         call' = [call EXCEPT ![c] =
             Fetched([Idle EXCEPT !.list = l, !.all = all, !.left = max])]
    /\ UNCHANGED <<lists, task, order>>

NextPage(c) ==
    /\ call[c].pc = "page"
    /\ call' = [call EXCEPT ![c] = IF call[c].list \in lists THEN Fetched(call[c]) ELSE Idle]
    /\ UNCHANGED <<lists, task, order>>

\* The answer is read and the slot is free again.
Return(c) ==
    /\ call[c].pc = "done" /\ call' = [call EXCEPT ![c] = Idle]
    /\ UNCHANGED <<lists, task, order>>

\* A bug of the kind the placeholders guard against: an orphan hangs on a parent that
\* hangs on nothing.
HangsWithoutPlaceholder(got) == {<<got[i][2], got[i][1]>> : i \in DOMAIN got}

\* get_structured_tasks: who hangs on whom.  A parent no page has is a placeholder at
\* the top.
Hangs(got) ==
    LET ids == {got[i][1] : i \in DOMAIN got}
        orphans == {i \in DOMAIN got : got[i][2] \notin ids \cup {Top}}
    IN {<<got[i][2], got[i][1]>> : i \in DOMAIN got} \cup {<<Top, got[i][2]>> : i \in orphans}

\* The tasks the answer shows: serialize_tasks goes down from the top.
Below(got, ts) == {u \in TaskIds : \E t \in ts : <<t, u>> \in Hangs(got)}
Levels(got) ==
    LET level[n \in 1..Cardinality(TaskIds) + 1] ==
            IF n = 1 THEN Below(got, {Top}) ELSE Below(got, level[n - 1])
    IN level
Shown(got) == LET l == Levels(got) IN UNION {l[n] : n \in DOMAIN l}

-----------------------------------------------------------------------------
Next ==
    \/ \E l \in Lists : CreateTaskList(l) \/ DeleteTaskList(l) \/ ClearCompleted(l)
    \/ \E t \in TaskIds :
         \/ \E l \in Lists : CreateTask(t, l)
         \/ DeleteTask(t) \/ MoveTask(t)
         \/ \E c \in Calls : UpdateTask(c, t)
    \/ \E c \in Calls :
         \/ SendUpdate(c) \/ NextPage(c) \/ Return(c)
         \/ \E l \in Lists, max \in 1..Cardinality(TaskIds) : ListTasks(c, l, max)

Spec == Init /\ [][Next]_vars

-----------------------------------------------------------------------------
(* Properties *)

\* A listing of several pages shows every task its pages had, and serialize_tasks comes to
\* an end, whatever is created, completed, hidden or deleted between two pages, as long as
\* no task it has seen was given another parent meanwhile.
ListingShowsWhatItRead ==
    \A c \in Calls :
        LET k == call[c]
            ids == {k.got[i][1] : i \in DOMAIN k.got}
        IN k.pc = "done" /\ ids \cap k.reparented = {} =>
             /\ ids \subseteq Shown(k.got)
             /\ Levels(k.got)[Cardinality(TaskIds) + 1] = {}

\* An update, which writes the whole task, changes no field it was not asked to change if
\* nobody else wrote since it read the task.
UpdateKeepsTheRest ==
    \A c \in Calls :
        LET k == call[c]
            t == k.id
        IN k.pc = "update" /\ k.fresh /\ call'[c] = Idle /\ Exists(t) /\ task' # task =>
             \A v \in {task'[t].text, task'[t].status} :
                 v \in k.ask \cup {task[t].text, task[t].status}
UpdatesKeepTheRest == [][UpdateKeepsTheRest]_vars
=============================================================================
