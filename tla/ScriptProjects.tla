--------------------------- MODULE ScriptProjects ---------------------------
(***************************************************************************)
(* The Apps Script tools that write (gappsscript/apps_script_tools.py),    *)
(* for one script.  An update of the content reads the files, lays the new *)
(* ones over them and pushes all of them; a lock of the process keeps its  *)
(* updates of one script apart.  A deployment is made in two requests.     *)
(***************************************************************************)
EXTENDS Naturals, FiniteSets

CONSTANTS
    Calls,        \* tool calls in flight
    Processes,    \* server processes
    ProcessOf,    \* the process of a call
    Files,        \* <<name, type>> of the files there may be
    Sources,      \* what a file may say
    Empty,        \* a file pushed without a source
    Absent,       \* there is no such file
    Omitted,      \* an argument that is not given
    Deployments,  \* deployment ids
    MaxVersions   \* bound on the versions of the script

VARIABLES
    content,     \* the files as Google keeps them
    versions,    \* how many snapshots have been taken
    deployment,  \* the version each deployment runs, 0 if there is none
    lock,        \* _SCRIPT_UPDATE_LOCKS: who holds the script's lock, per process
    call         \* the calls in flight

vars == <<content, versions, deployment, lock, call>>

Names == {f[1] : f \in Files}
Free == "free"
Content == [Files -> Sources \cup {Empty, Absent}]

\* The argument of an update: one file, its type or its source left out at will.
Asks == [name : Names, type : {f[2] : f \in Files} \cup {Omitted}, source : Sources \cup {Omitted}]

\* overtaken: another process or an editor wrote since the files were read.
Idle == [pc |-> "idle", file |-> Omitted, merge |-> TRUE, body |-> Omitted, overtaken |-> FALSE,
         version |-> 0]
Call == [pc : {"idle", "wait", "read", "push", "deploy"}, file : Files \cup {Omitted}, merge : BOOLEAN,
         body : Content \cup {Omitted}, overtaken : BOOLEAN, version : 0..MaxVersions]

TypeOK ==
    /\ content \in Content \cup {Absent}
    /\ versions \in 0..MaxVersions
    /\ deployment \in [Deployments -> 0..MaxVersions]
    /\ lock \in [Processes -> Calls \cup {Free}]
    /\ call \in [Calls -> Call]

NoFiles == [f \in Files |-> Absent]

Init ==
    /\ content = NoFiles
    /\ versions = 0
    /\ deployment = [d \in Deployments |-> 0]
    /\ lock = [p \in Processes |-> Free]
    /\ call = [c \in Calls |-> Idle]

-----------------------------------------------------------------------------
(* _merge_script_files *)

Present(files) == {f \in Files : files[f] # Absent}
SameName(files, name) == {f \in Present(files) : f[1] = name}

\* The file an update is about; none when the type is missing and cannot be inferred.
Target(files, ask) ==
    IF ask.type # Omitted THEN Files \cap {<<ask.name, ask.type>>}
    ELSE IF Cardinality(SameName(files, ask.name)) = 1 THEN SameName(files, ask.name) ELSE {}

\* What is not given stays as it is.
Laid(files, f, source) ==
    [files EXCEPT ![f] = IF source # Omitted THEN source ELSE IF @ = Absent THEN Empty ELSE @]

-----------------------------------------------------------------------------
(* update_script_content *)

Go(c, rec) == call' = [call EXCEPT ![c] = rec]
Release(c) == lock' = [lock EXCEPT ![ProcessOf[c]] = Free]

\* What is pushed by anybody but the calls of the same process overtakes a read.
Overtakes(p, c) ==
    call' = [d \in Calls |->
        IF d = c THEN Idle
        ELSE IF call[d].pc = "push" /\ (p = Free \/ ProcessOf[d] # p)
             THEN [call[d] EXCEPT !.overtaken = TRUE]
        ELSE call[d]]

UpdateContent(c) ==
    /\ call[c] = Idle /\ content # Absent
    /\ Go(c, [Idle EXCEPT !.pc = "wait"])
    /\ UNCHANGED <<content, versions, deployment, lock>>

\* A bug of the kind the lock guards against: every call has a lock of its own.
LockOfItsOwn(c) ==
    /\ call[c].pc = "wait"
    /\ lock' = [lock EXCEPT ![ProcessOf[c]] = c]
    /\ Go(c, [call[c] EXCEPT !.pc = "read"])
    /\ UNCHANGED <<content, versions, deployment>>

Lock(c) ==
    /\ call[c].pc = "wait" /\ lock[ProcessOf[c]] = Free
    /\ lock' = [lock EXCEPT ![ProcessOf[c]] = c]
    /\ Go(c, [call[c] EXCEPT !.pc = "read"])
    /\ UNCHANGED <<content, versions, deployment>>

\* merge: the content is read and the new file is laid over it; a merge that is refused,
\* or a script that is gone, releases the lock.  Otherwise nothing is read.
ReadContent(c) ==
    /\ call[c].pc = "read"
    /\ \/ /\ content # Absent
          /\ \E ask \in Asks, merge \in BOOLEAN : \E f \in Target(IF merge THEN content ELSE NoFiles, ask) :
            /\ Go(c, [call[c] EXCEPT !.pc = "push", !.file = f, !.merge = merge,
                        !.body = Laid(IF merge THEN content ELSE NoFiles, f, ask.source)])
            /\ UNCHANGED lock
       \/ Go(c, Idle) /\ Release(c)
    /\ UNCHANGED <<content, versions, deployment>>

\* The script has the files that are pushed and no others.  A push that fails changes
\* nothing.
Push(c) ==
    /\ call[c].pc = "push"
    /\ Release(c)
    /\ \/ /\ content # Absent /\ content' = call[c].body
          /\ Overtakes(ProcessOf[c], c)
       \/ Go(c, Idle) /\ UNCHANGED content
    /\ UNCHANGED <<versions, deployment>>

\* Somebody edits the script in Google's editor.
SomebodyEdits ==
    /\ content # Absent
    /\ \E f \in Files, s \in Sources \cup {Absent} : content' = [content EXCEPT ![f] = s]
    /\ Overtakes(Free, Free)
    /\ UNCHANGED <<versions, deployment, lock>>

DeleteScriptProject ==
    /\ content # Absent /\ content' = Absent
    /\ versions' = 0 /\ deployment' = [d \in Deployments |-> 0]
    /\ UNCHANGED <<lock, call>>

-----------------------------------------------------------------------------
(* create_version, manage_deployment *)

Snapshot ==
    /\ content # Absent /\ versions < MaxVersions
    /\ versions' = versions + 1

CreateVersion == Snapshot /\ UNCHANGED <<content, deployment, lock, call>>

\* create: the version first.  The deployment, if it fails, leaves the version behind.
CreateDeployment(c) ==
    /\ call[c] = Idle /\ Snapshot
    /\ Go(c, [Idle EXCEPT !.pc = "deploy", !.version = versions + 1])
    /\ UNCHANGED <<content, deployment, lock>>

Deploy(c) ==
    /\ call[c].pc = "deploy"
    /\ \/ /\ content # Absent
          /\ \E d \in Deployments :
               deployment[d] = 0 /\ deployment' = [deployment EXCEPT ![d] = call[c].version]
       \/ UNCHANGED deployment
    /\ Go(c, Idle)
    /\ UNCHANGED <<content, versions, lock>>

\* Google refuses a version there is not.
UpdateDeployment(d) ==
    /\ deployment[d] # 0
    /\ \E v \in 1..versions : deployment' = [deployment EXCEPT ![d] = v]
    /\ UNCHANGED <<content, versions, lock, call>>

DeleteDeployment(d) ==
    /\ deployment[d] # 0 /\ deployment' = [deployment EXCEPT ![d] = 0]
    /\ UNCHANGED <<content, versions, lock, call>>

-----------------------------------------------------------------------------
Next ==
    \/ \E c \in Calls :
         \/ UpdateContent(c) \/ Lock(c) \/ ReadContent(c) \/ Push(c)
         \/ CreateDeployment(c) \/ Deploy(c)
    \/ SomebodyEdits \/ DeleteScriptProject \/ CreateVersion
    \/ \E d \in Deployments : UpdateDeployment(d) \/ DeleteDeployment(d)

Spec == Init /\ [][Next]_vars

-----------------------------------------------------------------------------
(* Properties *)

\* "By default this merges the supplied files into the existing project, leaving other
\* files untouched": of the calls of one process no merge undoes another's, however they
\* interleave; only what another process or an editor wrote in between can be lost.
MergeLeavesOtherFiles ==
    \A c \in Calls :
        LET k == call[c]
        IN k.pc = "push" /\ call'[c] = Idle /\ content' # content /\ k.merge /\ ~k.overtaken =>
             \A f \in Files : f # k.file => content'[f] = content[f]

MergesLeaveOtherFiles == [][MergeLeavesOtherFiles]_vars
=============================================================================
