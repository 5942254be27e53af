---------------------------- MODULE BenchmarkRuns ----------------------------
(***************************************************************************)
(* llmux/runner/run.py and analyze.py: a batch of benchmark runs.  A run   *)
(* is an agent (the CLI) with an MCP server of its own, whose backend is   *)
(* dumped to state.json after every call; at the end it is graded from the *)
(* dump and recorded, and a report counts all of them.  What a crash of    *)
(* the harness leaves on disk is counted again by analyze.reanalyze.       *)
(*                                                                         *)
(* Of a document only counts whether its grader passes it.  The taxonomy   *)
(* of mistakes is left out but for its crashes, and so is damage to files  *)
(* that were once written whole.                                           *)
(***************************************************************************)
EXTENDS Naturals, FiniteSets

CONSTANTS
    Jobs,      \* the pairs of a scenario and a model, no two the same
    Workers,   \* how many runs at a time
    NoVerdict,
    NoFile,
    Half,      \* a file cut short
    MaxCalls   \* bound: calls of an agent that change what it is graded on

VARIABLES
    harness,  \* the process: "runs", "reported" or "crashed"
    agent,    \* per run: the CLI, and what its transcript tells
    server,   \* per run: the MCP server's backend
    disk,     \* per run: what its directory holds
    verdict,  \* per run: the result the harness keeps in memory, and kept when it crashed
    report,   \* the counts of the batch's report
    rebuilt   \* per run: the result reanalyze makes of what is on disk

vars == <<harness, agent, server, disk, verdict, report, rebuilt>>

Outcomes == {"PASS", "FAIL", "INCONCLUSIVE"}
Documents == [good : BOOLEAN, broken : BOOLEAN]
Ends == {"clean", "died", "killed", "unstarted"}
\* Of a record what a rebuild takes from it, which the record of last resort has too.
Records == [harnessError : BOOLEAN, timedOut : BOOLEAN]

TypeOK ==
    /\ harness \in {"runs", "reported", "crashed"}
    /\ \A j \in Jobs :
        /\ agent[j].pc \in {"waiting", "running", "ended", "graded", "done"}
        /\ agent[j].end \in Ends \cup {NoVerdict}
        /\ agent[j].graded \in Documents \cup {NoFile} /\ agent[j].found \in BOOLEAN
        /\ server[j].doc \in Documents \cup {NoFile} /\ server[j].calls \in 0..MaxCalls
        /\ disk[j].state \in Documents \cup {NoFile}
        /\ disk[j].record \in {NoFile, Half} \/ disk[j].record \in Records
    /\ verdict \in [Jobs -> Outcomes \cup {NoVerdict}]
    /\ rebuilt \in [Jobs -> Outcomes \cup {NoVerdict}]

Init ==
    /\ harness = "runs"
    /\ agent = [j \in Jobs |-> [pc |-> "waiting", disturbed |-> FALSE, end |-> NoVerdict,
                                graded |-> NoFile, found |-> FALSE]]
    /\ server = [j \in Jobs |-> [doc |-> NoFile, calling |-> FALSE, calls |-> 0]]
    /\ disk = [j \in Jobs |-> [state |-> NoFile, transcript |-> FALSE, record |-> NoFile]]
    /\ verdict = [j \in Jobs |-> NoVerdict]
    /\ report = NoVerdict
    /\ rebuilt = [j \in Jobs |-> NoVerdict]

-----------------------------------------------------------------------------
(* The agent and its server, processes of their own. *)

Running == {j \in Jobs : agent[j].pc \in {"running", "ended", "graded"}}

\* run_batch: the pool has a worker free. There may be no CLI to start.
Start(j) ==
    /\ harness = "runs" /\ agent[j].pc = "waiting" /\ Cardinality(Running) < Workers
    /\ \/ agent' = [agent EXCEPT ![j].pc = "running"]
       \/ agent' = [agent EXCEPT ![j].pc = "ended", ![j].end = "unstarted"]
    /\ UNCHANGED <<harness, server, disk, verdict, report, rebuilt>>

\* install_state_dump: the server comes up and dumps the seed at once.
ServerUp(j) ==
    /\ agent[j].pc # "waiting" /\ agent[j].end # "unstarted" /\ server[j].doc = NoFile
    /\ \E seed \in [good : BOOLEAN, broken : {FALSE}] :
        /\ server' = [server EXCEPT ![j].doc = seed]
        /\ disk' = [disk EXCEPT ![j].state = seed]
    /\ UNCHANGED <<harness, agent, verdict, report, rebuilt>>

Call(j) ==
    /\ harness = "runs" /\ agent[j].pc = "running"
    /\ server[j].doc # NoFile /\ ~server[j].calling /\ server[j].calls < MaxCalls
    /\ server' = [server EXCEPT ![j].calling = TRUE, ![j].calls = @ + 1]
    /\ UNCHANGED <<harness, agent, disk, verdict, report, rebuilt>>

\* _Call.execute as it was patched: the call takes effect, perhaps against an invariant of
\* the interference, and the whole backend is dumped by a rename. The server outlives its
\* agent until the call it is in is over.
Executed(j) ==
    /\ server[j].calling
    /\ \E d \in Documents :
        /\ server[j].doc.broken => d.broken
        /\ server' = [server EXCEPT ![j].doc = d, ![j].calling = FALSE]
        /\ disk' = [disk EXCEPT ![j].state = d]
    /\ UNCHANGED <<harness, agent, verdict, report, rebuilt>>

\* The stream tells of a usage limit, or of tools that are not the server's.
Disturb(j) ==
    /\ harness = "runs" /\ agent[j].pc = "running"
    /\ ~agent[j].disturbed
    /\ agent' = [agent EXCEPT ![j].disturbed = TRUE]
    /\ UNCHANGED <<harness, server, disk, verdict, report, rebuilt>>

\* The CLI ends with its calls answered, ends in the middle of one, or is killed when the
\* time of the run is up.
End(j) ==
    /\ harness = "runs" /\ agent[j].pc = "running"
    /\ \E end \in Ends \ {"unstarted"} :
        /\ end = "clean" => ~server[j].calling
        /\ agent' = [agent EXCEPT ![j].pc = "ended", ![j].end = end]
    /\ UNCHANGED <<harness, server, disk, verdict, report, rebuilt>>

-----------------------------------------------------------------------------
(* Grading, recording and counting. The facts of a run: the grade, what went wrong with the
   run or with its analysis, and whether its stream tells that it was disturbed. *)

\* A plausible bug, and one there was: whatever went wrong after the grade is an error of
\* the run.
OutcomeOfAnalysis(f) ==
    IF f.disturbed \/ f.timedOut \/ f.harnessError \/ f.analysisError THEN "INCONCLUSIVE"
    ELSE IF f.passed THEN "PASS" ELSE "FAIL"

\* RunResult.outcome and inconclusive_reasons.
Outcome(f) ==
    IF f.disturbed \/ f.timedOut \/ f.harnessError THEN "INCONCLUSIVE"
    ELSE IF f.passed THEN "PASS" ELSE "FAIL"

\* A plausible bug: the record keeps the grade and not what was wrong with the run.
RecordedBare(f) == [harnessError |-> FALSE, timedOut |-> FALSE]

\* _write_run_record.
Recorded(f) == [harnessError |-> f.harnessError, timedOut |-> f.timedOut]

\* grade_backend on the dump; without one the grade is that of a crash. (A document whose
\* grader raises is one that does not pass.)
Passes(state) == state # NoFile /\ state.good

\* execute_run from the end of the CLI: the transcript is written and the state read, once,
\* to be graded (_load_and_grade).
ReadState(j) ==
    /\ harness = "runs" /\ agent[j].pc = "ended"
    /\ agent' = [agent EXCEPT ![j].pc = "graded", ![j].graded = disk[j].state]
    /\ disk' = [disk EXCEPT ![j].transcript = TRUE]
    /\ UNCHANGED <<harness, server, verdict, report, rebuilt>>

\* Whether the grade of a crash is an error of the harness goes by a second look, at
\* whether there is a file by now; then the run is classified and recorded. Anything that
\* raises on the way costs the record and not the batch (run_batch, one).
Grade(j) ==
    LET a == agent[j]
        found == disk[j].state # NoFile
        facts(analysisError) ==
            [passed |-> Passes(a.graded),
             harnessError |-> \/ a.end \in {"unstarted", "killed"}
                              \/ a.graded = NoFile /\ ~found
                              \/ a.graded # NoFile /\ a.graded.broken,
             analysisError |-> analysisError,
             timedOut |-> a.end = "killed",
             disturbed |-> a.disturbed]
    IN /\ harness = "runs" /\ a.pc = "graded"
       /\ agent' = [agent EXCEPT ![j].pc = "done", ![j].found = found]
       /\ \/ \E f \in {facts(e) : e \in BOOLEAN} :
                /\ verdict' = [verdict EXCEPT ![j] = Outcome(f)]
                /\ disk' = [disk EXCEPT ![j].record = Recorded(f)]
          \/ /\ verdict' = [verdict EXCEPT ![j] = "INCONCLUSIVE"]
             /\ UNCHANGED disk
       /\ UNCHANGED <<harness, server, report, rebuilt>>

\* The transcript cannot be written: there is nothing to rebuild the run from.
GradeFails(j) ==
    /\ harness = "runs" /\ agent[j].pc = "ended"
    /\ agent' = [agent EXCEPT ![j].pc = "done"]
    /\ verdict' = [verdict EXCEPT ![j] = "INCONCLUSIVE"]
    /\ UNCHANGED <<harness, server, disk, report, rebuilt>>

\* A plausible bug, and one there was: what did not fail is a pass.
CountsGenerous(results) ==
    LET Of(outcomes) == Cardinality({j \in Jobs : results[j] \in outcomes})
    IN [runs |-> Of(Outcomes), passes |-> Of({"PASS", "INCONCLUSIVE"}), fails |-> Of({"FAIL"}),
        inconclusive |-> Of({"INCONCLUSIVE"})]

\* aggregate and Cell.add.
Counts(results) ==
    LET Of(outcomes) == Cardinality({j \in Jobs : results[j] \in outcomes})
    IN [runs |-> Of(Outcomes), passes |-> Of({"PASS"}), fails |-> Of({"FAIL"}),
        inconclusive |-> Of({"INCONCLUSIVE"})]

\* main and write_report, when the pool is done.
Report ==
    /\ harness = "runs" /\ \A j \in Jobs : agent[j].pc = "done"
    /\ report' = Counts(verdict)
    /\ harness' = "reported"
    /\ UNCHANGED <<agent, server, disk, verdict, rebuilt>>

\* The harness is killed, perhaps between the files of a run or in the middle of one.
Crash ==
    /\ harness = "runs"
    /\ harness' = "crashed"
    /\ \E cut \in SUBSET {j \in Jobs : agent[j].pc = "graded"} :
        disk' = [j \in Jobs |->
                    IF j \in cut THEN [disk[j] EXCEPT !.record = Half] ELSE disk[j]]
    /\ UNCHANGED <<agent, server, verdict, report, rebuilt>>

\* reanalyze: the stream as it was written, the state as it is by now, the rest as recorded.
FactsOf(j) ==
    [passed |-> Passes(disk[j].state),
     harnessError |-> disk[j].record.harnessError,
     analysisError |-> FALSE,
     timedOut |-> disk[j].record.timedOut,
     disturbed |-> disk[j].transcript /\ agent[j].disturbed]

\* The directories without a record are passed over, and those with an unreadable one are
\* named and skipped.
Rebuild ==
    /\ harness # "runs"
    /\ rebuilt' = [j \in Jobs |->
            IF disk[j].record \in {NoFile, Half} THEN NoVerdict ELSE Outcome(FactsOf(j))]
    /\ UNCHANGED <<harness, agent, server, disk, verdict, report>>

Next ==
    \/ Report \/ Crash \/ Rebuild
    \/ \E j \in Jobs :
        \/ Start(j) \/ ServerUp(j) \/ Call(j) \/ Executed(j) \/ Disturb(j) \/ End(j)
        \/ ReadState(j) \/ Grade(j) \/ GradeFails(j)

Spec == Init /\ [][Next]_vars

-----------------------------------------------------------------------------
(* Properties. *)

\* What is counted as a measurement measured the agent: nobody throttled or killed it, it
\* saw the server's tools only, and there was a state to grade. And what measured it is
\* counted, whatever the analysis makes of it. One race is left out: the server's first
\* dump came between the two looks at the file. Such a run is at least never a pass.
Undisturbed(j) ==
    /\ ~agent[j].disturbed /\ agent[j].end \in {"clean", "died"}
    /\ agent[j].graded # NoFile /\ ~agent[j].graded.broken
Overtaken(j) == agent[j].graded = NoFile /\ agent[j].found
OnlyMeasurementsCount ==
    \A j \in Jobs :
        /\ ~Overtaken(j) =>
            (verdict[j] \in {"PASS", "FAIL"} \/ rebuilt[j] \in {"PASS", "FAIL"} => Undisturbed(j))
        /\ Overtaken(j) => verdict[j] # "PASS"
        /\ rebuilt[j] = "INCONCLUSIVE" => ~Undisturbed(j)

\* The report and the rebuild agree on what they both count, though servers still run when
\* the state is first read; and a batch that was reported counts every run.
ReportsAgree ==
    /\ \A j \in Jobs :
        agent[j].end # "died" /\ ~Overtaken(j) /\ NoVerdict \notin {verdict[j], rebuilt[j]}
        => rebuilt[j] = verdict[j]
    /\ harness = "reported" =>
        /\ report.runs = Cardinality(Jobs)
        /\ report.passes + report.fails + report.inconclusive = report.runs
        /\ report.passes <= Cardinality({j \in Jobs : Undisturbed(j)})

\* Not so: the file is looked for again after the grade (run.py:351), and a run without a
\* gradeable state is counted as a failure of the agent.
MeasuresAState ==
    \A j \in Jobs : verdict[j] \in {"PASS", "FAIL"} => agent[j].graded # NoFile

\* Not so: when the CLI dies in a call, its server may finish it after the grade.
RebuildsAgree ==
    \A j \in Jobs : NoVerdict \notin {verdict[j], rebuilt[j]} => rebuilt[j] = verdict[j]
=============================================================================
