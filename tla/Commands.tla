------------------------------ MODULE Commands ------------------------------
(***************************************************************************)
(* The commands of redactguard_cli/commands: batch, one Orchestrator.run() *)
(* after the other over the files of a folder, a report for each and an    *)
(* exit status for all; run and scan, one call for one file, whose report  *)
(* is printed or whose manifest is written.  A call is an instance of      *)
(* RedactionJob, whose steps are this module's while a file is current.    *)
(*                                                                         *)
(* The process ends with 0 or 1: click turns an interrupt, as Python an    *)
(* uncaught exception, into status 1, and only what the terminal says last *)
(* tells them from the 1 of a summary or of an error message.              *)
(***************************************************************************)
EXTENDS Integers, FiniteSets, FiniteSetsExt

CONSTANTS
    Files,                   \* the video files iter_input_paths() yields
    Base,                    \* file -> its base name without the extension
    None,
    Limits,                  \* values of policy.retry.max_attempts
    Absent, Stale, Partial   \* files not there, of an earlier batch, incomplete

Names == {Base[f] : f \in Files}

ASSUME FilesAreFinite == IsFiniteSet(Files)
ASSUME LimitsAreIntegers == Limits \subseteq Int
ASSUME NoFileIsAMark == {None, Absent, Stale, Partial} \cap (Files \cup Nat) = {}
ASSUME MarksAreApart == Partial \notin {Absent, Stale}
ASSUME NoneIsNoEnd ==
    None \notin {"zero", "one", "summary", "answer", "error", "traceback", "aborted",
               "resolved", "unresolved", "failed"}

VARIABLES
    command,    \* "batch", "run" or "scan"
    todo,       \* the files the command has not come to
    current,    \* the file it is at, or None
    outputs,    \* base name -> what <base>.redacted.mp4, or --out of run,
                \*    holds: a mark, or the file whose complete redaction it is
    manifest,   \* likewise what the manifest of scan holds
    reports,    \* base name -> what <base>.report.md holds
    unresolved_count, failed_count,
    exit,       \* the exit status, "zero" or "one", or None
    said,       \* what the terminal says last: "summary" or "answer" of the
                \*    command, an "error" message, a "traceback", "aborted"; None
    outcome,    \* file -> how its run ended, or None
    dryRun, limit, tries, clean, phase, out   \* the run of the current file

run == <<dryRun, limit, tries, clean, phase, out>>
counts == <<unresolved_count, failed_count>>
vars == <<command, todo, current, outputs, manifest, reports, counts, exit, said, outcome, run>>

Run == INSTANCE RedactionJob

Init ==
    /\ command \in {"batch", "run", "scan"}
    /\ todo \in IF command = "batch" THEN {Files} ELSE {{f} : f \in Files}
    /\ current = None
    /\ outputs \in [Names -> {Absent, Stale}]
    /\ manifest \in {Absent, Stale}
    /\ reports \in [Names -> {Absent, Stale}]
    /\ unresolved_count = 0 /\ failed_count = 0
    /\ exit = None /\ said = None
    /\ outcome = [f \in Files |-> None]
    /\ Run!Init /\ dryRun = (command = "scan")

\* An exception or an interrupt that nothing catches ends the process.
Dies == exit' = "one" /\ said' \in {"traceback", "aborted"}

\* Nothing is caught before the first file or between two: neither the output
\* directory or the policy that cannot be had, nor a line that cannot be
\* printed.
Breaks ==
    /\ exit = None /\ current = None
    /\ Dies
    /\ UNCHANGED <<command, todo, current, outputs, manifest, reports, counts, outcome, run>>

\* The command comes to f, a batch in the order of os.walk, and makes its call.
Take(f) ==
    /\ exit = None /\ current = None /\ f \in todo
    /\ todo' = todo \ {f}
    /\ current' = f
    /\ tries' = 0 /\ clean' = FALSE /\ phase' = "working"
    /\ out' = IF outputs[Base[f]] = Absent THEN Absent ELSE Stale
    /\ UNCHANGED <<command, outputs, manifest, reports, counts, exit, said, outcome, dryRun, limit>>

\* What the run left at out_path.
Landed == IF out' \in Nat THEN current
          ELSE IF out' = Partial THEN Partial ELSE outputs[Base[current]]

\* The call makes a step; it may write out_path.
RunStep ==
    /\ exit = None /\ current # None
    /\ Run!Try \/ Run!Write \/ Run!Deliver \/ Run!List \/ Run!Abort
    /\ outputs' = [outputs EXCEPT ![Base[current]] = Landed]
    /\ UNCHANGED <<command, todo, current, manifest, reports, counts, exit, said, outcome>>

\* The call is interrupted: neither `except` sees it.
RunInterrupted ==
    /\ exit = None /\ current # None
    /\ Run!Abort
    /\ exit' = "one" /\ said' = "aborted"
    /\ UNCHANGED <<command, todo, current, outputs, manifest, reports, counts, outcome>>

-----------------------------------------------------------------------------
\* A batch has the outcome of its current file to report.
Reporting == command = "batch" /\ exit = None /\ current # None /\ phase # "working"

Says == IF phase = "aborted" THEN "failed" ELSE phase

\* Mutants of Count: the attempts are counted, not the files; a failed file is
\* reported but not counted.
CountAttempts ==
    /\ unresolved_count' = unresolved_count + (IF Says = "unresolved" THEN tries ELSE 0)
    /\ failed_count' = failed_count + (IF Says = "failed" THEN 1 ELSE 0)

CountResolvedOnly ==
    /\ unresolved_count' = unresolved_count + (IF Says = "unresolved" THEN 1 ELSE 0)
    /\ UNCHANGED failed_count

Count ==
    /\ unresolved_count' = unresolved_count + (IF Says = "unresolved" THEN 1 ELSE 0)
    /\ failed_count' = failed_count + (IF Says = "failed" THEN 1 ELSE 0)

Told == [reports EXCEPT ![Base[current]] = [of |-> current, says |-> Says]]

\* Mutant of Report: a failed run leaves no report.
ReportSuccess ==
    /\ Reporting
    /\ Count
    /\ reports' = IF phase = "aborted" THEN reports
                  ELSE Told
    /\ outcome' = [outcome EXCEPT ![current] = Says]
    /\ current' = None
    /\ UNCHANGED <<command, todo, outputs, manifest, exit, said, run>>

\* The run is over, the report is written.
Report ==
    /\ Reporting
    /\ Count
    /\ reports' = Told
    /\ outcome' = [outcome EXCEPT ![current] = Says]
    /\ current' = None
    /\ UNCHANGED <<command, todo, outputs, manifest, exit, said, run>>

\* The report cannot be written, or not what is printed after it, or that is
\* interrupted: the command ends there.
ReportRaises ==
    /\ Reporting
    /\ \/ reports' = Told /\ Count
       \/ /\ reports' \in {reports, [reports EXCEPT ![Base[current]] = Partial]}
          /\ failed_count' = failed_count + (IF Says = "failed" THEN 1 ELSE 0)
          /\ UNCHANGED unresolved_count
    /\ Dies
    /\ UNCHANGED <<command, todo, current, outputs, manifest, outcome, run>>

\* The summary, and the exit status.
Summarise ==
    /\ command = "batch" /\ exit = None /\ current = None /\ todo = {}
    /\ exit' = IF unresolved_count > 0 \/ failed_count > 0 THEN "one" ELSE "zero"
    /\ said' = "summary"
    /\ UNCHANGED <<command, todo, current, outputs, manifest, reports, counts, outcome, run>>

-----------------------------------------------------------------------------
\* run or scan has had its call.
Called == command # "batch" /\ exit = None /\ current # None /\ phase # "working"

\* scan writes the manifest over the one that was there.
WriteManifest ==
    /\ Called /\ phase = "listed" /\ manifest # current
    /\ manifest' = current
    /\ UNCHANGED <<command, todo, current, outputs, reports, counts, exit, said, outcome, run>>

\* The call raised.  A MediaDecodeError becomes an error message, and no stage
\* after the last verification calls ffmpeg, so it is none by then; anything
\* else passes.  The status is 1 in any case.
Refuse ==
    /\ Called /\ phase = "aborted"
    /\ \/ Dies
       \/ ~Run!Final /\ exit' = "one" /\ said' = "error"
    /\ UNCHANGED <<command, todo, current, outputs, manifest, reports, counts, outcome, run>>

\* The report, or where the manifest is; unresolved is said, not counted.
Answer ==
    /\ Called
    /\ phase \in {"resolved", "unresolved"} \/ (phase = "listed" /\ manifest = current)
    /\ exit' = "zero" /\ said' = "answer"
    /\ UNCHANGED <<command, todo, current, outputs, manifest, reports, counts, outcome, run>>

\* The manifest cannot be written, or nothing printed.
AnswerRaises ==
    /\ Called /\ phase # "aborted"
    /\ manifest' \in IF phase = "listed" /\ manifest # current
                     THEN {manifest, Partial} ELSE {manifest}
    /\ Dies
    /\ UNCHANGED <<command, todo, current, outputs, reports, counts, outcome, run>>

Next ==
    \/ (\E f \in Files : Take(f)) \/ RunStep \/ Report \/ Summarise
    \/ WriteManifest \/ Refuse \/ Answer
    \/ Breaks \/ RunInterrupted \/ ReportRaises \/ AnswerRaises

Spec == Init /\ [][Next]_vars

-----------------------------------------------------------------------------
Outcomes == {"resolved", "unresolved", "failed"}
Document == [of : Files, says : Outcomes] \cup {Absent, Stale, Partial}

\* The values the state ranges over.
TypeOK ==
    /\ command \in {"batch", "run", "scan"}
    /\ todo \subseteq Files
    /\ current \in Files \cup {None}
    /\ outputs \in [Names -> Files \cup {Absent, Stale, Partial}]
    /\ manifest \in Files \cup {Absent, Stale, Partial}
    /\ reports \in [Names -> Document]
    /\ unresolved_count \in 0 .. Cardinality(Files)
    /\ failed_count \in 0 .. Cardinality(Files)
    /\ exit \in {None, "zero", "one"}
    /\ said \in {None, "summary", "answer", "error", "traceback", "aborted"}
    /\ outcome \in [Files -> Outcomes \cup {None}]
    /\ dryRun = (command = "scan") /\ limit \in Limits
    /\ tries \in 0 .. Run!Attempts /\ clean \in BOOLEAN
    /\ phase \in {"working", "listed", "resolved", "unresolved", "aborted"}

\* Status 0 can be trusted: of batch, the report under each name says that it
\* is resolved and the output there is the redaction of the very file the
\* report is about, none is left of an earlier batch; of run, the output is
\* the redaction of the file; of scan, the manifest is its and no output was
\* touched.
ZeroTells ==
    CASE command = "batch" ->
            /\ \A f \in Files : outcome[f] = "resolved"
            /\ \A n \in Names : \E f \in Files :
                  /\ Base[f] = n /\ outputs[n] = f
                  /\ reports[n] = [of |-> f, says |-> "resolved"]
      [] command = "run"  -> outputs[Base[current]] = current
      [] command = "scan" -> manifest = current /\ \A n \in Names : outputs[n] \in {Absent, Stale}

\* Status 1 alone tells nothing of the files: it is also that of a traceback
\* and of an interrupt, behind which a batch may have been cut short, and an
\* output or a manifest be incomplete or complete.  With the summary it tells
\* that every file had its run and that one was not resolved; with an error
\* message, that the output and the manifest are what they were.
ExitTells ==
    /\ exit = "zero" => ZeroTells
    /\ said = "summary" => /\ \A f \in Files : outcome[f] # None
                           /\ (exit = "one") = (\E f \in Files : outcome[f] # "resolved")
    /\ said = "error" => outputs[Base[current]] \in {Absent, Stale} /\ manifest \in {Absent, Stale}

\* A file that shares its base name with no other keeps its own report and
\* its own output whatever the others' runs do, and they agree: the output
\* is its redaction unless the report says that it failed.  Then it may still
\* be that, or incomplete, or an earlier batch's.
ReportMatchesOutput ==
    \A f \in Files :
        (outcome[f] # None /\ \A g \in Files \ {f} : Base[g] # Base[f]) =>
            /\ reports[Base[f]] = [of |-> f, says |-> outcome[f]]
            /\ outcome[f] # "failed" => outputs[Base[f]] = f

-----------------------------------------------------------------------------
\* The docstring of batch() says "Process every video under a folder/archive
\* in one invocation, aggregating per-file reports": in the end the report
\* under a file's name is that file's.
EveryFileIsReported ==
    said = "summary" =>
        \A f \in Files : reports[Base[f]] = [of |-> f, says |-> outcome[f]]
=============================================================================
