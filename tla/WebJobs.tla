------------------------------- MODULE WebJobs ------------------------------
(***************************************************************************)
(* Uploads and their jobs in redactguard_webapp: the upload handler of     *)
(* routes/pages.py, the jobs table and the thread pool of jobs.py.         *)
(*                                                                         *)
(* The handler runs on the event loop, the jobs on Workers threads that    *)
(* take them from the pool's queue.  The table and the files survive a     *)
(* crash of the process, the queue does not.  Every access to the database *)
(* may raise (it is locked, the disk is full); so may the redaction, whose *)
(* outcomes are those of RedactionJob.                                     *)
(*                                                                         *)
(* A job's id is its place in the table.  The pool's queue and its         *)
(* hand-over to a thread are concurrent.futures', modelled from how        *)
(* jobs.py uses them.                                                      *)
(***************************************************************************)
EXTENDS Integers, Sequences, FiniteSets, SequencesExt

CONSTANTS
    Uploads,           \* upload requests
    Workers,           \* threads of _EXECUTOR
    None,              \* SQL's NULL, and no job
    Absent, Partial,   \* the output file: there is none, it is incomplete
    MaxCrashes,        \* bound on the crashes
    MaxDbErrors        \* bound on the database calls that raise

\* What the verifier said of the file a redaction wrote.
Verdicts == {"resolved", "unresolved"}

ASSUME MarksAreApart == {None, Absent, Partial} \cap (Nat \cup Verdicts) = {}
ASSUME BoundsAreNumbers == MaxCrashes \in Nat /\ MaxDbErrors \in Nat

VARIABLES
    request,    \* upload -> its step, and the job created for it
    jobs,       \* the jobs table: id -> row
    output,     \* id -> the file at output_path
    queue,      \* the pool's queue of submitted ids
    work,       \* thread -> its job, its step in run_job_sync, run()'s verdict
    up,         \* the process is alive
    escaped,    \* the ids whose run_job_sync raised; nothing reads the future
    crashes, dbErrors   \* counted against their bounds

vars == <<request, jobs, output, queue, work, up, escaped, crashes, dbErrors>>

Idle == [job |-> None, step |-> "idle", verdict |-> None]

Init ==
    /\ request = [u \in Uploads |-> [step |-> "idle", job |-> None]]
    /\ jobs = <<>>
    /\ output = <<>>
    /\ queue = <<>>
    /\ work = [w \in Workers |-> Idle]
    /\ up = TRUE
    /\ escaped = {}
    /\ crashes = 0
    /\ dbErrors = 0

DbWorks == UNCHANGED dbErrors
DbRaises == dbErrors < MaxDbErrors /\ dbErrors' = dbErrors + 1

-----------------------------------------------------------------------------
Ask(u, from, to) ==
    /\ up
    /\ request[u].step = from
    /\ request' = [request EXCEPT ![u].step = to]

\* Mutant of EventLoopFree: an await between create_job and submit_job.
EventLoopShared == TRUE

\* There is no await between create_job and submit_job: no other upload
\* handler runs meanwhile, though threads do.
EventLoopFree == \A u \in Uploads : request[u].step # "created"

\* The checks on session, policy, name and size turn the upload down.
Refuse(u) ==
    /\ EventLoopFree
    /\ Ask(u, "idle", "refused")
    /\ UNCHANGED <<jobs, output, queue, work, up, escaped, crashes, dbErrors>>

\* The upload is written under a fresh directory; the handler awaits.
Save(u) ==
    /\ EventLoopFree
    /\ Ask(u, "idle", "saved")
    /\ UNCHANGED <<jobs, output, queue, work, up, escaped, crashes, dbErrors>>

\* create_job(): the row is committed, its output does not exist yet.
NewRow == [status |-> "queued", verdict |-> None, explained |-> FALSE, log |-> "empty"]

Create(u) ==
    /\ EventLoopFree
    /\ up /\ request[u].step = "saved"
    /\ jobs' = Append(jobs, NewRow)
    /\ output' = Append(output, Absent)
    /\ request' = [request EXCEPT ![u] = [step |-> "created", job |-> Len(jobs) + 1]]
    /\ DbWorks
    /\ UNCHANGED <<queue, work, up, escaped, crashes>>

\* create_job() raises: the request fails, its files stay.
CreateRaises(u) ==
    /\ EventLoopFree
    /\ Ask(u, "saved", "failed")
    /\ DbRaises
    /\ UNCHANGED <<jobs, output, queue, work, up, escaped, crashes>>

\* submit_job(), and the answer.
Submit(u) ==
    /\ Ask(u, "created", "answered")
    /\ queue' = Append(queue, request[u].job)
    /\ UNCHANGED <<jobs, output, work, up, escaped, crashes, dbErrors>>

-----------------------------------------------------------------------------
\* Mutant of Take: the queue is read but the job stays in it.
TakeAndKeep(w) ==
    /\ up /\ work[w].step = "idle" /\ queue # <<>>
    /\ work' = [work EXCEPT ![w] = [job |-> Head(queue), step |-> "start", verdict |-> None]]
    /\ UNCHANGED <<request, jobs, output, queue, up, escaped, crashes, dbErrors>>

\* An idle thread takes the job that waits longest.
Take(w) ==
    /\ up /\ work[w].step = "idle" /\ queue # <<>>
    /\ work' = [work EXCEPT ![w] = [job |-> Head(queue), step |-> "start", verdict |-> None]]
    /\ queue' = Tail(queue)
    /\ UNCHANGED <<request, jobs, output, up, escaped, crashes, dbErrors>>

\* Thread w goes on to its next step.
Step(w, from, to) ==
    /\ work[w].step = from
    /\ work' = [work EXCEPT ![w].step = to]

\* Mutants of Leave: the thread does not survive its job, or never lets go of it.
LeaveForGood(w) == work' = [work EXCEPT ![w] = [Idle EXCEPT !.step = "dead"]]
LeaveHolding(w) == work' = [work EXCEPT ![w].step = "idle"]

\* run_job_sync() is over: the thread waits for the next job.
Leave(w) == work' = [work EXCEPT ![w] = Idle]

\* Mutant of Write: the verdict column always says resolved.
WriteResolved(w, status, verdict, explained) ==
    jobs' = [jobs EXCEPT ![work[w].job].status = status,
                         ![work[w].job].verdict = IF verdict = None THEN None ELSE "resolved",
                         ![work[w].job].explained = explained]

\* _update_job() on the thread's job.
Write(w, status, verdict, explained) ==
    jobs' = [jobs EXCEPT ![work[w].job].status = status,
                         ![work[w].job].verdict = verdict,
                         ![work[w].job].explained = explained]

\* _append_progress() on the thread's job; only the last line is kept here.
AppendProgress(w, line) == jobs' = [jobs EXCEPT ![work[w].job].log = line]

\* Mutant of Start: the status is not written.
StartSilently(w) ==
    /\ Step(w, "start", "lookup")
    /\ DbWorks
    /\ UNCHANGED <<request, jobs, output, queue, up, escaped, crashes>>

\* The status is set to running, outside the try clause.
Start(w) ==
    /\ Step(w, "start", "lookup")
    /\ Write(w, "running", None, FALSE)
    /\ DbWorks
    /\ UNCHANGED <<request, output, queue, up, escaped, crashes>>

\* The row is read back, outside the try clause; rows are never deleted.
Lookup(w) ==
    /\ Step(w, "lookup", "redact")
    /\ DbWorks
    /\ UNCHANGED <<request, jobs, output, queue, up, escaped, crashes>>

\* Orchestrator.run() reports a stage through on_progress.
Progress(w) ==
    /\ work[w].step = "redact"
    /\ AppendProgress(w, "stage")
    /\ DbWorks
    /\ UNCHANGED <<request, output, queue, work, up, escaped, crashes>>

\* Orchestrator.run() has reported its first stage before it does anything.
UnderWay(w) == work[w].step = "redact" /\ jobs[work[w].job].log = "stage"

\* Orchestrator.run() returns: the output is written.
RunReturns(w) ==
    /\ UnderWay(w)
    /\ \E v \in Verdicts :
          /\ output' = [output EXCEPT ![work[w].job] = v]
          /\ work' = [work EXCEPT ![w].step = "finish", ![w].verdict = v]
    /\ UNCHANGED <<request, jobs, queue, up, escaped, crashes, dbErrors>>

\* load_policy() or Orchestrator.run() raises, in a stage of its own or
\* because on_progress could not write.  Once run() is under way it may leave
\* the output incomplete, or complete, though the job will be failed.
RunRaises(w) ==
    /\ Step(w, "redact", "explain")
    /\ \E left \in {output[work[w].job]} \cup IF UnderWay(w) THEN {Partial} \cup Verdicts ELSE {} :
          output' = [output EXCEPT ![work[w].job] = left]
    /\ UNCHANGED <<request, jobs, queue, up, escaped, crashes, dbErrors>>

\* The job is done: the verdict and the report go in with the status.
Finish(w) ==
    /\ work[w].step = "finish"
    /\ Leave(w)
    /\ Write(w, "done", work[w].verdict, FALSE)
    /\ DbWorks
    /\ UNCHANGED <<request, output, queue, up, escaped, crashes>>

\* That write raises, in the try clause: the job will be failed.
FinishRaises(w) ==
    /\ Step(w, "finish", "explain")
    /\ DbRaises
    /\ UNCHANGED <<request, jobs, output, queue, up, escaped, crashes>>

\* Either except clause first appends a line to the log ...
Explain(w) ==
    /\ Step(w, "explain", "record")
    /\ AppendProgress(w, "failure")
    /\ DbWorks
    /\ UNCHANGED <<request, output, queue, up, escaped, crashes>>

\* ... then fails the job, with its error message.
Record(w) ==
    /\ work[w].step = "record"
    /\ Leave(w)
    /\ Write(w, "failed", None, TRUE)
    /\ DbWorks
    /\ UNCHANGED <<request, output, queue, up, escaped, crashes>>

\* A database call outside the try clause, or in an except clause, raises:
\* the exception leaves run_job_sync().
Escape(w) ==
    /\ work[w].step \in {"start", "lookup", "explain", "record"}
    /\ DbRaises
    /\ escaped' = escaped \cup {work[w].job}
    /\ Leave(w)
    /\ UNCHANGED <<request, jobs, output, queue, up, crashes>>

Work(w) ==
    \/ Take(w) \/ Start(w) \/ Lookup(w) \/ Progress(w) \/ RunReturns(w) \/ RunRaises(w)
    \/ Finish(w) \/ FinishRaises(w) \/ Explain(w) \/ Record(w) \/ Escape(w)

-----------------------------------------------------------------------------
Redacting == {work[w].job : w \in {v \in Workers : UnderWay(v)}}

\* The process dies.  Requests, threads and the queue are gone; a file being
\* copied may be incomplete.
Crash ==
    /\ up /\ crashes < MaxCrashes
    /\ up' = FALSE
    /\ crashes' = crashes + 1
    /\ request' = [u \in Uploads |->
                     IF request[u].step \in {"saved", "created"}
                     THEN [request[u] EXCEPT !.step = "failed"] ELSE request[u]]
    /\ queue' = <<>>
    /\ work' = [w \in Workers |-> Idle]
    /\ \E torn \in SUBSET Redacting :
          output' = [j \in DOMAIN output |-> IF j \in torn THEN Partial ELSE output[j]]
    /\ UNCHANGED <<jobs, escaped, dbErrors>>

\* Mutant of Restart: every row is submitted again, settled ones too.
RestartAll ==
    /\ ~up /\ up' = TRUE
    /\ queue' = [j \in DOMAIN jobs |-> j]
    /\ UNCHANGED <<request, jobs, output, work, escaped, crashes, dbErrors>>

\* It starts again: init_db() finds its tables and changes no row.
Restart ==
    /\ ~up /\ up' = TRUE
    /\ UNCHANGED <<request, jobs, output, queue, work, escaped, crashes, dbErrors>>

Handle(u) == Refuse(u) \/ Save(u) \/ Create(u) \/ CreateRaises(u) \/ Submit(u)

Next ==
    \/ \E u \in Uploads : Handle(u)
    \/ \E w \in Workers : Work(w)
    \/ Crash \/ Restart

\* The event loop and the threads are scheduled; nobody has to upload, and
\* nothing has to crash or to be restarted.
Spec ==
    /\ Init /\ [][Next]_vars
    /\ \A u \in Uploads : WF_vars(Submit(u))
    /\ \A w \in Workers : WF_vars(Work(w))

-----------------------------------------------------------------------------
Row == [status : {"queued", "running", "done", "failed"},
        verdict : Verdicts \cup {None}, explained : BOOLEAN,
        log : {"empty", "stage", "failure"}]
Steps == {"start", "lookup", "redact", "finish", "explain", "record"}

\* The values the state ranges over; a busy thread has a job in the table.
TypeOK ==
    /\ request \in [Uploads -> [step : {"idle", "refused", "saved", "created", "answered", "failed"},
                                job : DOMAIN jobs \cup {None}]]
    /\ jobs \in Seq(Row)
    /\ output \in Seq(Verdicts \cup {Absent, Partial}) /\ Len(output) = Len(jobs)
    /\ queue \in Seq(DOMAIN jobs)
    /\ work \in [Workers -> [job : DOMAIN jobs, step : Steps, verdict : Verdicts \cup {None}]
                            \cup {Idle}]
    /\ up \in BOOLEAN
    /\ escaped \subseteq DOMAIN jobs
    /\ crashes \in 0 .. MaxCrashes /\ dbErrors \in 0 .. MaxDbErrors

\* Who will still act on job j: the handler that is about to submit it, the
\* queue, a thread.
Holders(j) ==
    {<<"request", u>> : u \in {v \in Uploads : request[v] = [step |-> "created", job |-> j]}}
        \cup {<<"queue", i>> : i \in {k \in DOMAIN queue : queue[k] = j}}
        \cup {<<"worker", w>> : w \in {v \in Workers : work[v].job = j}}

\* No job is ever run twice at once or again: it is in one place, so one
\* thread writes its output and its row, and nobody holds a settled job.
OneHolder ==
    \A j \in DOMAIN jobs :
        /\ Cardinality(Holders(j)) <= 1
        /\ jobs[j].status \in {"done", "failed"} => Holders(j) = {}

\* While a job waits in the queue, no job uploaded after it is begun.
NoOvertaking ==
    \A j \in ToSet(queue) : \A k \in DOMAIN jobs :
        j < k => /\ jobs[k].status = "queued"
                 /\ \A w \in Workers : work[w].job # k

\* A job is done only when its output is the complete file run() reported
\* on, and its row says the verdict of that file.
DoneIsDelivered ==
    \A j \in DOMAIN jobs :
        jobs[j].status = "done" => /\ output[j] \in Verdicts
                                   /\ jobs[j].verdict = output[j]

Settled(j) == j \in DOMAIN jobs /\ jobs[j].status \in {"done", "failed"}

\* Once a job is done or failed, neither its row nor its file changes again,
\* through crashes and restarts: what job_download() read of the row is still
\* true when the file is sent.
SettledIsFinal ==
    [][\A j \in DOMAIN jobs : Settled(j) => jobs'[j] = jobs[j] /\ output'[j] = output[j]]_vars

\* Every job settles, unless the process crashes or an exception escapes the
\* job itself; a job that fails, or whose exception escapes, never keeps the
\* others from settling.
Settles ==
    \A j \in 1 .. Cardinality(Uploads) :
        (j \in DOMAIN jobs) ~> (crashes > 0 \/ j \in escaped \/ Settled(j))

Board == INSTANCE JobBoard WITH
    Nothing  <- None,
    status   <- [j \in DOMAIN jobs |-> jobs[j].status],
    download <- [j \in DOMAIN jobs |-> IF jobs[j].status = "done" THEN output[j] ELSE None]

\* The handlers and threads implement what JobBoard promises.
ImplementsBoard == Board!Spec

-----------------------------------------------------------------------------
\* The docstring of run_job_sync() says "Never raises - any exception is caught
\* and recorded as a failed job".
NeverRaises == escaped = {}

\* The job page says of a queued job with an empty log that it is "Waiting for
\* a worker slot to pick this job up...".
WaitingIsHeld ==
    up => \A j \in DOMAIN jobs :
              (jobs[j].status = "queued" /\ jobs[j].log = "empty") => Holders(j) # {}
=============================================================================
