---------------------------- MODULE WebJobsProofs ---------------------------
(***************************************************************************)
(* Theorems about WebJobs, for any number of uploads, threads, crashes and *)
(* database errors: a job is in one place at a time, jobs are begun in the *)
(* order of their upload, a settled job stays as it is, and the handlers   *)
(* and threads implement JobBoard.                                         *)
(***************************************************************************)
EXTENDS WebJobs, FiniteSetTheorems, SequenceTheorems, TLAPS

Busy(w) == work[w] # Idle

\* The queue is in the order of the uploads, and nothing from its head on has
\* been begun.
QueueInv ==
    /\ \A i, k \in DOMAIN queue : i < k => queue[i] < queue[k]
    /\ \A i \in DOMAIN queue : \A j \in DOMAIN jobs :
          queue[i] <= j => /\ jobs[j].status = "queued"
                           /\ \A w \in Workers : work[w].job # j

\* A handler between create_job and submit_job: it is the only one, its job is
\* the last of the table, and nobody else has it.
Submitting(u) ==
    /\ request[u].job = Len(jobs) /\ Len(jobs) # 0
    /\ jobs[Len(jobs)].status = "queued"
    /\ \A w \in Workers : work[w].job # Len(jobs)
    /\ \A i \in DOMAIN queue : queue[i] # Len(jobs)
    /\ \A v \in Uploads : request[v].step = "created" => v = u

RequestInv == \A u \in Uploads : request[u].step = "created" => Submitting(u)

\* What a thread at its step knows of its job.
Doing(w) ==
    /\ work[w].step = "start" => jobs[work[w].job].status = "queued"
    /\ work[w].step # "start" => jobs[work[w].job].status = "running"
    /\ work[w].step = "finish" => /\ work[w].verdict \in Verdicts
                                  /\ output[work[w].job] = work[w].verdict

WorkInv ==
    \A w \in Workers : Busy(w) =>
        /\ Doing(w)
        /\ \A v \in Workers : work[v].job = work[w].job => v = w

\* The inductive invariant.
Inv == TypeOK /\ QueueInv /\ RequestInv /\ WorkInv /\ DoneIsDelivered

-----------------------------------------------------------------------------
\* None is no id, so an idle thread has no job of the table.
LEMMA NoneIsNoJob == None \notin Nat /\ None \notin Verdicts
  BY MarksAreApart

\* The sequences of a state that is typed, as functions.
LEMMA Tables ==
    ASSUME TypeOK
    PROVE  /\ Len(jobs) \in Nat /\ DOMAIN jobs = 1 .. Len(jobs) /\ DOMAIN output = 1 .. Len(jobs)
           /\ \A j \in DOMAIN jobs : jobs[j] \in Row /\ output[j] \in Verdicts \cup {Absent, Partial}
           /\ Len(queue) \in Nat /\ DOMAIN queue = 1 .. Len(queue)
           /\ \A i \in DOMAIN queue : queue[i] \in DOMAIN jobs
  <1>1. jobs \in Seq(Row) /\ output \in Seq(Verdicts \cup {Absent, Partial}) /\ queue \in Seq(DOMAIN jobs)
    BY DEF TypeOK
  <1>2. Len(output) = Len(jobs)
    BY DEF TypeOK
  <1>3. Len(jobs) \in Nat /\ DOMAIN jobs = 1 .. Len(jobs)
    BY <1>1, LenProperties
  <1>4. DOMAIN output = 1 .. Len(jobs)
    BY <1>1, <1>2, LenProperties
  <1>5. Len(queue) \in Nat /\ DOMAIN queue = 1 .. Len(queue)
    BY <1>1, LenProperties
  <1>6. \A j \in DOMAIN jobs : jobs[j] \in Row
    BY <1>1, <1>3, ElementOfSeq
  <1>7. \A j \in DOMAIN jobs : output[j] \in Verdicts \cup {Absent, Partial}
    <2> TAKE j \in DOMAIN jobs
    <2>1. j \in 1 .. Len(output)
      BY <1>2, <1>3
    <2> QED
      BY ONLY <1>1, <2>1, ElementOfSeq
  <1>8. \A i \in DOMAIN queue : queue[i] \in DOMAIN jobs
    BY <1>1, <1>5, ElementOfSeq
  <1> QED
    BY <1>3, <1>4, <1>5, <1>6, <1>7, <1>8

\* A busy thread has a job of the table; an idle one has none.
LEMMA Threads ==
    ASSUME TypeOK, NEW w \in Workers
    PROVE  /\ Busy(w) => /\ work[w].job \in DOMAIN jobs /\ work[w].step \in Steps
                         /\ work[w].verdict \in Verdicts \cup {None}
                         /\ work[w] = [job |-> work[w].job, step |-> work[w].step, verdict |-> work[w].verdict]
           /\ ~Busy(w) => work[w].job = None /\ work[w].step = "idle"
           /\ work[w].step = "idle" => ~Busy(w)
           /\ work[w].job \in DOMAIN jobs => Busy(w)
  <1>1. work[w] \in [job : DOMAIN jobs, step : Steps, verdict : Verdicts \cup {None}] \cup {Idle}
    BY DEF TypeOK
  <1>2. ~Busy(w) => work[w].job = None /\ work[w].step = "idle"
    BY DEF Busy, Idle
  <1>3. Busy(w) => work[w] \in [job : DOMAIN jobs, step : Steps, verdict : Verdicts \cup {None}]
    BY <1>1 DEF Busy
  <1>4. None \notin DOMAIN jobs
    BY Tables, NoneIsNoJob
  <1>5. "idle" \notin Steps
    BY DEF Steps
  <1> QED
    BY <1>2, <1>3, <1>4, <1>5

\* A row of the table, field by field.
LEMMA RowFields ==
    ASSUME NEW r \in Row
    PROVE  /\ r.status \in {"queued", "running", "done", "failed"} /\ r.verdict \in Verdicts \cup {None}
           /\ r.explained \in BOOLEAN /\ r.log \in {"empty", "stage", "failure"}
           /\ r = [status |-> r.status, verdict |-> r.verdict, explained |-> r.explained, log |-> r.log]
  BY DEF Row

\* A table in which one row is another.
LEMMA RowReplaced ==
    ASSUME TypeOK, NEW j \in DOMAIN jobs, NEW r \in Row, jobs' = [jobs EXCEPT ![j] = r]
    PROVE  /\ jobs' \in Seq(Row) /\ Len(jobs') = Len(jobs) /\ DOMAIN jobs' = DOMAIN jobs
           /\ jobs'[j] = r /\ \A k \in DOMAIN jobs : k # j => jobs'[k] = jobs[k]
  <1>1. jobs \in Seq(Row) /\ j \in 1 .. Len(jobs) /\ DOMAIN jobs = 1 .. Len(jobs)
    BY Tables DEF TypeOK
  <1>2. jobs' \in Seq(Row) /\ Len(jobs') = Len(jobs)
    BY <1>1, ExceptSeq
  <1>3. DOMAIN jobs' = DOMAIN jobs
    BY <1>1, <1>2
  <1> QED
    BY <1>1, <1>2, <1>3

\* _update_job() on the job of a busy thread.
LEMMA Written ==
    ASSUME TypeOK, NEW w \in Workers, Busy(w),
           NEW status \in {"running", "done", "failed"}, NEW verdict \in Verdicts \cup {None},
           NEW explained \in BOOLEAN, Write(w, status, verdict, explained)
    PROVE  /\ jobs' \in Seq(Row) /\ Len(jobs') = Len(jobs) /\ DOMAIN jobs' = DOMAIN jobs
           /\ jobs'[work[w].job].status = status /\ jobs'[work[w].job].verdict = verdict
           /\ \A k \in DOMAIN jobs : k # work[w].job => jobs'[k] = jobs[k]
  <1>1. PICK j : j = work[w].job /\ j \in DOMAIN jobs
    BY Threads
  <1>2. PICK r : r = [jobs[j] EXCEPT !.status = status, !.verdict = verdict, !.explained = explained]
    OBVIOUS
  <1>3. r \in Row /\ r.status = status /\ r.verdict = verdict
    <2>1. jobs[j] \in Row
      BY <1>1, Tables
    <2> QED
      BY <2>1, <1>2 DEF Row
  <1>4. jobs' = [jobs EXCEPT ![j] = r]
    BY <1>1, <1>2 DEF Write
  <1> QED
    BY <1>1, <1>3, <1>4, RowReplaced

\* _append_progress() on the job of a busy thread.
LEMMA Appended ==
    ASSUME TypeOK, NEW w \in Workers, Busy(w), NEW line \in {"stage", "failure"}, AppendProgress(w, line)
    PROVE  /\ jobs' \in Seq(Row) /\ Len(jobs') = Len(jobs) /\ DOMAIN jobs' = DOMAIN jobs
           /\ jobs'[work[w].job].status = jobs[work[w].job].status
           /\ jobs'[work[w].job].verdict = jobs[work[w].job].verdict
           /\ \A k \in DOMAIN jobs : k # work[w].job => jobs'[k] = jobs[k]
  <1>1. PICK j : j = work[w].job /\ j \in DOMAIN jobs
    BY Threads
  <1>2. PICK r : r = [jobs[j] EXCEPT !.log = line]
    OBVIOUS
  <1>3. r \in Row /\ r.status = jobs[j].status /\ r.verdict = jobs[j].verdict
    <2>1. jobs[j] \in Row
      BY <1>1, Tables
    <2> QED
      BY <2>1, <1>2 DEF Row
  <1>4. jobs' = [jobs EXCEPT ![j] = r]
    BY <1>1, <1>2 DEF AppendProgress
  <1> QED
    BY <1>1, <1>3, <1>4, RowReplaced

\* The file of one job is written.
LEMMA FileReplaced ==
    ASSUME TypeOK, NEW j \in DOMAIN jobs, NEW f \in Verdicts \cup {Absent, Partial},
           output' = [output EXCEPT ![j] = f]
    PROVE  /\ output' \in Seq(Verdicts \cup {Absent, Partial}) /\ Len(output') = Len(jobs)
           /\ output'[j] = f /\ \A k \in DOMAIN jobs : k # j => output'[k] = output[k]
  <1>1. output \in Seq(Verdicts \cup {Absent, Partial}) /\ j \in 1 .. Len(output) /\ Len(output) = Len(jobs)
    BY Tables DEF TypeOK
  <1>2. output' \in Seq(Verdicts \cup {Absent, Partial}) /\ Len(output') = Len(output)
    BY ONLY <1>1, ExceptSeq, f \in Verdicts \cup {Absent, Partial}, output' = [output EXCEPT ![j] = f]
  <1>3. DOMAIN output = DOMAIN jobs
    BY Tables
  <1> QED
    BY <1>1, <1>2, <1>3

-----------------------------------------------------------------------------
Thread == [job : DOMAIN jobs, step : Steps, verdict : Verdicts \cup {None}]

\* A busy thread goes on with its job, or lets go of it.
LEMMA MovedOn ==
    ASSUME TypeOK, NEW w \in Workers, Busy(w), NEW to \in Steps, work' = [work EXCEPT ![w].step = to]
    PROVE  /\ work' \in [Workers -> Thread \cup {Idle}]
           /\ work'[w].job = work[w].job /\ work'[w].step = to /\ work'[w].verdict = work[w].verdict
           /\ \A v \in Workers \ {w} : work'[v] = work[v]
  <1>1. work \in [Workers -> Thread \cup {Idle}]
    BY DEF TypeOK, Thread
  <1>2. work[w] \in Thread
    BY <1>1 DEF Busy
  <1>3. [work[w] EXCEPT !.step = to] \in Thread
    BY <1>2 DEF Thread
  <1>4. work' = [work EXCEPT ![w] = [work[w] EXCEPT !.step = to]]
    OBVIOUS
  <1>5. work'[w] = [work[w] EXCEPT !.step = to]
    BY <1>1, <1>4
  <1>6. /\ [work[w] EXCEPT !.step = to].job = work[w].job
        /\ [work[w] EXCEPT !.step = to].step = to
        /\ [work[w] EXCEPT !.step = to].verdict = work[w].verdict
    BY <1>2 DEF Thread
  <1>7. work' \in [Workers -> Thread \cup {Idle}]
    BY <1>1, <1>3, <1>4
  <1> QED
    BY <1>1, <1>4, <1>5, <1>6, <1>7

LEMMA LetGo ==
    ASSUME TypeOK, NEW w \in Workers, Leave(w)
    PROVE  /\ work' \in [Workers -> Thread \cup {Idle}]
           /\ work'[w] = Idle /\ \A v \in Workers \ {w} : work'[v] = work[v]
  BY DEF TypeOK, Thread, Leave

\* What every step of a busy thread does: it touches its own job only, which
\* was not settled.
ActsOn(w) ==
    /\ Busy(w)
    /\ UNCHANGED <<request, queue>>
    /\ Len(jobs') = Len(jobs) /\ DOMAIN jobs' = DOMAIN jobs
    /\ \A v \in Workers \ {w} : work'[v] = work[v]
    /\ \A k \in DOMAIN jobs : k # work[w].job => jobs'[k] = jobs[k] /\ output'[k] = output[k]
    /\ \/ work'[w] = Idle
       \/ work'[w].job = work[w].job /\ work'[w].step # "start" /\ Doing(w)'
    /\ jobs'[work[w].job].status = "done" =>
          /\ output'[work[w].job] \in Verdicts
          /\ jobs'[work[w].job].verdict = output'[work[w].job]

\* The types of what such a step may change are enough.
LEMMA TypeKept ==
    ASSUME TypeOK, UNCHANGED <<request, queue, up, crashes>>,
           jobs' \in Seq(Row), DOMAIN jobs' = DOMAIN jobs, Len(jobs') = Len(jobs),
           output' \in Seq(Verdicts \cup {Absent, Partial}), Len(output') = Len(jobs),
           work' \in [Workers -> Thread \cup {Idle}], escaped' \subseteq DOMAIN jobs,
           DbWorks \/ DbRaises
    PROVE  TypeOK'
  <1>1. dbErrors' \in 0 .. MaxDbErrors
    BY BoundsAreNumbers DEF TypeOK, DbWorks, DbRaises
  <1>2. /\ request' \in [Uploads -> [step : {"idle", "refused", "saved", "created", "answered", "failed"},
                                    job : DOMAIN jobs' \cup {None}]]
        /\ queue' \in Seq(DOMAIN jobs')
        /\ work' \in [Workers -> [job : DOMAIN jobs', step : Steps, verdict : Verdicts \cup {None}]
                                  \cup {Idle}]
        /\ escaped' \subseteq DOMAIN jobs'
    BY DEF TypeOK, Thread
  <1> QED
    BY <1>1, <1>2 DEF TypeOK

\* Each step of a busy thread, one by one.
LEMMA StartActs ==
    ASSUME Inv, NEW w \in Workers, Start(w)
    PROVE  TypeOK' /\ ActsOn(w)
  <1>1. TypeOK /\ Busy(w) /\ work' = [work EXCEPT ![w].step = "lookup"] /\ Write(w, "running", None, FALSE)
    <2>1. TypeOK /\ Busy(w) /\ work' = [work EXCEPT ![w].step = "lookup"]
      BY DEF Inv, Start, Step, Busy, Idle
    <2>2. Write(w, "running", None, FALSE)
      BY DEF Start
    <2> QED
      BY <2>1, <2>2
  <1>2. /\ jobs' \in Seq(Row) /\ Len(jobs') = Len(jobs) /\ DOMAIN jobs' = DOMAIN jobs
        /\ jobs'[work[w].job].status = "running"
        /\ \A k \in DOMAIN jobs : k # work[w].job => jobs'[k] = jobs[k]
    BY <1>1, Written
  <1>3. /\ work' \in [Workers -> Thread \cup {Idle}]
        /\ work'[w].job = work[w].job /\ work'[w].step = "lookup"
        /\ \A v \in Workers \ {w} : work'[v] = work[v]
    BY <1>1, MovedOn DEF Steps
  <1>4. /\ UNCHANGED <<request, queue, up, crashes, output, escaped>> /\ DbWorks
        /\ output \in Seq(Verdicts \cup {Absent, Partial}) /\ Len(output) = Len(jobs)
        /\ escaped \subseteq DOMAIN jobs
    BY <1>1 DEF Start, TypeOK
  <1>5. TypeOK'
    BY <1>1, <1>2, <1>3, <1>4, TypeKept
  <1>6. Doing(w)'
    BY <1>2, <1>3 DEF Doing
  <1> QED
    BY <1>1, <1>2, <1>3, <1>4, <1>5, <1>6 DEF ActsOn

LEMMA LookupActs ==
    ASSUME Inv, NEW w \in Workers, Lookup(w)
    PROVE  TypeOK' /\ ActsOn(w)
  <1>1. TypeOK /\ Busy(w) /\ work[w].step = "lookup" /\ work' = [work EXCEPT ![w].step = "redact"]
    BY DEF Inv, Lookup, Step, Busy, Idle
  <1>2. /\ work' \in [Workers -> Thread \cup {Idle}]
        /\ work'[w].job = work[w].job /\ work'[w].step = "redact"
        /\ \A v \in Workers \ {w} : work'[v] = work[v]
    BY <1>1, MovedOn DEF Steps
  <1>3. /\ UNCHANGED <<request, queue, up, crashes, jobs, output, escaped>> /\ DbWorks
        /\ jobs \in Seq(Row)
        /\ output \in Seq(Verdicts \cup {Absent, Partial}) /\ Len(output) = Len(jobs)
        /\ escaped \subseteq DOMAIN jobs
    BY <1>1 DEF Lookup, TypeOK
  <1>4. TypeOK'
    BY <1>1, <1>2, <1>3, TypeKept
  <1>5. jobs[work[w].job].status = "running"
    BY <1>1 DEF Inv, WorkInv, Doing
  <1>6. Doing(w)'
    BY <1>2, <1>3, <1>5 DEF Doing
  <1> QED
    BY <1>1, <1>2, <1>3, <1>4, <1>5, <1>6 DEF ActsOn

LEMMA ProgressActs ==
    ASSUME Inv, NEW w \in Workers, Progress(w)
    PROVE  TypeOK' /\ ActsOn(w)
  <1>1. TypeOK /\ Busy(w) /\ work[w].step = "redact" /\ AppendProgress(w, "stage")
    BY DEF Inv, Progress, Busy, Idle
  <1>2. /\ jobs' \in Seq(Row) /\ Len(jobs') = Len(jobs) /\ DOMAIN jobs' = DOMAIN jobs
        /\ jobs'[work[w].job].status = jobs[work[w].job].status
        /\ \A k \in DOMAIN jobs : k # work[w].job => jobs'[k] = jobs[k]
    BY <1>1, Appended
  <1>3. /\ UNCHANGED <<request, queue, up, crashes, output, escaped, work>> /\ DbWorks
        /\ output \in Seq(Verdicts \cup {Absent, Partial}) /\ Len(output) = Len(jobs)
        /\ escaped \subseteq DOMAIN jobs /\ work \in [Workers -> Thread \cup {Idle}]
    BY <1>1 DEF Progress, TypeOK, Thread
  <1>4. TypeOK'
    BY <1>1, <1>2, <1>3, TypeKept
  <1>5. jobs[work[w].job].status = "running"
    BY <1>1 DEF Inv, WorkInv, Doing
  <1>6. Doing(w)'
    BY <1>1, <1>2, <1>3, <1>5 DEF Doing
  <1> QED
    BY <1>1, <1>2, <1>3, <1>4, <1>5, <1>6 DEF ActsOn

LEMMA RunReturnsActs ==
    ASSUME Inv, NEW w \in Workers, RunReturns(w)
    PROVE  TypeOK' /\ ActsOn(w)
  <1>1. TypeOK /\ Busy(w) /\ work[w].step = "redact" /\ work[w].job \in DOMAIN jobs
    BY Threads DEF Inv, RunReturns, UnderWay, Busy, Idle
  <1>2. PICK v \in Verdicts : /\ output' = [output EXCEPT ![work[w].job] = v]
                              /\ work' = [work EXCEPT ![w].step = "finish", ![w].verdict = v]
    BY DEF RunReturns
  <1>3. /\ output' \in Seq(Verdicts \cup {Absent, Partial}) /\ Len(output') = Len(jobs)
        /\ output'[work[w].job] = v
        /\ \A k \in DOMAIN jobs : k # work[w].job => output'[k] = output[k]
    BY <1>1, <1>2, FileReplaced
  <1>4. /\ work' \in [Workers -> Thread \cup {Idle}]
        /\ work'[w].job = work[w].job /\ work'[w].step = "finish" /\ work'[w].verdict = v
        /\ \A u \in Workers \ {w} : work'[u] = work[u]
    <2>1. work \in [Workers -> Thread \cup {Idle}] /\ work[w] \in Thread
      BY <1>1 DEF TypeOK, Thread, Busy
    <2>2. PICK new : new = [work[w] EXCEPT !.step = "finish", !.verdict = v]
      OBVIOUS
    <2>3. /\ new \in Thread /\ new.job = work[w].job /\ new.step = "finish" /\ new.verdict = v
      BY <2>1, <2>2 DEF Thread, Steps
    <2>4. work' = [work EXCEPT ![w] = new]
      BY <1>2, <2>1, <2>2
    <2> QED
      BY <2>1, <2>3, <2>4
  <1>5. /\ UNCHANGED <<request, queue, up, crashes, jobs, escaped>> /\ DbWorks
        /\ jobs \in Seq(Row) /\ escaped \subseteq DOMAIN jobs
    BY <1>1 DEF RunReturns, TypeOK, DbWorks
  <1>6. TypeOK'
    BY <1>1, <1>3, <1>4, <1>5, TypeKept
  <1>7. jobs[work[w].job].status = "running"
    BY <1>1 DEF Inv, WorkInv, Doing
  <1>8. Doing(w)'
    BY <1>3, <1>4, <1>5, <1>7 DEF Doing
  <1> QED
    BY <1>1, <1>3, <1>4, <1>5, <1>6, <1>7, <1>8 DEF ActsOn

LEMMA RunRaisesActs ==
    ASSUME Inv, NEW w \in Workers, RunRaises(w)
    PROVE  TypeOK' /\ ActsOn(w)
  <1>1. /\ TypeOK /\ Busy(w) /\ work[w].step = "redact" /\ work[w].job \in DOMAIN jobs
        /\ work' = [work EXCEPT ![w].step = "explain"]
    BY Threads DEF Inv, RunRaises, Step, Busy, Idle
  <1>2. PICK left \in {output[work[w].job], Partial} \cup Verdicts : output' = [output EXCEPT ![work[w].job] = left]
    BY DEF RunRaises
  <1>3. left \in Verdicts \cup {Absent, Partial}
    BY <1>1, <1>2, Tables
  <1>4. /\ output' \in Seq(Verdicts \cup {Absent, Partial}) /\ Len(output') = Len(jobs)
        /\ \A k \in DOMAIN jobs : k # work[w].job => output'[k] = output[k]
    BY <1>1, <1>2, <1>3, FileReplaced
  <1>5. /\ work' \in [Workers -> Thread \cup {Idle}]
        /\ work'[w].job = work[w].job /\ work'[w].step = "explain"
        /\ \A v \in Workers \ {w} : work'[v] = work[v]
    BY <1>1, MovedOn DEF Steps
  <1>6. /\ UNCHANGED <<request, queue, up, crashes, jobs, escaped>> /\ DbWorks
        /\ jobs \in Seq(Row) /\ escaped \subseteq DOMAIN jobs
    BY <1>1 DEF RunRaises, TypeOK, DbWorks
  <1>7. TypeOK'
    BY <1>1, <1>4, <1>5, <1>6, TypeKept
  <1>8. jobs[work[w].job].status = "running"
    BY <1>1 DEF Inv, WorkInv, Doing
  <1>9. Doing(w)'
    BY <1>5, <1>6, <1>8 DEF Doing
  <1> QED
    BY <1>1, <1>4, <1>5, <1>6, <1>7, <1>8, <1>9 DEF ActsOn

LEMMA FinishActs ==
    ASSUME Inv, NEW w \in Workers, Finish(w)
    PROVE  TypeOK' /\ ActsOn(w)
  <1>1. /\ TypeOK /\ Busy(w) /\ work[w].step = "finish" /\ Leave(w)
        /\ Write(w, "done", work[w].verdict, FALSE)
    <2>1. TypeOK /\ Busy(w) /\ work[w].step = "finish" /\ Leave(w)
      BY DEF Inv, Finish, Busy, Idle
    <2>2. Write(w, "done", work[w].verdict, FALSE)
      BY DEF Finish
    <2> QED
      BY <2>1, <2>2
  <1>2. work[w].verdict \in Verdicts /\ output[work[w].job] = work[w].verdict
    BY <1>1 DEF Inv, WorkInv, Doing
  <1>3. /\ jobs' \in Seq(Row) /\ Len(jobs') = Len(jobs) /\ DOMAIN jobs' = DOMAIN jobs
        /\ jobs'[work[w].job].verdict = work[w].verdict
        /\ \A k \in DOMAIN jobs : k # work[w].job => jobs'[k] = jobs[k]
    BY <1>1, <1>2, Written
  <1>4. /\ work' \in [Workers -> Thread \cup {Idle}]
        /\ work'[w] = Idle /\ \A v \in Workers \ {w} : work'[v] = work[v]
    BY <1>1, LetGo
  <1>5. /\ UNCHANGED <<request, queue, up, crashes, output, escaped>> /\ DbWorks
        /\ output \in Seq(Verdicts \cup {Absent, Partial}) /\ Len(output) = Len(jobs)
        /\ escaped \subseteq DOMAIN jobs
    BY <1>1 DEF Finish, TypeOK
  <1>6. TypeOK'
    BY <1>1, <1>3, <1>4, <1>5, TypeKept
  <1> QED
    BY <1>1, <1>2, <1>3, <1>4, <1>5, <1>6 DEF ActsOn

LEMMA FinishRaisesActs ==
    ASSUME Inv, NEW w \in Workers, FinishRaises(w)
    PROVE  TypeOK' /\ ActsOn(w)
  <1>1. TypeOK /\ Busy(w) /\ work[w].step = "finish" /\ work' = [work EXCEPT ![w].step = "explain"]
    BY DEF Inv, FinishRaises, Step, Busy, Idle
  <1>2. /\ work' \in [Workers -> Thread \cup {Idle}]
        /\ work'[w].job = work[w].job /\ work'[w].step = "explain"
        /\ \A v \in Workers \ {w} : work'[v] = work[v]
    BY <1>1, MovedOn DEF Steps
  <1>3. /\ UNCHANGED <<request, queue, up, crashes, jobs, output, escaped>> /\ DbRaises
        /\ jobs \in Seq(Row)
        /\ output \in Seq(Verdicts \cup {Absent, Partial}) /\ Len(output) = Len(jobs)
        /\ escaped \subseteq DOMAIN jobs
    BY <1>1 DEF FinishRaises, TypeOK
  <1>4. TypeOK'
    BY <1>1, <1>2, <1>3, TypeKept
  <1>5. jobs[work[w].job].status = "running"
    BY <1>1 DEF Inv, WorkInv, Doing
  <1>6. Doing(w)'
    BY <1>2, <1>3, <1>5 DEF Doing
  <1> QED
    BY <1>1, <1>2, <1>3, <1>4, <1>5, <1>6 DEF ActsOn

LEMMA ExplainActs ==
    ASSUME Inv, NEW w \in Workers, Explain(w)
    PROVE  TypeOK' /\ ActsOn(w)
  <1>1. /\ TypeOK /\ Busy(w) /\ work[w].step = "explain" /\ AppendProgress(w, "failure")
        /\ work' = [work EXCEPT ![w].step = "record"]
    BY DEF Inv, Explain, Step, Busy, Idle
  <1>2. /\ jobs' \in Seq(Row) /\ Len(jobs') = Len(jobs) /\ DOMAIN jobs' = DOMAIN jobs
        /\ jobs'[work[w].job].status = jobs[work[w].job].status
        /\ \A k \in DOMAIN jobs : k # work[w].job => jobs'[k] = jobs[k]
    BY <1>1, Appended
  <1>3. /\ work' \in [Workers -> Thread \cup {Idle}]
        /\ work'[w].job = work[w].job /\ work'[w].step = "record"
        /\ \A v \in Workers \ {w} : work'[v] = work[v]
    BY <1>1, MovedOn DEF Steps
  <1>4. /\ UNCHANGED <<request, queue, up, crashes, output, escaped>> /\ DbWorks
        /\ output \in Seq(Verdicts \cup {Absent, Partial}) /\ Len(output) = Len(jobs)
        /\ escaped \subseteq DOMAIN jobs
    BY <1>1 DEF Explain, TypeOK
  <1>5. TypeOK'
    BY <1>1, <1>2, <1>3, <1>4, TypeKept
  <1>6. jobs[work[w].job].status = "running"
    BY <1>1 DEF Inv, WorkInv, Doing
  <1>7. Doing(w)'
    BY <1>2, <1>3, <1>6 DEF Doing
  <1> QED
    BY <1>1, <1>2, <1>3, <1>4, <1>5, <1>6, <1>7 DEF ActsOn

LEMMA RecordActs ==
    ASSUME Inv, NEW w \in Workers, Record(w)
    PROVE  TypeOK' /\ ActsOn(w)
  <1>1. TypeOK /\ Busy(w) /\ Leave(w) /\ Write(w, "failed", None, TRUE)
    <2>1. TypeOK /\ Busy(w) /\ Leave(w)
      BY DEF Inv, Record, Busy, Idle
    <2>2. Write(w, "failed", None, TRUE)
      BY DEF Record
    <2> QED
      BY <2>1, <2>2
  <1>2. /\ jobs' \in Seq(Row) /\ Len(jobs') = Len(jobs) /\ DOMAIN jobs' = DOMAIN jobs
        /\ jobs'[work[w].job].status = "failed"
        /\ \A k \in DOMAIN jobs : k # work[w].job => jobs'[k] = jobs[k]
    BY <1>1, Written
  <1>3. /\ work' \in [Workers -> Thread \cup {Idle}]
        /\ work'[w] = Idle /\ \A v \in Workers \ {w} : work'[v] = work[v]
    BY <1>1, LetGo
  <1>4. /\ UNCHANGED <<request, queue, up, crashes, output, escaped>> /\ DbWorks
        /\ output \in Seq(Verdicts \cup {Absent, Partial}) /\ Len(output) = Len(jobs)
        /\ escaped \subseteq DOMAIN jobs
    BY <1>1 DEF Record, TypeOK
  <1>5. TypeOK'
    BY <1>1, <1>2, <1>3, <1>4, TypeKept
  <1> QED
    BY <1>1, <1>2, <1>3, <1>4, <1>5 DEF ActsOn

LEMMA EscapeActs ==
    ASSUME Inv, NEW w \in Workers, Escape(w)
    PROVE  TypeOK' /\ ActsOn(w)
  <1>1. /\ TypeOK /\ Busy(w) /\ Leave(w) /\ work[w].step # "finish" /\ work[w].job \in DOMAIN jobs
    BY Threads DEF Inv, Escape, Busy, Idle
  <1>2. /\ work' \in [Workers -> Thread \cup {Idle}]
        /\ work'[w] = Idle /\ \A v \in Workers \ {w} : work'[v] = work[v]
    BY <1>1, LetGo
  <1>3. /\ UNCHANGED <<request, queue, up, crashes, jobs, output>> /\ DbRaises
        /\ jobs \in Seq(Row)
        /\ output \in Seq(Verdicts \cup {Absent, Partial}) /\ Len(output) = Len(jobs)
        /\ escaped' \subseteq DOMAIN jobs
    BY <1>1 DEF Escape, TypeOK
  <1>4. TypeOK'
    BY <1>1, <1>2, <1>3, TypeKept
  <1>5. jobs[work[w].job].status \in {"queued", "running"}
    BY <1>1 DEF Inv, WorkInv, Doing
  <1> QED
    BY <1>1, <1>2, <1>3, <1>4, <1>5 DEF ActsOn

LEMMA BusySteps ==
    ASSUME Inv, NEW w \in Workers, Work(w)
    PROVE  Take(w) \/ (TypeOK' /\ ActsOn(w))
  BY StartActs, LookupActs, ProgressActs, RunReturnsActs, RunRaisesActs, FinishActs,
     FinishRaisesActs, ExplainActs, RecordActs, EscapeActs DEF Work

-----------------------------------------------------------------------------
\* A busy thread keeps the invariant.
LEMMA ActsKeepInv ==
    ASSUME Inv, NEW w \in Workers, TypeOK', ActsOn(w)
    PROVE  Inv'
  <1> DEFINE j == work[w].job
  <1>1. /\ Busy(w) /\ j \in DOMAIN jobs /\ DOMAIN jobs' = DOMAIN jobs
        /\ DOMAIN queue' = DOMAIN queue /\ Len(jobs') = Len(jobs)
    BY Threads DEF Inv, ActsOn
  <1>2. \A v \in Workers : v # w => work[v].job # j /\ work'[v] = work[v]
    BY <1>1 DEF Inv, WorkInv, ActsOn
  <1>3. work'[w].job \in {None, j}
    BY DEF ActsOn, Idle
  <1>4. \A k \in DOMAIN jobs : k # j => jobs'[k] = jobs[k] /\ output'[k] = output[k]
    BY DEF ActsOn
  <1>5. None \notin DOMAIN jobs
    BY Tables, NoneIsNoJob DEF Inv
  <1>6. \A i \in DOMAIN queue : ~(queue[i] <= j)
    BY <1>1 DEF Inv, QueueInv
  <1>7. \A k \in DOMAIN jobs : (\A v \in Workers : work[v].job # k) => k # j /\ \A v \in Workers : work'[v].job # k
    BY <1>2, <1>3, <1>5
  <1>8. QueueInv'
    BY <1>1, <1>4, <1>6, <1>7 DEF Inv, QueueInv, ActsOn
  <1>9. RequestInv'
    <2> SUFFICES ASSUME NEW u \in Uploads, request'[u].step = "created"
                 PROVE  Submitting(u)'
      BY DEF RequestInv
    <2>1. Submitting(u) /\ UNCHANGED <<request, queue>>
      BY DEF Inv, RequestInv, ActsOn
    <2>2. Len(jobs) \in DOMAIN jobs
      BY <2>1, Tables DEF Submitting, Inv
    <2>3. Len(jobs) # j /\ \A v \in Workers : work'[v].job # Len(jobs)
      BY <1>7, <2>1, <2>2 DEF Submitting
    <2>4. jobs'[Len(jobs)].status = "queued"
      BY <1>4, <2>1, <2>2, <2>3 DEF Submitting
    <2> QED
      BY <1>1, <2>1, <2>3, <2>4 DEF Submitting
  <1>10. WorkInv'
    <2> SUFFICES ASSUME NEW v \in Workers, Busy(v)'
                 PROVE  Doing(v)' /\ \A x \in Workers : work'[x].job = work'[v].job => x = v
      BY DEF WorkInv
    <2>1. CASE v = w
      <3>1. work'[w].job = j /\ Doing(w)'
        BY <2>1 DEF ActsOn, Busy
      <3> QED
        BY <1>2, <2>1, <3>1
    <2>2. CASE v # w
      <3>1. work'[v] = work[v] /\ Busy(v) /\ work[v].job # j
        BY <1>2, <2>2 DEF Busy, Idle
      <3>2. work[v].job \in DOMAIN jobs
        BY <3>1, Threads DEF Inv
      <3>3. jobs'[work[v].job] = jobs[work[v].job] /\ output'[work[v].job] = output[work[v].job]
        BY <1>4, <3>1, <3>2
      <3>4. Doing(v) /\ \A x \in Workers : work[x].job = work[v].job => x = v
        BY <3>1 DEF Inv, WorkInv
      <3>5. Doing(v)'
        BY <3>1, <3>3, <3>4 DEF Doing
      <3>6. \A x \in Workers : work'[x].job = work'[v].job => x = v
        BY <1>2, <1>3, <1>5, <3>1, <3>2, <3>4
      <3> QED
        BY <3>5, <3>6
    <2> QED
      BY <2>1, <2>2
  <1>11. DoneIsDelivered'
    <2> SUFFICES ASSUME NEW k \in DOMAIN jobs, jobs'[k].status = "done"
                 PROVE  output'[k] \in Verdicts /\ jobs'[k].verdict = output'[k]
      BY <1>1 DEF DoneIsDelivered
    <2>1. CASE k = j
      BY <2>1 DEF ActsOn
    <2>2. CASE k # j
      BY <1>4, <2>2 DEF Inv, DoneIsDelivered
    <2> QED
      BY <2>1, <2>2
  <1> QED
    BY <1>8, <1>9, <1>10, <1>11 DEF Inv

\* A thread that takes a job: it is the first of those waiting.
LEMMA Taken ==
    ASSUME Inv, NEW w \in Workers, Take(w)
    PROVE  /\ queue # <<>> /\ 1 \in DOMAIN queue /\ Head(queue) = queue[1] /\ queue[1] \in DOMAIN jobs
           /\ queue' \in Seq(DOMAIN jobs) /\ UNCHANGED <<request, jobs, output, up, escaped, crashes, dbErrors>>
           /\ \A i \in DOMAIN queue' : i + 1 \in DOMAIN queue /\ queue'[i] = queue[i + 1] /\ i \in Nat
           /\ \A i \in DOMAIN queue' : queue'[i] \in DOMAIN jobs /\ queue[1] < queue'[i]
           /\ work'[w] = [job |-> queue[1], step |-> "start", verdict |-> None]
           /\ \A v \in Workers \ {w} : work'[v] = work[v]
           /\ ~Busy(w) /\ DOMAIN work = Workers
  <1>1. queue # <<>> /\ queue' = Tail(queue) /\ queue \in Seq(DOMAIN jobs)
    BY DEF Take, Inv, TypeOK
  <1>2. /\ Tail(queue) \in Seq(DOMAIN jobs) /\ Len(Tail(queue)) = Len(queue) - 1
        /\ \A i \in 1 .. Len(Tail(queue)) : Tail(queue)[i] = queue[i + 1]
    BY ONLY <1>1, HeadTailProperties
  <1>3. Len(queue) \in Nat \ {0} /\ DOMAIN queue = 1 .. Len(queue)
    BY ONLY <1>1, EmptySeq, LenProperties
  <1>4. 1 \in DOMAIN queue /\ queue[1] \in DOMAIN jobs /\ Head(queue) = queue[1]
    BY <1>3, Tables DEF Inv
  <1>5. DOMAIN queue' = 1 .. Len(queue) - 1
    BY <1>1, <1>2, LenProperties
  <1>6. \A i \in DOMAIN queue' : i + 1 \in DOMAIN queue /\ queue'[i] = queue[i + 1] /\ i \in Nat /\ 1 < i + 1
    BY <1>1, <1>2, <1>3, <1>5
  <1>7. \A i \in DOMAIN queue' : queue'[i] \in DOMAIN jobs /\ queue[1] < queue'[i]
    BY <1>4, <1>6, Tables DEF Inv, QueueInv
  <1>8. /\ work \in [Workers -> Thread \cup {Idle}] /\ work[w].step = "idle"
        /\ work' = [work EXCEPT ![w] = [job |-> queue[1], step |-> "start", verdict |-> None]]
    BY <1>4 DEF Take, Inv, TypeOK, Thread
  <1>9. ~Busy(w)
    BY <1>8, Threads DEF Inv
  <1> QED
    BY <1>1, <1>2, <1>4, <1>6, <1>7, <1>8, <1>9 DEF Take

LEMMA TakeKeepsInv ==
    ASSUME Inv, NEW w \in Workers, Take(w)
    PROVE  Inv'
  <1> DEFINE h == queue[1]
  <1>1. /\ 1 \in DOMAIN queue /\ h \in DOMAIN jobs
        /\ UNCHANGED <<request, jobs, output, up, escaped, crashes, dbErrors>>
        /\ \A i \in DOMAIN queue' : i + 1 \in DOMAIN queue /\ queue'[i] = queue[i + 1] /\ i \in Nat
        /\ \A i \in DOMAIN queue' : queue'[i] \in DOMAIN jobs /\ h < queue'[i]
        /\ work'[w] = [job |-> h, step |-> "start", verdict |-> None]
        /\ \A v \in Workers \ {w} : work'[v] = work[v]
    BY Taken
  <1> HIDE DEF h
  <1>2. h \in Nat /\ DOMAIN jobs \subseteq Nat
    BY <1>1, Tables DEF Inv
  <1>3. jobs[h].status = "queued" /\ \A v \in Workers : work[v].job # h
    BY <1>1, <1>2 DEF Inv, QueueInv, h
  <1>4. TypeOK'
    <2>1. work' \in [Workers -> Thread \cup {Idle}]
      <3>1. [job |-> h, step |-> "start", verdict |-> None] \in Thread
        BY <1>1 DEF Thread, Steps
      <3>2. /\ work \in [Workers -> Thread \cup {Idle}]
            /\ work' = [work EXCEPT ![w] = [job |-> h, step |-> "start", verdict |-> None]]
        BY Taken DEF Take, Inv, TypeOK, Thread, h
      <3> QED
        BY <3>1, <3>2
    <2>2. queue' \in Seq(DOMAIN jobs)
      BY Taken
    <2> QED
      BY <1>1, <2>1, <2>2 DEF Inv, TypeOK, Thread
  <1>5. QueueInv'
    <2>1. \A i, k \in DOMAIN queue' : i < k => queue'[i] < queue'[k]
      BY <1>1 DEF Inv, QueueInv
    <2>2. ASSUME NEW i \in DOMAIN queue', NEW k \in DOMAIN jobs, queue'[i] <= k
          PROVE  jobs[k].status = "queued" /\ \A v \in Workers : work'[v].job # k
      <3>1. jobs[k].status = "queued" /\ \A v \in Workers : work[v].job # k
        BY <1>1, <2>2 DEF Inv, QueueInv
      <3>2. h # k
        BY <1>1, <1>2, <2>2
      <3> QED
        BY <1>1, <3>1, <3>2
    <2> QED
      BY <1>1, <2>1, <2>2 DEF QueueInv
  <1>6. RequestInv'
    <2> SUFFICES ASSUME NEW u \in Uploads, request'[u].step = "created"
                 PROVE  Submitting(u)'
      BY DEF RequestInv
    <2>1. Submitting(u) /\ request' = request /\ jobs' = jobs
      BY <1>1 DEF Inv, RequestInv
    <2>2. h # Len(jobs) /\ \A i \in DOMAIN queue' : queue'[i] # Len(jobs)
      BY <1>1, <2>1 DEF Submitting, h
    <2>3. \A v \in Workers : work'[v].job # Len(jobs)
      BY <1>1, <2>1, <2>2 DEF Submitting
    <2> QED
      BY <2>1, <2>2, <2>3 DEF Submitting
  <1>7. WorkInv'
    <2> SUFFICES ASSUME NEW v \in Workers, Busy(v)'
                 PROVE  Doing(v)' /\ \A x \in Workers : work'[x].job = work'[v].job => x = v
      BY DEF WorkInv
    <2>1. CASE v = w
      BY <1>1, <1>3, <2>1 DEF Doing
    <2>2. CASE v # w
      <3>1. work'[v] = work[v] /\ Busy(v)
        BY <1>1, <2>2 DEF Busy, Idle
      <3>2. Doing(v) /\ \A x \in Workers : work[x].job = work[v].job => x = v
        BY <3>1 DEF Inv, WorkInv
      <3>3. Doing(v)'
        BY <1>1, <3>1, <3>2 DEF Doing
      <3>4. \A x \in Workers : work'[x].job = work'[v].job => x = v
        BY <1>1, <1>3, <3>1, <3>2
      <3> QED
        BY <3>3, <3>4
    <2> QED
      BY <2>1, <2>2
  <1>8. DoneIsDelivered'
    BY <1>1 DEF Inv, DoneIsDelivered
  <1> QED
    BY <1>4, <1>5, <1>6, <1>7, <1>8 DEF Inv

-----------------------------------------------------------------------------
RequestSteps == {"idle", "refused", "saved", "created", "answered", "failed"}

\* A request, field by field, and what becomes of it when it goes on.
LEMMA Asked ==
    ASSUME TypeOK, NEW u \in Uploads, NEW from, NEW to \in RequestSteps, Ask(u, from, to)
    PROVE  /\ request' \in [Uploads -> [step : RequestSteps, job : DOMAIN jobs \cup {None}]]
           /\ request[u].step = from /\ request'[u].step = to /\ request'[u].job = request[u].job
           /\ \A v \in Uploads \ {u} : request'[v] = request[v]
  <1>1. /\ request \in [Uploads -> [step : RequestSteps, job : DOMAIN jobs \cup {None}]]
        /\ request' = [request EXCEPT ![u].step = to] /\ request[u].step = from
    BY DEF TypeOK, RequestSteps, Ask
  <1> QED
    BY <1>1

\* The steps of a handler that touch no job.
LEMMA AskKeepsInv ==
    ASSUME Inv, NEW u \in Uploads,
           NEW from \in RequestSteps \ {"created"}, NEW to \in RequestSteps \ {"created"},
           Ask(u, from, to), DbWorks \/ DbRaises,
           UNCHANGED <<jobs, output, queue, work, up, escaped, crashes>>
    PROVE  Inv'
  <1>1. /\ request' \in [Uploads -> [step : RequestSteps, job : DOMAIN jobs \cup {None}]]
        /\ request[u].step = from /\ request'[u].step = to
        /\ \A v \in Uploads \ {u} : request'[v] = request[v]
    BY Asked DEF Inv
  <1>2. dbErrors' \in 0 .. MaxDbErrors
    BY BoundsAreNumbers DEF Inv, TypeOK, DbWorks, DbRaises
  <1>3. TypeOK'
    BY <1>1, <1>2 DEF Inv, TypeOK, RequestSteps
  <1>4. RequestInv'
    BY <1>1 DEF Inv, RequestInv, Submitting
  <1>5. QueueInv' /\ WorkInv' /\ DoneIsDelivered'
    BY DEF Inv, QueueInv, WorkInv, Busy, Doing, DoneIsDelivered
  <1> QED
    BY <1>3, <1>4, <1>5 DEF Inv

\* A new job at the end of the table.
LEMMA Created ==
    ASSUME TypeOK, NEW u \in Uploads, Create(u)
    PROVE  /\ jobs' \in Seq(Row) /\ Len(jobs') = Len(jobs) + 1 /\ jobs'[Len(jobs) + 1] = NewRow
           /\ DOMAIN jobs' = 1 .. Len(jobs) + 1 /\ DOMAIN jobs' = DOMAIN jobs \cup {Len(jobs) + 1}
           /\ output' \in Seq(Verdicts \cup {Absent, Partial}) /\ Len(output') = Len(jobs')
           /\ output'[Len(jobs) + 1] = Absent
           /\ \A k \in DOMAIN jobs : jobs'[k] = jobs[k] /\ output'[k] = output[k]
           /\ request' = [request EXCEPT ![u] = [step |-> "created", job |-> Len(jobs) + 1]]
           /\ UNCHANGED <<queue, work, up, escaped, crashes, dbErrors>>
           /\ \A v \in Uploads : request[v].step # "created"
  <1>1. /\ jobs \in Seq(Row) /\ output \in Seq(Verdicts \cup {Absent, Partial}) /\ Len(output) = Len(jobs)
        /\ jobs' = Append(jobs, NewRow) /\ output' = Append(output, Absent)
    BY DEF TypeOK, Create
  <1>2. NewRow \in Row /\ Absent \in Verdicts \cup {Absent, Partial}
    BY DEF NewRow, Row
  <1>3. /\ jobs' \in Seq(Row) /\ Len(jobs') = Len(jobs) + 1 /\ jobs'[Len(jobs) + 1] = NewRow
        /\ \A k \in 1 .. Len(jobs) : jobs'[k] = jobs[k]
    BY ONLY <1>1, <1>2, AppendProperties
  <1>4. /\ output' \in Seq(Verdicts \cup {Absent, Partial}) /\ Len(output') = Len(output) + 1
        /\ output'[Len(output) + 1] = Absent /\ \A k \in 1 .. Len(output) : output'[k] = output[k]
    BY ONLY <1>1, <1>2, AppendProperties
  <1>5. DOMAIN jobs = 1 .. Len(jobs) /\ Len(jobs) \in Nat
    BY Tables
  <1>6. DOMAIN jobs' = 1 .. Len(jobs) + 1
    BY <1>3, LenProperties
  <1>7. DOMAIN jobs' = DOMAIN jobs \cup {Len(jobs) + 1}
    BY <1>5, <1>6
  <1>8. /\ request' = [request EXCEPT ![u] = [step |-> "created", job |-> Len(jobs) + 1]]
        /\ UNCHANGED <<queue, work, up, escaped, crashes, dbErrors>>
        /\ \A v \in Uploads : request[v].step # "created"
    BY DEF Create, DbWorks, EventLoopFree
  <1> QED
    BY <1>1, <1>3, <1>4, <1>5, <1>6, <1>7, <1>8

LEMMA CreateKeepsInv ==
    ASSUME Inv, NEW u \in Uploads, Create(u)
    PROVE  Inv'
  <1>1. PICK n : n = Len(jobs) + 1
    OBVIOUS
  <1>2. /\ jobs' \in Seq(Row) /\ Len(jobs') = n /\ jobs'[n] = NewRow
        /\ DOMAIN jobs' = DOMAIN jobs \cup {n}
        /\ output' \in Seq(Verdicts \cup {Absent, Partial}) /\ Len(output') = n
        /\ \A k \in DOMAIN jobs : jobs'[k] = jobs[k] /\ output'[k] = output[k]
        /\ request' = [request EXCEPT ![u] = [step |-> "created", job |-> n]]
        /\ UNCHANGED <<queue, work, up, escaped, crashes, dbErrors>>
        /\ \A v \in Uploads : request[v].step # "created"
    BY <1>1, Created DEF Inv
  <1>3. n \in Nat \ {0} /\ n \notin DOMAIN jobs /\ \A k \in DOMAIN jobs : k < n /\ k \in Nat
    BY <1>1, Tables DEF Inv
  <1>4. \A w \in Workers : work[w].job # n
    BY <1>3, Threads, NoneIsNoJob DEF Inv
  <1>5. \A i \in DOMAIN queue : queue[i] # n
    BY <1>3, Tables DEF Inv
  <1>6. /\ request' \in [Uploads -> [step : RequestSteps, job : DOMAIN jobs' \cup {None}]]
        /\ request'[u].step = "created" /\ request'[u].job = n
        /\ \A v \in Uploads \ {u} : request'[v] = request[v]
    <2>1. [step |-> "created", job |-> n] \in [step : RequestSteps, job : DOMAIN jobs' \cup {None}]
      BY <1>2 DEF RequestSteps
    <2>2. request \in [Uploads -> [step : RequestSteps, job : DOMAIN jobs \cup {None}]]
      BY DEF Inv, TypeOK, RequestSteps
    <2>3. request \in [Uploads -> [step : RequestSteps, job : DOMAIN jobs' \cup {None}]]
      BY <1>2, <2>2
    <2> QED
      BY <1>2, <2>1, <2>3
  <1>7. TypeOK'
    <2>1. queue \in Seq(DOMAIN jobs')
      <3>1. queue \in Seq(DOMAIN jobs) /\ DOMAIN jobs \subseteq DOMAIN jobs'
        BY <1>2 DEF Inv, TypeOK
      <3> QED
        BY ONLY <3>1, SeqMonotonic
    <2>2. /\ work \in [Workers -> [job : DOMAIN jobs', step : Steps, verdict : Verdicts \cup {None}]
                                   \cup {Idle}]
          /\ escaped \subseteq DOMAIN jobs' /\ up \in BOOLEAN
          /\ crashes \in 0 .. MaxCrashes /\ dbErrors \in 0 .. MaxDbErrors
      <3>1. \A w \in Workers : work[w] \in [job : DOMAIN jobs', step : Steps, verdict : Verdicts \cup {None}]
                                           \cup {Idle}
        BY <1>2 DEF Inv, TypeOK
      <3>2. DOMAIN work = Workers /\ work = [w \in Workers |-> work[w]]
        BY DEF Inv, TypeOK
      <3>3. /\ escaped \subseteq DOMAIN jobs' /\ up \in BOOLEAN
            /\ crashes \in 0 .. MaxCrashes /\ dbErrors \in 0 .. MaxDbErrors
        BY <1>2 DEF Inv, TypeOK
      <3> QED
        BY <3>1, <3>2, <3>3
    <2> QED
      BY <1>2, <1>6, <2>1, <2>2 DEF TypeOK, RequestSteps
  <1>8. QueueInv'
    <2>1. ASSUME NEW i \in DOMAIN queue, NEW k \in DOMAIN jobs', queue[i] <= k
          PROVE  jobs'[k].status = "queued" /\ \A w \in Workers : work[w].job # k
      <3>1. CASE k = n
        BY <1>2, <1>4, <3>1 DEF NewRow
      <3>2. CASE k # n
        BY <1>2, <2>1, <3>2 DEF Inv, QueueInv
      <3> QED
        BY <3>1, <3>2
    <2> QED
      BY <1>2, <2>1 DEF Inv, QueueInv
  <1>9. RequestInv'
    <2> SUFFICES ASSUME NEW v \in Uploads, request'[v].step = "created"
                 PROVE  Submitting(v)'
      BY DEF RequestInv
    <2>1. v = u /\ \A x \in Uploads : request'[x].step = "created" => x = u
      BY <1>2, <1>6
    <2> QED
      BY <1>2, <1>3, <1>4, <1>5, <1>6, <2>1 DEF Submitting, NewRow
  <1>10. WorkInv'
    <2> SUFFICES ASSUME NEW w \in Workers, Busy(w)
                 PROVE  Doing(w)' /\ \A v \in Workers : work[v].job = work[w].job => v = w
      BY <1>2 DEF WorkInv, Busy
    <2>1. work[w].job \in DOMAIN jobs
      BY Threads DEF Inv
    <2> QED
      BY <1>2, <2>1 DEF Inv, WorkInv, Doing
  <1>11. DoneIsDelivered'
    <2> SUFFICES ASSUME NEW k \in DOMAIN jobs', jobs'[k].status = "done"
                 PROVE  output'[k] \in Verdicts /\ jobs'[k].verdict = output'[k]
      BY DEF DoneIsDelivered
    <2>1. k # n
      BY <1>2 DEF NewRow
    <2> QED
      BY <1>2, <2>1 DEF Inv, DoneIsDelivered
  <1> QED
    BY <1>7, <1>8, <1>9, <1>10, <1>11 DEF Inv

LEMMA SubmitKeepsInv ==
    ASSUME Inv, NEW u \in Uploads, Submit(u)
    PROVE  Inv'
  <1>1. PICK n : n = Len(jobs)
    OBVIOUS
  <1>2. /\ request' \in [Uploads -> [step : RequestSteps, job : DOMAIN jobs \cup {None}]]
        /\ request[u].step = "created" /\ request'[u].step = "answered"
        /\ \A v \in Uploads \ {u} : request'[v] = request[v]
    BY Asked DEF Inv, Submit, RequestSteps
  <1>3. Submitting(u)
    BY <1>2 DEF Inv, RequestInv
  <1>4. /\ request[u].job = n /\ n \in DOMAIN jobs /\ DOMAIN jobs = 1 .. n /\ n \in Nat
        /\ jobs[n].status = "queued" /\ \A w \in Workers : work[w].job # n
    BY <1>1, <1>3, Tables DEF Submitting, Inv
  <1>5. /\ queue' = Append(queue, n) /\ queue \in Seq(DOMAIN jobs)
        /\ UNCHANGED <<jobs, output, work, up, escaped, crashes, dbErrors>>
    BY <1>4 DEF Submit, Inv, TypeOK
  <1>6. /\ queue' \in Seq(DOMAIN jobs) /\ Len(queue') = Len(queue) + 1
        /\ \A i \in 1 .. Len(queue) : queue'[i] = queue[i]
        /\ queue'[Len(queue) + 1] = n
    BY ONLY <1>4, <1>5, AppendProperties
  <1>7. DOMAIN queue = 1 .. Len(queue) /\ Len(queue) \in Nat /\ DOMAIN queue' = 1 .. Len(queue) + 1
    BY <1>6, Tables, LenProperties DEF Inv
  <1>8. \A i \in DOMAIN queue : queue[i] < n
    BY <1>1, <1>3, <1>4, Tables DEF Inv, Submitting
  <1>9. TypeOK'
    BY <1>2, <1>5, <1>6 DEF Inv, TypeOK, RequestSteps
  <1>10. QueueInv'
    <2>1. ASSUME NEW i \in DOMAIN queue', NEW k \in DOMAIN queue', i < k
          PROVE  queue'[i] < queue'[k]
      <3>1. i \in DOMAIN queue
        BY <1>7, <2>1
      <3>2. CASE k \in DOMAIN queue
        BY <1>6, <1>7, <2>1, <3>1, <3>2 DEF Inv, QueueInv
      <3>3. CASE k = Len(queue) + 1
        BY <1>6, <1>7, <1>8, <3>1, <3>3
      <3> QED
        BY <1>7, <3>2, <3>3
    <2>2. ASSUME NEW i \in DOMAIN queue', NEW k \in DOMAIN jobs, queue'[i] <= k
          PROVE  jobs[k].status = "queued" /\ \A w \in Workers : work[w].job # k
      <3>1. CASE i \in DOMAIN queue
        BY <1>6, <1>7, <2>2, <3>1 DEF Inv, QueueInv
      <3>2. CASE i = Len(queue) + 1
        <4>1. k = n
          BY <1>4, <1>6, <2>2, <3>2
        <4> QED
          BY <1>4, <4>1
      <3> QED
        BY <1>7, <3>1, <3>2
    <2> QED
      BY <1>5, <2>1, <2>2 DEF QueueInv
  <1>11. RequestInv'
    BY <1>2, <1>3 DEF Submitting, RequestInv
  <1>12. WorkInv' /\ DoneIsDelivered'
    BY <1>5 DEF Inv, WorkInv, Busy, Doing, DoneIsDelivered
  <1> QED
    BY <1>9, <1>10, <1>11, <1>12 DEF Inv

LEMMA CrashKeepsInv ==
    ASSUME Inv, Crash
    PROVE  Inv'
  <1>1. /\ UNCHANGED <<jobs, escaped, dbErrors>> /\ queue' = <<>> /\ work' = [w \in Workers |-> Idle]
        /\ up' = FALSE /\ crashes' \in 0 .. MaxCrashes
        /\ request' = [v \in Uploads |-> IF request[v].step \in {"saved", "created"}
                                         THEN [request[v] EXCEPT !.step = "failed"] ELSE request[v]]
    BY BoundsAreNumbers DEF Crash, Inv, TypeOK
  <1>2. PICK torn \in SUBSET Redacting :
            output' = [k \in DOMAIN output |-> IF k \in torn THEN Partial ELSE output[k]]
    BY DEF Crash
  <1>3. \A u \in Uploads : /\ request'[u] \in [step : RequestSteps, job : DOMAIN jobs \cup {None}]
                           /\ request'[u].step # "created"
    <2> TAKE u \in Uploads
    <2>1. request[u] \in [step : RequestSteps, job : DOMAIN jobs \cup {None}]
      BY DEF Inv, TypeOK, RequestSteps
    <2> QED
      BY <1>1, <2>1 DEF RequestSteps
  <1>4. /\ DOMAIN output = DOMAIN jobs /\ DOMAIN jobs = 1 .. Len(jobs) /\ Len(jobs) \in Nat
        /\ \A k \in DOMAIN jobs : output[k] \in Verdicts \cup {Absent, Partial}
    BY Tables DEF Inv
  <1>5. output' \in [1 .. Len(jobs) -> Verdicts \cup {Absent, Partial}]
    BY <1>2, <1>4
  <1>6. output' \in Seq(Verdicts \cup {Absent, Partial}) /\ Len(output') = Len(jobs)
    BY <1>4, <1>5
  <1>7. request' \in [Uploads -> [step : RequestSteps, job : DOMAIN jobs \cup {None}]]
    BY <1>1, <1>3
  <1>8. queue' \in Seq(DOMAIN jobs) /\ DOMAIN queue' = {}
    BY <1>1
  <1>9. TypeOK'
    BY <1>1, <1>6, <1>7, <1>8 DEF Inv, TypeOK, RequestSteps
  <1>10. QueueInv' /\ RequestInv' /\ WorkInv'
    BY <1>1, <1>3, <1>8 DEF QueueInv, RequestInv, WorkInv, Busy
  <1>11. \A k \in DOMAIN jobs : jobs[k].status = "done" => output'[k] = output[k]
    <2> SUFFICES ASSUME NEW k \in DOMAIN jobs, jobs[k].status = "done", k \in Redacting
                 PROVE  FALSE
      BY <1>2, <1>4
    <2>1. PICK w \in Workers : work[w].step = "redact" /\ work[w].job = k
      BY DEF Redacting, UnderWay
    <2>2. Busy(w)
      BY <2>1 DEF Busy, Idle
    <2> QED
      BY <2>1, <2>2 DEF Inv, WorkInv, Doing
  <1>12. DoneIsDelivered'
    BY <1>1, <1>11 DEF Inv, DoneIsDelivered
  <1> QED
    BY <1>9, <1>10, <1>12 DEF Inv

-----------------------------------------------------------------------------
LEMMA InitEstablishesInv == Init => Inv
  <1> SUFFICES ASSUME Init PROVE Inv
    OBVIOUS
  <1>1. TypeOK
    BY BoundsAreNumbers DEF Init, TypeOK
  <1>2. \A w \in Workers : ~Busy(w)
    BY DEF Init, Busy
  <1>3. QueueInv /\ RequestInv /\ WorkInv /\ DoneIsDelivered
    BY <1>2 DEF Init, QueueInv, RequestInv, WorkInv, DoneIsDelivered
  <1> QED
    BY <1>1, <1>3 DEF Inv

LEMMA NextKeepsInv == Inv /\ [Next]_vars => Inv'
  <1> SUFFICES ASSUME Inv, [Next]_vars PROVE Inv'
    OBVIOUS
  <1>1. ASSUME NEW u \in Uploads, Handle(u) PROVE Inv'
    <2>1. CASE Refuse(u)
      BY <2>1, AskKeepsInv DEF Refuse, DbWorks, RequestSteps
    <2>2. CASE Save(u)
      BY <2>2, AskKeepsInv DEF Save, DbWorks, RequestSteps
    <2>3. CASE Create(u)
      BY <2>3, CreateKeepsInv
    <2>4. CASE CreateRaises(u)
      BY <2>4, AskKeepsInv DEF CreateRaises, RequestSteps
    <2>5. CASE Submit(u)
      BY <2>5, SubmitKeepsInv
    <2> QED
      BY <1>1, <2>1, <2>2, <2>3, <2>4, <2>5 DEF Handle
  <1>2. ASSUME NEW w \in Workers, Work(w) PROVE Inv'
    BY <1>2, BusySteps, ActsKeepInv, TakeKeepsInv
  <1>3. CASE Restart
    BY <1>3 DEF Restart, Inv, TypeOK, QueueInv, RequestInv, Submitting, WorkInv, Busy, Doing, DoneIsDelivered
  <1>4. CASE UNCHANGED vars
    BY <1>4 DEF vars, Inv, TypeOK, QueueInv, RequestInv, Submitting, WorkInv, Busy, Doing, DoneIsDelivered
  <1> QED
    BY <1>1, <1>2, <1>3, <1>4, CrashKeepsInv DEF Next

LEMMA InvHolds == Spec => []Inv
  BY InitEstablishesInv, NextKeepsInv, PTL DEF Spec

\* The variables have their types: every job in the queue, with a thread or
\* with a handler is a row of the table.
THEOREM Typed == Spec => []TypeOK
  <1>1. Inv => TypeOK
    BY DEF Inv
  <1> QED
    BY <1>1, InvHolds, PTL

\* A job is done only when its output is the complete file that run() reported
\* on, and its row has the verdict of that file.
THEOREM Delivered == Spec => []DoneIsDelivered
  <1>1. Inv => DoneIsDelivered
    BY DEF Inv
  <1> QED
    BY <1>1, InvHolds, PTL

\* While a job waits in the queue, no job uploaded after it is begun.
THEOREM InOrder == Spec => []NoOvertaking
  <1>1. Inv => NoOvertaking
    <2> SUFFICES ASSUME Inv, NEW i \in DOMAIN queue, NEW k \in DOMAIN jobs, queue[i] < k
                 PROVE  jobs[k].status = "queued" /\ \A w \in Workers : work[w].job # k
      BY DEF NoOvertaking, ToSet
    <2>1. queue[i] \in Nat /\ k \in Nat
      BY Tables DEF Inv
    <2>2. queue[i] <= k
      BY <2>1
    <2> QED
      BY <2>2 DEF Inv, QueueInv
  <1> QED
    BY <1>1, InvHolds, PTL

\* Two holders of a job are the same holder.
LEMMA HoldersAreOne ==
    ASSUME Inv, NEW j \in DOMAIN jobs, NEW x \in Holders(j), NEW y \in Holders(j)
    PROVE  x = y
  <1> DEFINE Asking == {v \in Uploads : request[v] = [step |-> "created", job |-> j]}
             Waiting == {k \in DOMAIN queue : queue[k] = j}
             Doers == {v \in Workers : work[v].job = j}
  <1>1. \A u \in Asking : Submitting(u) /\ j = Len(jobs) /\ request[u].step = "created"
    BY DEF Inv, RequestInv, Submitting
  <1>2. \A u, v \in Asking : u = v
    BY <1>1 DEF Submitting
  <1>3. \A u \in Asking : Waiting = {} /\ Doers = {}
    BY <1>1 DEF Submitting
  <1>4. \A i, k \in Waiting : i = k
    <2> SUFFICES ASSUME NEW i \in DOMAIN queue, NEW k \in DOMAIN queue, i < k
                 PROVE  queue[i] # queue[k]
      BY Tables DEF Inv
    <2>1. queue[i] < queue[k] /\ queue[i] \in Nat /\ queue[k] \in Nat
      BY Tables DEF Inv, QueueInv
    <2> QED
      BY <2>1
  <1>5. \A i \in Waiting : Doers = {}
    <2> TAKE i \in Waiting
    <2>1. queue[i] <= j
      BY Tables DEF Inv
    <2> QED
      BY <2>1 DEF Inv, QueueInv
  <1>6. \A w, v \in Doers : w = v
    BY Threads DEF Inv, WorkInv
  <1>7. Holders(j) = ({<<"request", u>> : u \in Asking} \cup {<<"queue", i>> : i \in Waiting})
                        \cup {<<"worker", w>> : w \in Doers}
    BY DEF Holders
  <1> HIDE DEF Asking, Waiting, Doers
  <1> QED
    BY <1>2, <1>3, <1>4, <1>5, <1>6, <1>7

\* A set with no two members has at most one.
LEMMA AtMostOne ==
    ASSUME NEW S, \A x, y \in S : x = y
    PROVE  Cardinality(S) <= 1
  <1>1. CASE S = {}
    BY <1>1, FS_EmptySet
  <1>2. CASE S # {}
    <2>1. PICK x : x \in S
      BY <1>2
    <2>2. S = {x}
      BY <2>1
    <2> QED
      BY <2>2, FS_Singleton
  <1> QED
    BY <1>1, <1>2

\* A job is in one place: with the handler that will submit it, in the queue
\* or on one thread, and a settled job in none.
THEOREM HeldOnce == Spec => []OneHolder
  <1>1. Inv => OneHolder
    <2> SUFFICES ASSUME Inv, NEW j \in DOMAIN jobs
                 PROVE  /\ Cardinality(Holders(j)) <= 1
                        /\ jobs[j].status \in {"done", "failed"} => Holders(j) = {}
      BY DEF OneHolder
    <2>1. Cardinality(Holders(j)) <= 1
      BY HoldersAreOne, AtMostOne
    <2>2. ASSUME jobs[j].status \in {"done", "failed"} PROVE Holders(j) = {}
      <3>1. \A u \in Uploads : request[u] # [step |-> "created", job |-> j]
        BY <2>2 DEF Inv, RequestInv, Submitting
      <3>2. \A i \in DOMAIN queue : queue[i] # j
        <4> SUFFICES ASSUME NEW i \in DOMAIN queue, queue[i] = j PROVE FALSE
          OBVIOUS
        <4>1. queue[i] <= j
          BY Tables DEF Inv
        <4> QED
          BY <2>2, <4>1 DEF Inv, QueueInv
      <3>3. \A w \in Workers : work[w].job # j
        BY <2>2, Threads DEF Inv, WorkInv, Doing
      <3> QED
        BY <3>1, <3>2, <3>3 DEF Holders
    <2> QED
      BY <2>1, <2>2
  <1> QED
    BY <1>1, InvHolds, PTL

-----------------------------------------------------------------------------
\* A crash tears no file but those of the jobs a thread is redacting.
LEMMA CrashTearsRunning ==
    ASSUME Inv, Crash, NEW j \in DOMAIN jobs, jobs[j].status # "running"
    PROVE  jobs' = jobs /\ output'[j] = output[j]
  <1>1. PICK torn \in SUBSET Redacting :
            output' = [k \in DOMAIN output |-> IF k \in torn THEN Partial ELSE output[k]]
    BY DEF Crash
  <1>2. j \notin Redacting
    <2> SUFFICES ASSUME NEW w \in Workers, work[w].step = "redact", work[w].job = j PROVE FALSE
      BY DEF Redacting, UnderWay
    <2>1. Busy(w)
      BY DEF Busy, Idle
    <2> QED
      BY <2>1 DEF Inv, WorkInv, Doing
  <1>3. j \in DOMAIN output
    BY Tables DEF Inv
  <1> QED
    BY <1>1, <1>2, <1>3 DEF Crash

\* Once a job is done or failed, neither its row nor its file changes again.
THEOREM Final == Spec => SettledIsFinal
  <1>1. Inv /\ [Next]_vars =>
           [\A j \in DOMAIN jobs : Settled(j) => jobs'[j] = jobs[j] /\ output'[j] = output[j]]_vars
    <2> SUFFICES ASSUME Inv, Next, NEW j \in DOMAIN jobs, Settled(j)
                 PROVE  jobs'[j] = jobs[j] /\ output'[j] = output[j]
      OBVIOUS
    <2>1. ASSUME NEW u \in Uploads, Handle(u) PROVE jobs'[j] = jobs[j] /\ output'[j] = output[j]
      BY <2>1, Created DEF Handle, Refuse, Save, CreateRaises, Submit, Inv
    <2>2. ASSUME NEW w \in Workers, Work(w) PROVE jobs'[j] = jobs[j] /\ output'[j] = output[j]
      <3>1. CASE Take(w)
        BY <3>1 DEF Take
      <3>2. CASE ActsOn(w)
        <4>1. jobs[work[w].job].status \in {"queued", "running"}
          BY <3>2 DEF ActsOn, Inv, WorkInv, Doing
        <4>2. work[w].job # j
          BY <4>1 DEF Settled
        <4> QED
          BY <3>2, <4>2 DEF ActsOn
      <3> QED
        BY <2>2, <3>1, <3>2, BusySteps
    <2>3. CASE Crash
      BY <2>3, CrashTearsRunning DEF Settled
    <2>4. CASE Restart
      BY <2>4 DEF Restart
    <2> QED
      BY <2>1, <2>2, <2>3, <2>4 DEF Next
  <1> QED
    BY <1>1, InvHolds, PTL DEF Spec, SettledIsFinal

-----------------------------------------------------------------------------
\* What the pages show of the table and the files.
Status == [j \in DOMAIN jobs |-> jobs[j].status]
Download == [j \in DOMAIN jobs |-> IF jobs[j].status = "done" THEN output[j] ELSE None]

\* A step that leaves every status, and the file of every job that is done,
\* shows nothing.
LEMMA NothingShown ==
    ASSUME DOMAIN jobs' = DOMAIN jobs,
           \A j \in DOMAIN jobs : /\ jobs'[j].status = jobs[j].status
                                  /\ jobs[j].status = "done" => output'[j] = output[j]
    PROVE  UNCHANGED Board!vars
  <1>1. Status' = Status
    BY DEF Status
  <1>2. \A j \in DOMAIN jobs : (IF jobs'[j].status = "done" THEN output'[j] ELSE None)
                              = (IF jobs[j].status = "done" THEN output[j] ELSE None)
    OBVIOUS
  <1>3. Download' = Download
    BY <1>2 DEF Download
  <1> QED
    BY <1>1, <1>3 DEF Board!vars, Status, Download

\* A new job is accepted.
LEMMA CreateAccepts ==
    ASSUME Inv, NEW u \in Uploads, Create(u)
    PROVE  Board!Next
  <1>1. PICK n : n = Len(jobs) /\ n \in Nat /\ DOMAIN jobs = 1 .. n
    BY Tables DEF Inv
  <1>2. /\ DOMAIN jobs' = 1 .. n + 1 /\ jobs'[n + 1] = NewRow
        /\ \A k \in 1 .. n : jobs'[k] = jobs[k] /\ output'[k] = output[k]
    BY <1>1, Created DEF Inv
  <1>3. PICK s, d : s = Status /\ d = Download
    OBVIOUS
  <1>4. /\ s = [j \in 1 .. n |-> jobs[j].status]
        /\ d = [j \in 1 .. n |-> IF jobs[j].status = "done" THEN output[j] ELSE None]
    BY <1>1, <1>3 DEF Status, Download
  <1>5. PICK T : T = {jobs[j].status : j \in 1 .. n} \cup {"queued"}
    OBVIOUS
  <1>6. PICK F : F = {d[j] : j \in 1 .. n} \cup {None}
    OBVIOUS
  <1>7. s \in Seq(T) /\ Len(s) = n
    BY <1>1, <1>4, <1>5
  <1>8. d \in Seq(F) /\ Len(d) = n
    BY <1>1, <1>4, <1>6
  <1>9. /\ Append(s, "queued") \in Seq(T) /\ Len(Append(s, "queued")) = n + 1
        /\ \A j \in 1 .. n : Append(s, "queued")[j] = s[j]
        /\ Append(s, "queued")[n + 1] = "queued"
    BY <1>5, <1>7, AppendProperties
  <1>10. /\ Append(d, None) \in Seq(F) /\ Len(Append(d, None)) = n + 1
         /\ \A j \in 1 .. n : Append(d, None)[j] = d[j]
         /\ Append(d, None)[n + 1] = None
    BY <1>6, <1>8, AppendProperties
  <1>11. DOMAIN Append(s, "queued") = 1 .. n + 1 /\ DOMAIN Append(d, None) = 1 .. n + 1
    BY <1>9, <1>10, LenProperties
  <1>12. /\ Status' = [j \in 1 .. n + 1 |-> jobs'[j].status]
         /\ Download' = [j \in 1 .. n + 1 |-> IF jobs'[j].status = "done" THEN output'[j] ELSE None]
    BY <1>2 DEF Status, Download
  <1>13. Status' = Append(s, "queued")
    <2>1. \A j \in 1 .. n + 1 : jobs'[j].status = Append(s, "queued")[j]
      BY <1>1, <1>2, <1>4, <1>9 DEF NewRow
    <2>2. Append(s, "queued") = [j \in 1 .. n + 1 |-> Append(s, "queued")[j]]
      BY <1>9, <1>11, LenProperties
    <2> QED
      BY <1>12, <2>1, <2>2
  <1>14. Download' = Append(d, None)
    <2>1. \A j \in 1 .. n + 1 :
             (IF jobs'[j].status = "done" THEN output'[j] ELSE None) = Append(d, None)[j]
      BY <1>1, <1>2, <1>4, <1>10 DEF NewRow
    <2>2. Append(d, None) = [j \in 1 .. n + 1 |-> Append(d, None)[j]]
      BY <1>10, <1>11, LenProperties
    <2> QED
      BY <1>12, <2>1, <2>2
  <1> QED
    BY <1>3, <1>13, <1>14 DEF Board!Next, Board!Accept, Status, Download

\* A thread begins, finishes or fails its job, or shows nothing.
LEMMA WorkImplements ==
    ASSUME Inv, NEW w \in Workers, Work(w)
    PROVE  Board!Next \/ UNCHANGED Board!vars
  <1> DEFINE j == work[w].job
  <1>1. CASE Take(w)
    BY <1>1, NothingShown DEF Take
  <1>2. ASSUME ActsOn(w), jobs'[j].status = jobs[j].status
        PROVE  UNCHANGED Board!vars
    <2>1. DOMAIN jobs' = DOMAIN jobs /\ j \in DOMAIN jobs
      BY <1>2, Threads DEF ActsOn, Inv
    <2>2. jobs[j].status # "done"
      BY <1>2 DEF ActsOn, Inv, WorkInv, Doing
    <2> QED
      BY <1>2, <2>1, <2>2, NothingShown DEF ActsOn
  <1>3. ASSUME ActsOn(w)
        PROVE  /\ j \in DOMAIN jobs /\ DOMAIN jobs' = DOMAIN jobs /\ Busy(w)
               /\ \A k \in DOMAIN jobs \ {j} : jobs'[k].status = jobs[k].status /\ output'[k] = output[k]
               /\ Status' = [Status EXCEPT ![j] = jobs'[j].status]
               /\ Download' = [Download EXCEPT ![j] = IF jobs'[j].status = "done" THEN output'[j] ELSE None]
               /\ DOMAIN Status = DOMAIN jobs /\ Status[j] = jobs[j].status
    <2>1. /\ j \in DOMAIN jobs /\ DOMAIN jobs' = DOMAIN jobs /\ Busy(w)
          /\ \A k \in DOMAIN jobs \ {j} : jobs'[k] = jobs[k] /\ output'[k] = output[k]
      BY <1>3, Threads DEF ActsOn, Inv
    <2> HIDE DEF j
    <2> QED
      BY <2>1 DEF Status, Download
  <1>4. CASE Start(w)
    <2>1. ActsOn(w) /\ Busy(w) /\ Write(w, "running", None, FALSE)
      BY <1>4, StartActs DEF ActsOn, Start
    <2>2. jobs'[j].status = "running"
      BY <2>1, Written DEF Inv
    <2>3. jobs[j].status = "queued"
      BY <1>4, <2>1 DEF Inv, WorkInv, Doing, Start, Step
    <2>4. Download[j] = None
      BY <1>3, <2>1, <2>3 DEF Download
    <2>5. Download' = Download
      BY <1>3, <2>1, <2>2, <2>4 DEF Download
    <2> HIDE DEF j
    <2> QED
      BY <1>3, <2>1, <2>2, <2>3, <2>5 DEF Board!Next, Board!Start, Status, Download
  <1>5. CASE Lookup(w) \/ RunReturns(w) \/ RunRaises(w) \/ FinishRaises(w) \/ Escape(w)
    <2>1. ActsOn(w) /\ jobs' = jobs
      BY <1>5, LookupActs, RunReturnsActs, RunRaisesActs, FinishRaisesActs, EscapeActs
         DEF Lookup, RunReturns, RunRaises, FinishRaises, Escape
    <2> QED
      BY <1>2, <2>1
  <1>6. CASE Progress(w)
    <2>1. ActsOn(w) /\ Busy(w) /\ AppendProgress(w, "stage")
      BY <1>6, ProgressActs DEF ActsOn, Progress
    <2> QED
      BY <1>2, <2>1, Appended DEF Inv
  <1>7. CASE Explain(w)
    <2>1. ActsOn(w) /\ Busy(w) /\ AppendProgress(w, "failure")
      BY <1>7, ExplainActs DEF ActsOn, Explain
    <2> QED
      BY <1>2, <2>1, Appended DEF Inv
  <1>8. CASE Finish(w)
    <2>1. ActsOn(w) /\ Busy(w) /\ Write(w, "done", work[w].verdict, FALSE)
      BY <1>8, FinishActs DEF ActsOn, Finish
    <2>2. work[w].verdict \in Verdicts /\ jobs[j].status = "running" /\ output'[j] = work[w].verdict
      BY <1>8, <2>1 DEF Inv, WorkInv, Doing, Finish
    <2>3. jobs'[j].status = "done"
      BY <2>1, <2>2, Written DEF Inv
    <2>4. Download' = [Download EXCEPT ![j] = work[w].verdict]
      BY <1>3, <2>1, <2>2, <2>3
    <2>5. j \in DOMAIN Status /\ Status[j] = "running" /\ Status' = [Status EXCEPT ![j] = "done"]
      BY <1>3, <2>1, <2>2, <2>3
    <2>6. \E v \in Verdicts : Download' = [Download EXCEPT ![j] = v]
      BY <2>2, <2>4
    <2> HIDE DEF j
    <2>7. \E k \in DOMAIN Status : Board!Finish(k)
      BY <2>5, <2>6 DEF Board!Finish, Status, Download
    <2> QED
      BY <2>7 DEF Board!Next, Status
  <1>9. CASE Record(w)
    <2>1. ActsOn(w) /\ Busy(w) /\ Write(w, "failed", None, TRUE)
      BY <1>9, RecordActs DEF ActsOn, Record
    <2>2. jobs'[j].status = "failed"
      BY <2>1, Written DEF Inv
    <2>3. jobs[j].status = "running"
      BY <1>9, <2>1 DEF Inv, WorkInv, Doing, Record
    <2>4. Download[j] = None
      BY <1>3, <2>1, <2>3 DEF Download
    <2>5. Download' = Download
      BY <1>3, <2>1, <2>2, <2>4 DEF Download
    <2> HIDE DEF j
    <2> QED
      BY <1>3, <2>1, <2>2, <2>3, <2>5 DEF Board!Next, Board!Fail, Status, Download
  <1> QED
    BY <1>1, <1>4, <1>5, <1>6, <1>7, <1>8, <1>9 DEF Work

\* The handlers and threads, whatever crashes and raises, show on the pages
\* what JobBoard promises: each job waits, is started once and settled once,
\* and only a job that is done has a file to download, the one of its verdict.
THEOREM Implements == Spec => ImplementsBoard
  <1>1. Init => Board!Init
    <2> SUFFICES ASSUME Init PROVE Board!Init
      OBVIOUS
    <2>1. jobs = <<>> /\ DOMAIN jobs = {}
      BY DEF Init
    <2> QED
      BY <2>1 DEF Board!Init
  <1>2. Inv /\ [Next]_vars => [Board!Next]_(Board!vars)
    <2> SUFFICES ASSUME Inv, [Next]_vars PROVE Board!Next \/ UNCHANGED Board!vars
      OBVIOUS
    <2>1. ASSUME NEW u \in Uploads, Handle(u) PROVE Board!Next \/ UNCHANGED Board!vars
      <3>1. CASE Create(u)
        BY <3>1, CreateAccepts
      <3>2. CASE Refuse(u) \/ Save(u) \/ CreateRaises(u) \/ Submit(u)
        BY <3>2, NothingShown DEF Refuse, Save, CreateRaises, Submit
      <3> QED
        BY <2>1, <3>1, <3>2 DEF Handle
    <2>2. ASSUME NEW w \in Workers, Work(w) PROVE Board!Next \/ UNCHANGED Board!vars
      BY <2>2, WorkImplements
    <2>3. CASE Crash
      <3>1. jobs' = jobs
        BY <2>3 DEF Crash
      <3> QED
        BY <2>3, <3>1, CrashTearsRunning, NothingShown
    <2>4. CASE Restart \/ UNCHANGED vars
      BY <2>4, NothingShown DEF Restart, vars
    <2> QED
      BY <2>1, <2>2, <2>3, <2>4 DEF Next
  <1> QED
    BY <1>1, <1>2, InvHolds, PTL DEF Spec, ImplementsBoard, Board!Spec
=============================================================================
