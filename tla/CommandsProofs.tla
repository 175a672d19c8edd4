--------------------------- MODULE CommandsProofs ---------------------------
(***************************************************************************)
(* Theorems about Commands, for any folder of files, however they share    *)
(* base names, and wherever a command is interrupted: what an exit status  *)
(* and a report tell is so.                                                *)
(***************************************************************************)
EXTENDS Commands, FiniteSetTheorems, TLAPS

\* The run of the current file: nothing is written before its last draft is
\* verified, a scan has none, and what it has written is where it belongs.
RunInv ==
    /\ (phase = "working" /\ ~Run!Final) => out \in {Absent, Stale}
    /\ phase = "listed" => command = "scan"
    /\ command = "scan" => tries = 0 /\ phase \notin {"resolved", "unresolved"}
    /\ current # None =>
          /\ out \in {Absent, Stale, Partial} \cup Nat
          /\ out \in Nat => outputs[Base[current]] = current
          /\ out = Partial => outputs[Base[current]] = Partial
          /\ phase \in {"resolved", "unresolved"} => outputs[Base[current]] = current
    /\ (current = None /\ command # "batch") => tries = 0 /\ phase = "working"

\* run and scan write neither an output nor a manifest earlier than that.
OutputInv ==
    /\ (command # "batch" /\ ~Run!Final) => \A n \in Names : outputs[n] \in {Absent, Stale}
    /\ manifest \notin {Absent, Stale} =>
          /\ command = "scan" /\ phase = "listed"
          /\ manifest \in {Partial, current}

\* What was told of g is so, under the name it shares with others.
Tells(g) ==
    /\ outcome[g] # None
    /\ reports[Base[g]] = [of |-> g, says |-> outcome[g]]
    /\ outcome[g] # "failed" => outputs[Base[g]] = g

\* A name that has had a run, and has none now, belongs to the last to end.
LatestInv ==
    \A f \in Files :
        (outcome[f] # None /\ (current # None => Base[current] # Base[f])) =>
            \E g \in Files : Base[g] = Base[f] /\ Tells(g)

Ended(how) == {f \in Files : outcome[f] = how}

\* Each file is to come, current or over, and those that are over are counted.
CountInv ==
    /\ current # None => outcome[current] = None /\ current \notin todo
    /\ \A f \in todo : outcome[f] = None
    /\ command = "batch" => \A f \in Files : outcome[f] = None => f \in todo \cup {current}
    /\ said \notin {"traceback", "aborted"} =>
          /\ unresolved_count = Cardinality(Ended("unresolved"))
          /\ failed_count = Cardinality(Ended("failed"))
    /\ exit = None => said = None

\* The inductive invariant.
Inv == TypeOK /\ RunInv /\ OutputInv /\ LatestInv /\ CountInv /\ ExitTells

-----------------------------------------------------------------------------
LEMMA Marks ==
    /\ None \notin Files /\ None \notin Nat
    /\ \A f \in Files : f \notin {Absent, Stale, Partial} /\ f # None
    /\ \A n \in Nat : n \notin {Absent, Stale, Partial}
    /\ Partial # Absent /\ Partial # Stale
    /\ \A f \in Files : Base[f] \in Names
  BY NoFileIsAMark, MarksAreApart DEF Names

\* There is at least one attempt.
LEMMA AttemptsAreCounted == TypeOK => Run!Attempts \in Nat \ {0}
  <1> SUFFICES ASSUME TypeOK PROVE Run!Attempts \in Nat \ {0}
    OBVIOUS
  <1>1. limit \in Int
    BY LimitsAreIntegers DEF TypeOK
  <1>2. PICK m \in {0, limit} : \A x \in {0, limit} : m >= x
    <2>1. CASE limit > 0
      BY <1>1, <2>1
    <2>2. CASE ~(limit > 0)
      BY <1>1, <2>2
    <2> QED
      BY <2>1, <2>2
  <1>3. Run!Max({0, limit}) \in {0, limit} /\ \A x \in {0, limit} : Run!Max({0, limit}) >= x
    BY <1>2 DEF Run!Max
  <1> QED
    BY <1>1, <1>3 DEF Run!Attempts

\* The files that ended one way or another are a finite set.
LEMMA Counted ==
    ASSUME NEW how
    PROVE  /\ IsFiniteSet(Ended(how)) /\ Cardinality(Ended(how)) \in Nat
           /\ Cardinality(Files) \in Nat /\ Cardinality(Ended(how)) <= Cardinality(Files)
           /\ Cardinality(Ended(how)) = 0 <=> Ended(how) = {}
           /\ \A f \in Files : outcome[f] # how => Cardinality(Ended(how)) + 1 <= Cardinality(Files)
           /\ \A f \in Files : outcome[f] # how =>
                 Cardinality(Ended(how) \cup {f}) = Cardinality(Ended(how)) + 1
  <1>1. Ended(how) \subseteq Files
    BY DEF Ended
  <1>2. IsFiniteSet(Ended(how)) /\ Cardinality(Ended(how)) <= Cardinality(Files)
    BY <1>1, FilesAreFinite, FS_Subset
  <1>3. Cardinality(Ended(how)) \in Nat /\ Cardinality(Files) \in Nat
    BY <1>2, FilesAreFinite, FS_CardinalityType
  <1>4. Cardinality(Ended(how)) = 0 <=> Ended(how) = {}
    BY <1>2, FS_EmptySet
  <1>5. ASSUME NEW f \in Files, outcome[f] # how
        PROVE  /\ Cardinality(Ended(how) \cup {f}) = Cardinality(Ended(how)) + 1
               /\ Cardinality(Ended(how)) + 1 <= Cardinality(Files)
    <2>1. f \notin Ended(how)
      BY <1>5 DEF Ended
    <2>2. Cardinality(Ended(how) \cup {f}) = Cardinality(Ended(how)) + 1
      BY <1>2, <2>1, FS_AddElement
    <2>3. Ended(how) \cup {f} \subseteq Files
      BY <1>1
    <2>4. Cardinality(Ended(how) \cup {f}) <= Cardinality(Files)
      BY <2>3, FilesAreFinite, FS_Subset
    <2> QED
      BY <2>2, <2>4
  <1> QED
    BY <1>2, <1>3, <1>4, <1>5

\* The current file's outcome is told: it counts where it belongs.
LEMMA OutcomeTold ==
    ASSUME TypeOK, NEW f \in Files, outcome[f] = None, NEW told \in Outcomes,
           outcome' = [outcome EXCEPT ![f] = told], NEW how \in Outcomes
    PROVE  Ended(how)' = IF how = told THEN Ended(how) \cup {f} ELSE Ended(how)
  <1>1. \A g \in Files : outcome'[g] = IF g = f THEN told ELSE outcome[g]
    BY DEF TypeOK
  <1>2. outcome[f] # how
    BY NoneIsNoEnd DEF Outcomes
  <1> QED
    BY <1>1, <1>2 DEF Ended

-----------------------------------------------------------------------------
\* The ways the call of the current file can go on: it verifies a draft, writes
\* the last one, returns, lists, or fails.
CallGoesOn ==
    /\ phase = "working" /\ current \in Files /\ UNCHANGED <<dryRun, limit>>
    /\ \/ /\ command # "scan" /\ phase' = "working" /\ UNCHANGED <<out, outputs>> /\ ~Run!Final
          /\ tries' = tries + 1 /\ tries < Run!Attempts /\ clean' \in BOOLEAN
       \/ /\ command # "scan" /\ phase' = "working" /\ UNCHANGED <<tries, clean>> /\ Run!Final
          /\ \/ out' \in Nat /\ outputs' = [outputs EXCEPT ![Base[current]] = current]
             \/ out' = Partial /\ outputs' = [outputs EXCEPT ![Base[current]] = Partial]
       \/ /\ command # "scan" /\ phase' \in {"resolved", "unresolved"}
          /\ UNCHANGED <<tries, clean, out, outputs>> /\ outputs[Base[current]] = current
       \/ command = "scan" /\ phase' = "listed" /\ UNCHANGED <<tries, clean, out, outputs>>
       \/ phase' = "aborted" /\ UNCHANGED <<tries, clean, out, outputs>>

\* A step of the call is one of them.
LEMMA CallSteps ==
    ASSUME Inv, RunStep \/ RunInterrupted
    PROVE  CallGoesOn
  <1>1. /\ current \in Files /\ Base[current] \in Names
        /\ outputs \in [Names -> Files \cup {Absent, Stale, Partial}]
        /\ dryRun <=> command = "scan"
    BY Marks DEF RunStep, RunInterrupted, Inv, TypeOK
  <1>2. current # None
    BY <1>1, Marks
  <1>3. phase = "working" /\ UNCHANGED <<dryRun, limit>>
    BY DEF RunStep, RunInterrupted, Run!Try, Run!Write, Run!Deliver, Run!List, Run!Abort
  <1>4. /\ out \in {Absent, Stale, Partial} \cup Nat
        /\ out \in Nat => outputs[Base[current]] = current
        /\ out = Partial => outputs[Base[current]] = Partial
    BY <1>2 DEF Inv, RunInv
  <1>5. ASSUME out' = out, outputs' = [outputs EXCEPT ![Base[current]] = Landed]
        PROVE  outputs' = outputs
    <2>1. Landed = outputs[Base[current]]
      BY <1>4, <1>5 DEF Landed
    <2> QED
      BY <1>1, <1>5, <2>1
  <1>6. CASE RunStep /\ Run!Try
    <2>1. out' = out /\ ~Run!Final
      <3>1. out' = out /\ ~clean /\ tries < Run!Attempts
        BY <1>6 DEF Run!Try
      <3>2. tries \in Int /\ Run!Attempts \in Int
        BY AttemptsAreCounted DEF Inv, TypeOK
      <3> QED
        BY <3>1, <3>2 DEF Run!Final
    <2>2. outputs' = outputs
      BY <1>5, <1>6, <2>1 DEF RunStep
    <2> QED
      BY <1>1, <1>3, <1>6, <2>1, <2>2 DEF Run!Try, CallGoesOn
  <1>7. CASE RunStep /\ Run!Write
    <2>1. Run!Final /\ phase' = "working" /\ UNCHANGED <<tries, clean>> /\ out' \in {Partial, tries - 1}
      BY <1>7 DEF Run!Write
    <2>2. tries \in Nat /\ tries > 0
      BY <2>1, AttemptsAreCounted DEF Run!Final, Inv, TypeOK
    <2>3. command # "scan"
      BY <2>2 DEF Inv, RunInv
    <2>4. outputs' = [outputs EXCEPT ![Base[current]] = Landed]
      BY <1>7 DEF RunStep
    <2>5. CASE out' = tries - 1
      <3>1. out' \in Nat
        BY <2>2, <2>5
      <3>2. Landed = current
        BY <3>1 DEF Landed
      <3> QED
        BY <1>1, <1>3, <2>1, <2>3, <2>4, <3>1, <3>2 DEF CallGoesOn
    <2>6. CASE out' = Partial
      <3>1. Landed = Partial
        BY <2>6, Marks DEF Landed
      <3> QED
        BY <1>1, <1>3, <2>1, <2>3, <2>4, <2>6, <3>1 DEF CallGoesOn
    <2> QED
      BY <2>1, <2>5, <2>6
  <1>8. CASE RunStep /\ Run!Deliver
    <2>1. Run!Final /\ phase' \in {"resolved", "unresolved"} /\ UNCHANGED <<tries, clean, out>> /\ out = tries - 1
      BY <1>8 DEF Run!Deliver
    <2>2. tries \in Nat /\ tries > 0
      BY <2>1, AttemptsAreCounted DEF Run!Final, Inv, TypeOK
    <2>3. command # "scan" /\ out \in Nat
      BY <2>1, <2>2 DEF Inv, RunInv
    <2>4. outputs' = outputs
      BY <1>5, <1>8, <2>1 DEF RunStep
    <2> QED
      BY <1>1, <1>3, <1>4, <2>1, <2>3, <2>4 DEF CallGoesOn
  <1>9. CASE RunStep /\ Run!List
    <2>1. phase' = "listed" /\ UNCHANGED <<tries, clean, out>> /\ command = "scan"
      BY <1>1, <1>9 DEF Run!List
    <2>2. outputs' = outputs
      BY <1>5, <1>9, <2>1 DEF RunStep
    <2> QED
      BY <1>1, <1>3, <2>1, <2>2 DEF CallGoesOn
  <1>10. CASE RunStep /\ Run!Abort
    <2>1. phase' = "aborted" /\ UNCHANGED <<tries, clean, out>>
      BY <1>10 DEF Run!Abort
    <2>2. outputs' = outputs
      BY <1>5, <1>10, <2>1 DEF RunStep
    <2> QED
      BY <1>1, <1>3, <2>1, <2>2 DEF CallGoesOn
  <1>11. CASE RunInterrupted
    BY <1>1, <1>3, <1>11 DEF RunInterrupted, Run!Abort, CallGoesOn
  <1> QED
    BY <1>6, <1>7, <1>8, <1>9, <1>10, <1>11 DEF RunStep

LEMMA CallKeepsInv ==
    ASSUME Inv, RunStep \/ RunInterrupted
    PROVE  Inv'
  <1>1. CallGoesOn
    BY CallSteps
  <1>2. /\ exit = None /\ UNCHANGED <<command, todo, current, manifest, reports, outcome>>
        /\ UNCHANGED <<unresolved_count, failed_count>>
        /\ \/ exit' = None /\ said' = said
           \/ exit' = "one" /\ said' = "aborted"
    BY DEF RunStep, RunInterrupted, counts
  <1>3. Run!Attempts' = Run!Attempts /\ Run!Attempts \in Nat
    BY <1>1, AttemptsAreCounted DEF CallGoesOn, Run!Attempts, Run!Max, Inv
  <1>4. /\ outputs' \in [Names -> Files \cup {Absent, Stale, Partial}]
        /\ \A n \in Names : n # Base[current] => outputs'[n] = outputs[n]
        /\ Base[current] \in Names /\ current \in Files /\ current # None
    BY <1>1, Marks DEF CallGoesOn, Inv, TypeOK
  <1>5. /\ out' \in {Absent, Stale, Partial} \cup Nat
        /\ out' \in Nat => outputs'[Base[current]] = current
        /\ out' = Partial => outputs'[Base[current]] = Partial
        /\ phase' \in {"resolved", "unresolved"} => outputs'[Base[current]] = current
    BY <1>1, <1>4, Marks DEF CallGoesOn, Inv, TypeOK, RunInv
  <1>6. ASSUME ~Run!Final' PROVE ~Run!Final /\ UNCHANGED <<out, outputs>>
    <2>1. ASSUME UNCHANGED <<tries, clean>> PROVE Run!Final' = Run!Final
      BY <1>1, <1>3, <2>1 DEF Run!Final
    <2> QED
      BY <1>1, <1>6, <2>1 DEF CallGoesOn
  <1>7. TypeOK'
    <2>1. tries \in 0 .. Run!Attempts
      BY DEF Inv, TypeOK
    <2>2. tries' \in 0 .. Run!Attempts'
      BY <1>1, <1>3, <2>1 DEF CallGoesOn
    <2>3. clean' \in BOOLEAN /\ phase' \in {"working", "listed", "resolved", "unresolved", "aborted"}
      BY <1>1 DEF CallGoesOn, Inv, TypeOK
    <2>4. UNCHANGED <<dryRun, limit>>
      BY <1>1 DEF CallGoesOn
    <2> QED
      BY <1>2, <1>4, <2>2, <2>3, <2>4 DEF Inv, TypeOK
  <1>8. RunInv'
    <2>1. phase = "working" /\ (command = "scan" => tries' = tries /\ phase' \notin {"resolved", "unresolved"})
      BY <1>1 DEF CallGoesOn
    <2>2. phase' = "listed" => command = "scan"
      BY <1>1 DEF CallGoesOn
    <2>3. (phase' = "working" /\ ~Run!Final') => out' \in {Absent, Stale}
      BY <1>6, <2>1 DEF Inv, RunInv
    <2> QED
      BY <1>2, <1>4, <1>5, <2>1, <2>2, <2>3 DEF Inv, RunInv
  <1>9. OutputInv'
    <2>1. phase = "working"
      BY <1>1 DEF CallGoesOn
    <2>2. manifest \in {Absent, Stale}
      BY <2>1 DEF Inv, OutputInv
    <2> QED
      BY <1>2, <1>6, <2>2 DEF Inv, OutputInv
  <1>10. LatestInv'
    <2> SUFFICES ASSUME NEW f \in Files, outcome[f] # None, Base[current] # Base[f]
                 PROVE  \E g \in Files : Base[g] = Base[f] /\ Tells(g)'
      BY <1>2, <1>4 DEF LatestInv
    <2>1. PICK g \in Files : Base[g] = Base[f] /\ Tells(g)
      BY DEF Inv, LatestInv
    <2>2. outputs'[Base[g]] = outputs[Base[g]]
      BY <1>4, <2>1, Marks
    <2> QED
      BY <1>2, <2>1, <2>2 DEF Tells
  <1>11. CountInv'
    BY <1>2, NoneIsNoEnd DEF Inv, CountInv, Ended
  <1>12. ExitTells'
    BY <1>2, NoneIsNoEnd DEF Inv, CountInv, ExitTells
  <1> QED
    BY <1>7, <1>8, <1>9, <1>10, <1>11, <1>12 DEF Inv

-----------------------------------------------------------------------------
\* Before a command has come to its file there is no manifest of its.
LEMMA ListedIsCurrent ==
    ASSUME Inv, exit = None, current = None
    PROVE  manifest \in {Absent, Stale}
  BY DEF Inv, RunInv, OutputInv

\* The command comes to its next file.
LEMMA TakeKeepsInv ==
    ASSUME Inv, NEW f \in Files, Take(f)
    PROVE  Inv'
  <1>1. /\ exit = None /\ current = None /\ f \in todo /\ todo' = todo \ {f} /\ current' = f
        /\ tries' = 0 /\ clean' = FALSE /\ phase' = "working" /\ out' \in {Absent, Stale}
        /\ UNCHANGED <<command, outputs, manifest, reports, exit, said, outcome, dryRun, limit>>
        /\ UNCHANGED <<unresolved_count, failed_count>>
    BY DEF Take, counts
  <1>2. Run!Attempts' = Run!Attempts /\ Run!Attempts \in Nat
    BY <1>1, AttemptsAreCounted DEF Run!Attempts, Run!Max, Inv
  <1>3. TypeOK'
    <2>1. tries' \in 0 .. Run!Attempts'
      BY <1>1, <1>2
    <2>2. clean' \in BOOLEAN
      BY <1>1
    <2> QED
      BY <1>1, <2>1, <2>2 DEF Inv, TypeOK
  <1>4. RunInv'
    BY <1>1, Marks DEF Inv, RunInv
  <1>5. OutputInv'
    <2>1. command # "batch" => \A n \in Names : outputs[n] \in {Absent, Stale}
      BY <1>1 DEF Inv, RunInv, OutputInv, Run!Final
    <2>2. manifest \in {Absent, Stale}
      BY <1>1, ListedIsCurrent
    <2> QED
      BY <1>1, <2>1, <2>2 DEF OutputInv
  <1>6. CountInv'
    <2>1. /\ unresolved_count' = Cardinality(Ended("unresolved"))'
          /\ failed_count' = Cardinality(Ended("failed"))'
      BY <1>1, NoneIsNoEnd DEF Inv, CountInv, Ended
    <2> QED
      BY <1>1, <2>1, Marks DEF Inv, CountInv
  <1>7. LatestInv'
    BY <1>1 DEF Inv, LatestInv, Tells
  <1>8. ExitTells'
    BY <1>1, NoneIsNoEnd DEF Inv, CountInv, ExitTells
  <1> QED
    BY <1>3, <1>4, <1>5, <1>6, <1>7, <1>8 DEF Inv

\* The commands end in one of their ways, between two files or after the call.
\* Only the manifest may be written.
LEMMA EndKeepsInv ==
    ASSUME Inv, exit = None,
           UNCHANGED <<command, todo, current, outputs, reports, counts, outcome, run>>,
           (exit' = None /\ said' = None)
             \/ (exit' \in {"zero", "one"} /\ said' \in {"summary", "answer", "error", "traceback", "aborted"}),
           manifest' = manifest
             \/ (manifest' \in {Partial, current} /\ phase = "listed" /\ current # None),
           ExitTells'
    PROVE  Inv'
  <1>1. /\ UNCHANGED <<dryRun, limit, tries, clean, phase, out, unresolved_count, failed_count>>
        /\ UNCHANGED <<command, todo, current, outputs, reports, outcome>>
    BY DEF run, counts
  <1>2. manifest' \notin {Absent, Stale} =>
            command = "scan" /\ phase = "listed" /\ manifest' \in {Partial, current}
    BY DEF Inv, RunInv, OutputInv
  <1>3. TypeOK'
    <2>1. manifest' \in Files \cup {Absent, Stale, Partial}
      BY DEF Inv, TypeOK
    <2>2. Run!Attempts' = Run!Attempts
      BY <1>1 DEF Run!Attempts, Run!Max
    <2> QED
      BY <1>1, <2>1, <2>2 DEF Inv, TypeOK
  <1>4. Run!Final' = Run!Final
    BY <1>1 DEF Run!Final, Run!Attempts, Run!Max
  <1>5. RunInv'
    BY <1>1, <1>4 DEF Inv, RunInv
  <1>6. OutputInv'
    BY <1>1, <1>2, <1>4 DEF Inv, OutputInv
  <1>7. CountInv' /\ LatestInv'
    BY <1>1, NoneIsNoEnd DEF Inv, CountInv, Ended, LatestInv, Tells
  <1> QED
    BY <1>3, <1>5, <1>6, <1>7 DEF Inv

\* The report of the current file of a batch, and the count: also if the
\* command breaks off right then.
LEMMA ReportingFacts ==
    ASSUME Inv, Reporting
    PROVE  /\ command = "batch" /\ exit = None /\ current \in Files /\ Base[current] \in Names
           /\ outcome[current] = None /\ current \notin todo
           /\ Says \in Outcomes /\ (Says = "failed" <=> phase = "aborted")
           /\ (Says # "failed" => outputs[Base[current]] = current)
           /\ unresolved_count = Cardinality(Ended("unresolved")) /\ failed_count = Cardinality(Ended("failed"))
           /\ unresolved_count + 1 \in 0 .. Cardinality(Files)
           /\ failed_count + 1 \in 0 .. Cardinality(Files)
  <1>1. /\ command = "batch" /\ exit = None /\ current \in Files /\ phase # "working"
        /\ outcome[current] = None /\ current \notin todo /\ Base[current] \in Names
    BY Marks DEF Reporting, Inv, TypeOK, CountInv
  <1>2. phase \in {"resolved", "unresolved", "aborted"}
    BY <1>1 DEF Inv, TypeOK, RunInv
  <1>3. Says \in Outcomes /\ (Says = "failed" <=> phase = "aborted")
    BY <1>2 DEF Says, Outcomes
  <1>4. Says # "failed" => outputs[Base[current]] = current
    BY <1>1, <1>2, <1>3, Marks DEF Inv, RunInv
  <1>5. unresolved_count = Cardinality(Ended("unresolved")) /\ failed_count = Cardinality(Ended("failed"))
    BY <1>1, NoneIsNoEnd DEF Inv, CountInv
  <1>6. outcome[current] # "unresolved" /\ outcome[current] # "failed"
    BY <1>1, NoneIsNoEnd
  <1>7. /\ unresolved_count \in Nat /\ unresolved_count + 1 <= Cardinality(Files)
        /\ failed_count \in Nat /\ failed_count + 1 <= Cardinality(Files) /\ Cardinality(Files) \in Nat
    BY <1>1, <1>5, <1>6, Counted
  <1>8. unresolved_count + 1 \in 0 .. Cardinality(Files) /\ failed_count + 1 \in 0 .. Cardinality(Files)
    BY ONLY <1>7
  <1> QED
    BY <1>1, <1>3, <1>4, <1>5, <1>8

LEMMA ReportKeepsInv ==
    ASSUME Inv, Report
    PROVE  Inv'
  <1>1. PICK c : c = current
    OBVIOUS
  <1>2. PICK says : says = Says
    OBVIOUS
  <1>3. /\ command = "batch" /\ exit = None /\ c \in Files /\ Base[c] \in Names
        /\ outcome[c] = None /\ c \notin todo
        /\ says \in Outcomes /\ (says # "failed" => outputs[Base[c]] = c)
        /\ unresolved_count = Cardinality(Ended("unresolved")) /\ failed_count = Cardinality(Ended("failed"))
        /\ unresolved_count + 1 \in 0 .. Cardinality(Files) /\ failed_count + 1 \in 0 .. Cardinality(Files)
    BY <1>1, <1>2, ReportingFacts DEF Report
  <1>4. /\ unresolved_count' = unresolved_count + (IF says = "unresolved" THEN 1 ELSE 0)
        /\ failed_count' = failed_count + (IF says = "failed" THEN 1 ELSE 0)
        /\ reports' = [reports EXCEPT ![Base[c]] = [of |-> c, says |-> says]]
        /\ outcome' = [outcome EXCEPT ![c] = says] /\ current' = None
        /\ UNCHANGED <<command, todo, outputs, manifest, exit, said>>
        /\ UNCHANGED <<dryRun, limit, tries, clean, phase, out>>
    BY <1>1, <1>2 DEF Report, Count, Told, run
  <1>5. /\ \A g \in Files : outcome'[g] = IF g = c THEN says ELSE outcome[g]
        /\ outcome' \in [Files -> Outcomes \cup {None}]
    BY <1>3, <1>4 DEF Inv, TypeOK
  <1>6. says # None
    BY <1>3, NoneIsNoEnd DEF Outcomes
  <1>7. TypeOK'
    <2>1. [of |-> c, says |-> says] \in Document
      BY <1>3 DEF Document
    <2>2. reports' \in [Names -> Document]
      BY <1>4, <2>1 DEF Inv, TypeOK
    <2>3. unresolved_count \in 0 .. Cardinality(Files) /\ failed_count \in 0 .. Cardinality(Files)
      BY DEF Inv, TypeOK
    <2>4. unresolved_count' \in 0 .. Cardinality(Files) /\ failed_count' \in 0 .. Cardinality(Files)
      BY <1>3, <1>4, <2>3
    <2>5. Run!Attempts' = Run!Attempts
      BY <1>4 DEF Run!Attempts, Run!Max
    <2> QED
      BY <1>4, <1>5, <2>2, <2>4, <2>5 DEF Inv, TypeOK
  <1>13. Run!Final' = Run!Final
    BY <1>4 DEF Run!Final, Run!Attempts, Run!Max
  <1>8. RunInv'
    BY <1>3, <1>4, <1>13 DEF Inv, RunInv
  <1>9. OutputInv'
    <2>1. manifest \in {Absent, Stale}
      BY <1>3 DEF Inv, OutputInv
    <2> QED
      BY <1>3, <1>4, <2>1 DEF OutputInv
  <1>10. CountInv'
    <2>1. /\ Ended("unresolved")' = IF says = "unresolved" THEN Ended("unresolved") \cup {c} ELSE Ended("unresolved")
          /\ Ended("failed")' = IF says = "failed" THEN Ended("failed") \cup {c} ELSE Ended("failed")
      BY <1>3, <1>4, OutcomeTold DEF Inv, Outcomes
    <2>2. outcome[c] # "unresolved" /\ outcome[c] # "failed"
      BY <1>3, NoneIsNoEnd
    <2>3. /\ Cardinality(Ended("unresolved") \cup {c}) = Cardinality(Ended("unresolved")) + 1
          /\ Cardinality(Ended("failed") \cup {c}) = Cardinality(Ended("failed")) + 1
          /\ Cardinality(Ended("unresolved")) \in Nat /\ Cardinality(Ended("failed")) \in Nat
      BY <1>3, <2>2, Counted
    <2>4. unresolved_count' = Cardinality(Ended("unresolved"))'
      <3>1. CASE says = "unresolved"
        <4>1. unresolved_count' = unresolved_count + 1
          BY <1>4, <3>1
        <4>2. Ended("unresolved")' = Ended("unresolved") \cup {c}
          BY <2>1, <3>1
        <4> QED
          BY ONLY <1>3, <2>3, <4>1, <4>2
      <3>2. CASE says # "unresolved"
        <4>1. unresolved_count' = unresolved_count + 0
          BY <1>4, <3>2
        <4>2. Ended("unresolved")' = Ended("unresolved")
          BY <2>1, <3>2
        <4> QED
          BY ONLY <1>3, <2>3, <4>1, <4>2
      <3> QED
        BY <3>1, <3>2
    <2>5. failed_count' = Cardinality(Ended("failed"))'
      <3>1. CASE says = "failed"
        <4>1. failed_count' = failed_count + 1
          BY <1>4, <3>1
        <4>2. Ended("failed")' = Ended("failed") \cup {c}
          BY <2>1, <3>1
        <4> QED
          BY ONLY <1>3, <2>3, <4>1, <4>2
      <3>2. CASE says # "failed"
        <4>1. failed_count' = failed_count + 0
          BY <1>4, <3>2
        <4>2. Ended("failed")' = Ended("failed")
          BY <2>1, <3>2
        <4> QED
          BY ONLY <1>3, <2>3, <4>1, <4>2
      <3> QED
        BY <3>1, <3>2
    <2>6. \A g \in todo : outcome'[g] = None
      BY <1>3, <1>5 DEF Inv, CountInv, TypeOK
    <2>7. \A g \in Files : outcome'[g] = None => g \in todo
      BY <1>1, <1>3, <1>5, <1>6 DEF Inv, CountInv
    <2>8. said' = None /\ None \notin Files
      BY <1>3, <1>4, Marks DEF Inv, CountInv
    <2> QED
      BY <1>4, <2>4, <2>5, <2>6, <2>7, <2>8 DEF CountInv
  <1>11. LatestInv'
    <2> SUFFICES ASSUME NEW f \in Files, outcome'[f] # None
                 PROVE  \E g \in Files : Base[g] = Base[f] /\ Tells(g)'
      BY DEF LatestInv
    <2>1. reports \in [Names -> Document]
      BY DEF Inv, TypeOK
    <2>2. CASE Base[f] = Base[c]
      <3>1. reports'[Base[c]] = [of |-> c, says |-> says] /\ outcome'[c] = says
        BY <1>3, <1>4, <1>5, <2>1
      <3>2. Tells(c)'
        BY <1>3, <1>4, <1>6, <3>1 DEF Tells
      <3> QED
        BY <1>3, <2>2, <3>2
    <2>3. CASE Base[f] # Base[c]
      <3>1. outcome[f] # None
        BY <1>5, <2>3
      <3>2. PICK g \in Files : Base[g] = Base[f] /\ Tells(g)
        BY <1>1, <2>3, <3>1 DEF Inv, LatestInv
      <3>3. outcome'[g] = outcome[g] /\ Base[g] \in Names
        BY <1>5, <2>3, <3>2, Marks
      <3>4. reports'[Base[g]] = reports[Base[g]]
        BY <1>3, <1>4, <2>1, <2>3, <3>2, <3>3
      <3> QED
        BY <1>4, <3>2, <3>3, <3>4 DEF Tells
    <2> QED
      BY <2>2, <2>3
  <1>12. ExitTells'
    BY <1>3, <1>4, NoneIsNoEnd DEF Inv, CountInv, ExitTells
  <1> QED
    BY <1>7, <1>8, <1>9, <1>10, <1>11, <1>12 DEF Inv

\* The report of the current file breaks off: it told of that file only.
LEMMA ReportRaisesKeepsInv ==
    ASSUME Inv, ReportRaises
    PROVE  Inv'
  <1>1. PICK c : c = current
    OBVIOUS
  <1>2. PICK says : says = Says
    OBVIOUS
  <1>3. /\ command = "batch" /\ exit = None /\ c \in Files /\ Base[c] \in Names /\ outcome[c] = None
        /\ says \in Outcomes
        /\ unresolved_count + 1 \in 0 .. Cardinality(Files) /\ failed_count + 1 \in 0 .. Cardinality(Files)
    BY <1>1, <1>2, ReportingFacts DEF ReportRaises
  <1>4. /\ reports' \in {reports, [reports EXCEPT ![Base[c]] = Partial],
                         [reports EXCEPT ![Base[c]] = [of |-> c, says |-> says]]}
        /\ unresolved_count' \in {unresolved_count, unresolved_count + 1}
        /\ failed_count' \in {failed_count, failed_count + 1}
    <2>1. \/ /\ reports' = [reports EXCEPT ![Base[c]] = [of |-> c, says |-> says]]
             /\ unresolved_count' = unresolved_count + (IF says = "unresolved" THEN 1 ELSE 0)
             /\ failed_count' = failed_count + (IF says = "failed" THEN 1 ELSE 0)
          \/ /\ reports' \in {reports, [reports EXCEPT ![Base[c]] = Partial]}
             /\ failed_count' = failed_count + (IF says = "failed" THEN 1 ELSE 0)
             /\ unresolved_count' = unresolved_count
      BY <1>1, <1>2 DEF ReportRaises, Count, Told
    <2>2. unresolved_count \in Nat /\ failed_count \in Nat
      BY DEF Inv, TypeOK
    <2> QED
      BY <2>1, <2>2
  <1>5. /\ exit' = "one" /\ said' \in {"traceback", "aborted"}
        /\ UNCHANGED <<command, todo, current, outputs, manifest, outcome>>
        /\ UNCHANGED <<dryRun, limit, tries, clean, phase, out>>
    BY DEF ReportRaises, Dies, run
  <1>6. TypeOK'
    <2>1. [of |-> c, says |-> says] \in Document /\ Partial \in Document
      BY <1>3 DEF Document
    <2>2. reports' \in [Names -> Document]
      BY <1>4, <2>1 DEF Inv, TypeOK
    <2>3. unresolved_count' \in 0 .. Cardinality(Files) /\ failed_count' \in 0 .. Cardinality(Files)
      BY <1>3, <1>4 DEF Inv, TypeOK
    <2>4. Run!Attempts' = Run!Attempts
      BY <1>5 DEF Run!Attempts, Run!Max
    <2> QED
      BY <1>5, <2>2, <2>3, <2>4 DEF Inv, TypeOK
  <1>12. Run!Final' = Run!Final
    BY <1>5 DEF Run!Final, Run!Attempts, Run!Max
  <1>7. RunInv'
    BY <1>5, <1>12 DEF Inv, RunInv
  <1>8. OutputInv'
    BY <1>3, <1>5 DEF Inv, OutputInv
  <1>9. CountInv'
    BY <1>5, NoneIsNoEnd DEF Inv, CountInv
  <1>10. LatestInv'
    <2> SUFFICES ASSUME NEW f \in Files, outcome[f] # None, Base[c] # Base[f]
                 PROVE  \E g \in Files : Base[g] = Base[f] /\ Tells(g)'
      BY <1>1, <1>3, <1>5, Marks DEF LatestInv
    <2>1. PICK g \in Files : Base[g] = Base[f] /\ Tells(g)
      BY <1>1 DEF Inv, LatestInv
    <2>2. reports'[Base[g]] = reports[Base[g]]
      BY <1>4, <2>1, Marks DEF Inv, TypeOK
    <2> QED
      BY <1>5, <2>1, <2>2 DEF Tells
  <1>11. ExitTells'
    BY <1>5 DEF ExitTells
  <1> QED
    BY <1>6, <1>7, <1>8, <1>9, <1>10, <1>11 DEF Inv

-----------------------------------------------------------------------------
\* The summary: both counts are zero just when every file was cleared.
LEMMA SummariseTells ==
    ASSUME Inv, Summarise
    PROVE  ExitTells'
  <1>1. /\ command = "batch" /\ exit = None /\ current = None /\ todo = {}
        /\ exit' = (IF unresolved_count > 0 \/ failed_count > 0 THEN "one" ELSE "zero")
        /\ said' = "summary" /\ UNCHANGED <<command, outcome, outputs, reports>>
    BY DEF Summarise
  <1>2. /\ unresolved_count = Cardinality(Ended("unresolved")) /\ failed_count = Cardinality(Ended("failed"))
        /\ unresolved_count \in Nat /\ failed_count \in Nat
    BY <1>1, NoneIsNoEnd DEF Inv, CountInv, TypeOK
  <1>3. \A f \in Files : outcome[f] # None /\ outcome[f] \in Outcomes
    BY <1>1, Marks DEF Inv, CountInv, TypeOK
  <1>4. exit' = "zero" <=> Ended("unresolved") = {} /\ Ended("failed") = {}
    <2>1. exit' = "zero" <=> unresolved_count = 0 /\ failed_count = 0
      BY <1>1, <1>2
    <2> QED
      BY <1>2, <2>1, Counted
  <1>5. (Ended("unresolved") = {} /\ Ended("failed") = {}) <=> \A f \in Files : outcome[f] = "resolved"
    BY <1>3 DEF Ended, Outcomes
  <1>6. ASSUME exit' = "zero", NEW n \in Names
        PROVE  \E f \in Files : /\ Base[f] = n /\ outputs[n] = f
                               /\ reports[n] = [of |-> f, says |-> "resolved"]
    <2>1. PICK f \in Files : Base[f] = n
      BY DEF Names
    <2>2. PICK g \in Files : Base[g] = n /\ Tells(g)
      BY <1>1, <1>3, <2>1 DEF Inv, LatestInv
    <2>3. outcome[g] = "resolved"
      BY <1>4, <1>5, <1>6
    <2> QED
      BY <2>2, <2>3 DEF Tells
  <1>7. exit' = "one" <=> exit' # "zero"
    BY <1>1
  <1> QED
    BY <1>1, <1>3, <1>4, <1>5, <1>6, <1>7 DEF ExitTells, ZeroTells

\* What the end of run and of scan tells.
LEMMA RefuseTells ==
    ASSUME Inv, Refuse
    PROVE  ExitTells'
  <1>1. /\ command # "batch" /\ phase = "aborted" /\ current \in Files /\ Base[current] \in Names
        /\ exit' = "one" /\ said' \in {"error", "traceback", "aborted"}
        /\ said' = "error" => ~Run!Final
        /\ UNCHANGED <<command, current, outputs, manifest>>
    BY Marks DEF Refuse, Called, Dies, Inv, TypeOK
  <1>2. said' = "error" => outputs[Base[current]] \in {Absent, Stale}
    BY <1>1 DEF Inv, OutputInv
  <1>3. manifest \in {Absent, Stale}
    BY <1>1 DEF Inv, OutputInv
  <1> QED
    BY <1>1, <1>2, <1>3 DEF ExitTells

LEMMA AnswerTells ==
    ASSUME Inv, Answer
    PROVE  ExitTells'
  <1>1. /\ command \in {"run", "scan"} /\ current # None /\ exit' = "zero" /\ said' = "answer"
        /\ phase \in {"resolved", "unresolved"} \/ (phase = "listed" /\ manifest = current)
        /\ UNCHANGED <<command, current, outputs, manifest>>
    BY DEF Answer, Called, Inv, TypeOK
  <1>2. command = "run" => outputs[Base[current]] = current
    BY <1>1 DEF Inv, RunInv
  <1>3. command = "scan" => manifest = current /\ \A n \in Names : outputs[n] \in {Absent, Stale}
    BY <1>1 DEF Inv, RunInv, OutputInv, Run!Final
  <1> QED
    BY <1>1, <1>2, <1>3 DEF ExitTells, ZeroTells

LEMMA InitEstablishesInv == Init => Inv
  <1> SUFFICES ASSUME Init PROVE Inv
    OBVIOUS
  <1>0. todo \subseteq Files /\ (command = "batch" => todo = Files)
    BY DEF Init
  <1>1. /\ command \in {"batch", "run", "scan"} /\ todo \subseteq Files /\ current = None /\ exit = None /\ said = None
        /\ outputs \in [Names -> {Absent, Stale}] /\ manifest \in {Absent, Stale}
        /\ reports \in [Names -> {Absent, Stale}] /\ unresolved_count = 0 /\ failed_count = 0
        /\ outcome = [f \in Files |-> None] /\ dryRun = (command = "scan") /\ limit \in Limits
        /\ tries = 0 /\ clean \in BOOLEAN /\ phase = "working" /\ out \in {Absent, Stale}
        /\ command = "batch" => todo = Files
    BY <1>0 DEF Init, Run!Init
  <1>2. Cardinality(Files) \in Nat
    BY FilesAreFinite, FS_CardinalityType
  <1>3. Run!Attempts \in Nat
    <2>1. limit \in Int
      BY <1>1, LimitsAreIntegers
    <2>2. \E m \in {0, limit} : \A x \in {0, limit} : m >= x
      <3>1. CASE limit > 0
        BY <2>1, <3>1
      <3>2. CASE ~(limit > 0)
        BY <2>1, <3>2
      <3> QED
        BY <3>1, <3>2
    <2>3. Run!Max({0, limit}) \in {0, limit} /\ \A x \in {0, limit} : Run!Max({0, limit}) >= x
      BY <2>2 DEF Run!Max
    <2> QED
      BY <2>1, <2>3 DEF Run!Attempts
  <1>4. TypeOK
    BY <1>1, <1>2, <1>3 DEF TypeOK, Document
  <1>5. RunInv
    BY <1>1 DEF RunInv
  <1>6. OutputInv
    BY <1>1 DEF OutputInv
  <1>7. CountInv
    <2>1. Ended("unresolved") = {} /\ Ended("failed") = {}
      BY <1>1, NoneIsNoEnd DEF Ended
    <2> QED
      BY <1>1, <2>1, FS_EmptySet DEF CountInv
  <1>8. LatestInv /\ ExitTells
    BY <1>1, NoneIsNoEnd DEF LatestInv, ExitTells
  <1> QED
    BY <1>4, <1>5, <1>6, <1>7, <1>8 DEF Inv

LEMMA NextKeepsInv == Inv /\ [Next]_vars => Inv'
  <1> SUFFICES ASSUME Inv, [Next]_vars PROVE Inv'
    OBVIOUS
  <1>1. CASE RunStep \/ RunInterrupted
    BY <1>1, CallKeepsInv
  <1>0. exit = None => said = None
    BY DEF Inv, CountInv
  <1>3. CASE Summarise
    <2>1. ExitTells' /\ exit' \in {"zero", "one"} /\ said' = "summary"
      BY <1>3, SummariseTells DEF Summarise
    <2> QED
      BY <1>3, <2>1, EndKeepsInv DEF Summarise
  <1>4. CASE WriteManifest
    <2>1. ExitTells' /\ exit' = None /\ said' = None
      BY <1>0, <1>4, NoneIsNoEnd DEF WriteManifest, Called, ExitTells
    <2> QED
      BY <1>4, <2>1, EndKeepsInv DEF WriteManifest, Called
  <1>5. CASE Refuse
    <2>1. exit = None /\ exit' = "one" /\ said' \in {"error", "traceback", "aborted"}
      BY <1>5 DEF Refuse, Called, Dies
    <2> QED
      BY <1>5, <2>1, RefuseTells, EndKeepsInv DEF Refuse
  <1>6. CASE Answer
    BY <1>6, AnswerTells, EndKeepsInv DEF Answer, Called
  <1>7. CASE Breaks
    <2>1. ExitTells' /\ exit' = "one" /\ said' \in {"traceback", "aborted"}
      BY <1>7 DEF Breaks, Dies, ExitTells
    <2> QED
      BY <1>7, <2>1, EndKeepsInv DEF Breaks
  <1>8. CASE AnswerRaises
    <2>1. ExitTells' /\ exit' = "one" /\ said' \in {"traceback", "aborted"}
      BY <1>8 DEF AnswerRaises, Dies, ExitTells
    <2>2. /\ exit = None /\ current # None
          /\ manifest' = manifest \/ (manifest' = Partial /\ phase = "listed")
      BY <1>8 DEF AnswerRaises, Called
    <2> QED
      BY <1>8, <2>1, <2>2, EndKeepsInv DEF AnswerRaises
  <1>9. CASE UNCHANGED vars
    <2>1. /\ UNCHANGED <<command, todo, current, outputs, manifest, reports, exit, said, outcome>>
          /\ UNCHANGED <<unresolved_count, failed_count, dryRun, limit, tries, clean, phase, out>>
      BY <1>9 DEF vars, counts, run
    <2>2. Run!Attempts' = Run!Attempts /\ Run!Final' = Run!Final
      BY <2>1 DEF Run!Attempts, Run!Final, Run!Max
    <2>3. TypeOK' /\ RunInv' /\ OutputInv'
      BY <2>1, <2>2 DEF Inv, TypeOK, RunInv, OutputInv
    <2>4. CountInv' /\ LatestInv'
      BY <2>1 DEF Inv, CountInv, Ended, LatestInv, Tells
    <2>5. ZeroTells' = ZeroTells
      BY <2>1 DEF ZeroTells
    <2>6. ExitTells'
      BY <2>1, <2>5 DEF Inv, ExitTells
    <2> QED
      BY <2>3, <2>4, <2>6 DEF Inv
  <1> QED
    BY <1>1, <1>3, <1>4, <1>5, <1>6, <1>7, <1>8, <1>9, TakeKeepsInv, ReportKeepsInv,
       ReportRaisesKeepsInv DEF Next

LEMMA InvHolds == Spec => []Inv
  BY InitEstablishesInv, NextKeepsInv, PTL DEF Spec

\* The variables have their types: no count exceeds the number of files, no
\* run makes more attempts than its policy allows.
THEOREM Typed == Spec => []TypeOK
  <1>1. Inv => TypeOK
    BY DEF Inv
  <1> QED
    BY <1>1, InvHolds, PTL

\* Status 0 means of a batch that under each name lie the redaction and the
\* report of one and the same file, whose redaction was clean; of run and scan,
\* that the output or manifest is this file's.  A summary counts right, and an
\* error message comes with files that were not touched.
THEOREM Truthful == Spec => []ExitTells
  <1>1. Inv => ExitTells
    BY DEF Inv
  <1> QED
    BY <1>1, InvHolds, PTL

\* A file with a base name of its own keeps its report and its output, which
\* agree with the outcome of its run, whatever the rest of the batch does.
THEOREM Separate == Spec => []ReportMatchesOutput
  <1>1. Inv => ReportMatchesOutput
    <2> SUFFICES ASSUME Inv, NEW f \in Files, outcome[f] # None, \A g \in Files \ {f} : Base[g] # Base[f]
                 PROVE  Tells(f)
      BY DEF ReportMatchesOutput, Tells
    <2>1. current # None => Base[current] # Base[f]
      BY DEF Inv, CountInv, TypeOK
    <2>2. PICK g \in Files : Base[g] = Base[f] /\ Tells(g)
      BY <2>1 DEF Inv, LatestInv
    <2> QED
      BY <2>2
  <1> QED
    BY <1>1, InvHolds, PTL
=============================================================================
