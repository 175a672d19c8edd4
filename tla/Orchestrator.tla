---------------------------- MODULE Orchestrator ----------------------------
(***************************************************************************)
(* Orchestrator.scan() and Orchestrator.run() of                           *)
(* redactguard_core/pipeline/orchestrator.py on one file: detect, vote,    *)
(* redact, verify, escalate and retry, deliver.                            *)
(*                                                                         *)
(* What the detectors find, and what the verifier still sees in a draft,   *)
(* is chosen by the environment: neither is a function the code controls.  *)
(* Every stage may raise an Exception (a failing tool, a full disk, an     *)
(* on_progress callback that raises) and may be interrupted (a             *)
(* KeyboardInterrupt, which is no Exception), any number of times and also *)
(* in a finally clause, which then leaves undone what was left to do.      *)
(***************************************************************************)
EXTENDS Redaction

CONSTANTS
    None,         \* Python's None
    Absent,       \* the output file: there is none,
    Stale,        \*    it is an earlier call's,
    Partial,      \*    it is incomplete
    Policies,     \* [max_attempts, agreement_threshold] of the profiles
    Raws,         \* what the detectors may find in the source
    MaxFlagged    \* bound on the spans a verification flags

\* Defaults of RetryController.__init__, which no caller overrides.
BaseThreshold == 2
BaseMargin == 4

\* Of a policy profile, what the loop reads: two integers without bounds.
Policy == [max_attempts : Int, agreement_threshold : Int]

ASSUME PoliciesAreIntegers == Policies \subseteq Policy
ASSUME RawsAreDetections == Raws \subseteq Seq(Detection)
ASSUME MaxFlaggedIsNat == MaxFlagged \in Nat

VARIABLES
    pc,          \* the stage about to run
    mode,        \* "scan" or "run": the method called
    policy,      \* the policy profile
    raw,         \* raw_results
    attempt, threshold, margin,   \* the settings of the current attempt
    spans,       \* the spans of the current manifest
    draft,       \* the last draft: what was hidden in it, or None
    passes,      \* verification_passes
    dirs,        \* the temp directories that exist
    tracked,     \* temp_workdirs: those the finally clause has to remove
    output,      \* the output file: Absent, Stale, Partial, or an attempt's draft
    report,      \* the value being returned, or None
    failure,     \* None, or how the call fails: "exception", "interrupt"
    interrupted  \* the stages at which an interrupt came

settings == <<attempt, threshold, margin>>
vars == <<pc, mode, policy, raw, settings, spans, draft, passes,
          dirs, tracked, output, report, failure, interrupted>>

Init ==
    /\ pc = "begin"
    /\ mode \in {"scan", "run"}
    /\ policy \in Policies
    /\ raw = <<>>
    /\ attempt = 0
    /\ threshold = policy.agreement_threshold
    /\ margin = BaseMargin
    /\ spans = {}
    /\ draft = None
    /\ passes = <<>>
    /\ dirs = {}
    /\ tracked = <<>>
    /\ output \in {Absent, Stale}
    /\ report = None
    /\ failure = None
    /\ interrupted = {}

Goto(from, to) == pc = from /\ pc' = to

-----------------------------------------------------------------------------
\* decode_media(): it makes a directory that its caller does not know yet ...
OpenWorkdir(dir) == dirs' = dirs \cup {dir}

\* ... and on success hands it over.
HandOver(dir) == tracked' = Append(tracked, dir)

\* The stages at which there is, or can be, a directory that is in no list
\* yet or will be in none, and that directory.
Holders == {"decodeSource", "decodeDraft", "native", "sample", "encode", "encoding", "encoded"}

Holding(stage) ==
    CASE stage = "decodeSource" -> <<"source", 0>>
      [] stage = "decodeDraft"  -> <<"draft", attempt>>
      [] stage = "native"       -> <<"native", 0>>
      [] stage = "sample"       -> <<"run", 0>>
      [] OTHER                  -> <<"encode", attempt>>

Begin ==
    /\ Goto("begin", "decodeSource")
    /\ OpenWorkdir(<<"source", 0>>)
    /\ UNCHANGED <<mode, policy, raw, settings, spans, draft, passes, tracked,
                   output, report, failure, interrupted>>

DecodeSource ==
    /\ Goto("decodeSource", "detect")
    /\ HandOver(<<"source", 0>>)
    /\ UNCHANGED <<mode, policy, raw, settings, spans, draft, passes, dirs,
                   output, report, failure, interrupted>>

\* run_detectors() on the source, once.
Detect ==
    /\ Goto("detect", IF mode = "scan" THEN "scanVote" ELSE "native")
    /\ raw' \in Raws
    /\ UNCHANGED <<mode, policy, settings, spans, draft, passes, dirs, tracked,
                   output, report, failure, interrupted>>

\* scan() returns the manifest of one vote.
ScanVote ==
    /\ Goto("scanVote", "cleanup")
    /\ spans' = Vote(raw, threshold)
    /\ report' = [spans |-> spans', passes |-> <<>>, unresolved |-> FALSE]
    /\ UNCHANGED <<mode, policy, raw, settings, draft, passes, dirs, tracked,
                   output, failure, interrupted>>

\* Mutant of MakeDir: the directory is never added to temp_workdirs.
MakeDirUntracked(dir) == OpenWorkdir(dir) /\ UNCHANGED tracked

\* A directory made by run() itself, tracked at once.
MakeDir(dir) == OpenWorkdir(dir) /\ HandOver(dir)

\* The native-rate frames: the directory first, then ffmpeg fills it.
OpenNative ==
    /\ Goto("native", "sample")
    /\ MakeDir(<<"native", 0>>)
    /\ UNCHANGED <<mode, policy, raw, settings, spans, draft, passes,
                   output, report, failure, interrupted>>

\* sample_frames(), the original audio, the scratch directory, the loop's
\* initial settings.
Prepare ==
    /\ Goto("sample", "vote")
    /\ MakeDir(<<"run", 0>>)
    /\ attempt' = 0
    /\ threshold' = policy.agreement_threshold
    /\ margin' = BaseMargin
    /\ UNCHANGED <<mode, policy, raw, spans, draft, passes, output, report, failure, interrupted>>

-----------------------------------------------------------------------------
\* The retry loop: vote, redact the original frames and audio into a draft.
VoteAgain ==
    /\ Goto("vote", "encode")
    /\ spans' = Vote(raw, threshold)
    /\ UNCHANGED <<mode, policy, raw, settings, draft, passes, dirs, tracked,
                   output, report, failure, interrupted>>

\* encode_video_from_frames(): the redacted frames go to a directory of its
\* own ...
OpenEncode ==
    /\ Goto("encode", "encoding")
    /\ OpenWorkdir(<<"encode", attempt>>)
    /\ UNCHANGED <<mode, policy, raw, settings, spans, draft, passes, tracked,
                   output, report, failure, interrupted>>

\* ... ffmpeg reads them there ...
Encode ==
    /\ Goto("encoding", "encoded")
    /\ UNCHANGED <<mode, policy, raw, settings, spans, draft, passes, dirs, tracked,
                   output, report, failure, interrupted>>

\* ... and its finally clause removes it, however ffmpeg ended.
RemoveEncode ==
    /\ Goto("encoded", IF failure = None THEN "compose" ELSE "cleanup")
    /\ dirs' = dirs \ {Holding(pc)}
    /\ UNCHANGED <<mode, policy, raw, settings, spans, draft, passes, tracked,
                   output, report, failure, interrupted>>

\* Mutants of Compose: the draft of the first attempt is kept; the draft is
\* written straight to the output.
ComposeOnce ==
    /\ Goto("compose", "recheck")
    /\ draft' = IF draft # None THEN draft
                ELSE [attempt |-> attempt, spans |-> spans, margin |-> margin]
    /\ UNCHANGED <<mode, policy, raw, settings, spans, passes, dirs, tracked,
                   output, report, failure, interrupted>>

ComposeInPlace ==
    /\ Goto("compose", "recheck")
    /\ draft' = [attempt |-> attempt, spans |-> spans, margin |-> margin]
    /\ output' = attempt
    /\ UNCHANGED <<mode, policy, raw, settings, spans, passes, dirs, tracked,
                   report, failure, interrupted>>

\* The redacted track, if there is one, and the muxing of the draft.
Compose ==
    /\ Goto("compose", "recheck")
    /\ draft' = [attempt |-> attempt, spans |-> spans, margin |-> margin]
    /\ UNCHANGED <<mode, policy, raw, settings, spans, passes, dirs, tracked,
                   output, report, failure, interrupted>>

\* decode_media() on the draft.
OpenDraft ==
    /\ Goto("recheck", "decodeDraft")
    /\ OpenWorkdir(<<"draft", attempt>>)
    /\ UNCHANGED <<mode, policy, raw, settings, spans, draft, passes, tracked,
                   output, report, failure, interrupted>>

DecodeDraft ==
    /\ Goto("decodeDraft", "verify")
    /\ HandOver(<<"draft", attempt>>)
    /\ UNCHANGED <<mode, policy, raw, settings, spans, draft, passes, dirs,
                   output, report, failure, interrupted>>

\* Verifier.verify(): whatever any detector still sees.
Verify ==
    /\ Goto("verify", "judge")
    /\ \E n \in 0 .. MaxFlagged :
          passes' = Append(passes, [attempt |-> attempt, flagged |-> n,
                                    escalated |-> attempt > 0])
    /\ UNCHANGED <<mode, policy, raw, settings, spans, draft, dirs, tracked,
                   output, report, failure, interrupted>>

Flagged == passes # <<>> /\ passes[Len(passes)].flagged > 0

\* Mutant of Exhausted: one retry too few.
ExhaustedEarly == attempt + 1 >= policy.max_attempts

\* RetryController.escalate() has no attempt left: it raises RuntimeError.
Exhausted == attempt >= policy.max_attempts

\* Mutants of the escalation: agreement raised instead of lowered; a margin
\* that shrinks.
ThresholdRaised(a) == BaseThreshold + (a + 1)
MarginShrinks(a) == BaseMargin - 2 ^ (a + 1)

EscalatedThreshold(a) == Max({1, BaseThreshold - (a + 1)})
EscalatedMargin(a) == BaseMargin * 2 ^ (a + 1)

Escalate ==
    /\ Goto("judge", "vote")
    /\ Flagged /\ ~Exhausted
    /\ threshold' = EscalatedThreshold(attempt)
    /\ margin' = EscalatedMargin(attempt)
    /\ attempt' = attempt + 1
    /\ UNCHANGED <<mode, policy, raw, spans, draft, passes, dirs, tracked,
                   output, report, failure, interrupted>>

\* The draft is copied to the output, clean or because no attempt is left ...
CopyDraft ==
    /\ Goto("judge", "return")
    /\ ~Flagged \/ Exhausted
    /\ output' = draft.attempt
    /\ UNCHANGED <<mode, policy, raw, settings, spans, draft, passes, dirs,
                   tracked, report, failure, interrupted>>

\* ... and then the report is made, to be returned after the finally clause.
Return ==
    /\ Goto("return", "cleanup")
    /\ report' = [spans |-> spans, passes |-> passes, unresolved |-> Flagged]
    /\ UNCHANGED <<mode, policy, raw, settings, spans, draft, passes, dirs,
                   tracked, output, failure, interrupted>>

\* The finally clause removes one directory after the other.
RemoveWorkdir ==
    /\ pc = "cleanup" /\ tracked # <<>>
    /\ dirs' = dirs \ {Head(tracked)}
    /\ tracked' = Tail(tracked)
    /\ UNCHANGED <<pc, mode, policy, raw, settings, spans, draft, passes,
                   output, report, failure, interrupted>>

\* The call returns, or the exception goes on to the caller.
FinishCleanup ==
    /\ Goto("cleanup", "end")
    /\ tracked = <<>>
    /\ UNCHANGED <<mode, policy, raw, settings, spans, draft, passes, dirs,
                   tracked, output, report, failure, interrupted>>

-----------------------------------------------------------------------------
\* The stages under the try clause in which no function called has made a
\* directory of its own.
Guarded == {"detect", "scanVote", "native", "sample", "vote", "encode", "compose",
            "recheck", "verify", "judge", "return"}

\* The stage fails; an interrupt takes the place of any failure before it.
Fails(kinds) ==
    /\ failure' \in kinds
    /\ interrupted' = IF failure' = "interrupt" THEN interrupted \cup {pc} ELSE interrupted

\* A stage raises or is interrupted: on to the finally clause.
StageFails ==
    /\ pc \in Guarded
    /\ pc' = "cleanup"
    /\ Fails({"exception", "interrupt"})
    /\ UNCHANGED <<mode, policy, raw, settings, spans, draft, passes, dirs,
                   tracked, output, report>>

\* Copying the draft fails half way: the output is left incomplete.
CopyFails ==
    /\ Goto("judge", "cleanup")
    /\ ~Flagged \/ Exhausted
    /\ output' = Partial
    /\ Fails({"exception", "interrupt"})
    /\ UNCHANGED <<mode, policy, raw, settings, spans, draft, passes, dirs,
                   tracked, report>>

\* The call fails before it has anything to clean up.
BeginFails ==
    /\ Goto("begin", "end")
    /\ Fails({"exception", "interrupt"})
    /\ UNCHANGED <<mode, policy, raw, settings, spans, draft, passes, dirs,
                   tracked, output, report>>

\* An interrupt right behind mkdtemp(), before the directory is in the list or
\* the try clause that removes it is entered.
OpeningInterrupted ==
    /\ pc \in {"native", "sample", "encode"}
    /\ pc' = "cleanup"
    /\ OpenWorkdir(Holding(pc))
    /\ Fails({"interrupt"})
    /\ UNCHANGED <<mode, policy, raw, settings, spans, draft, passes, tracked,
                   output, report>>

\* Mutant of AfterDecode: a draft that cannot be decoded is decoded again.
DecodeAgain == pc' = IF pc = "decodeSource" THEN "end" ELSE "recheck"

\* The decode of the source runs before the try clause, that of a draft in it.
AfterDecode == pc' = IF pc = "decodeSource" THEN "end" ELSE "cleanup"

\* decode_media() raises: it removes its own directory.
DecodeRaises ==
    /\ pc \in {"decodeSource", "decodeDraft"}
    /\ AfterDecode
    /\ dirs' = dirs \ {Holding(pc)}
    /\ Fails({"exception"})
    /\ UNCHANGED <<mode, policy, raw, settings, spans, draft, passes,
                   tracked, output, report>>

\* decode_media() is interrupted: its `except Exception` does not see it, or
\* is itself interrupted.
DecodeInterrupted ==
    /\ pc \in {"decodeSource", "decodeDraft"}
    /\ AfterDecode
    /\ Fails({"interrupt"})
    /\ UNCHANGED <<mode, policy, raw, settings, spans, draft, passes, dirs,
                   tracked, output, report>>

\* Mutant of EncodeFails: the directory is removed after ffmpeg returns only.
EncodeLeaves ==
    /\ Goto("encoding", "cleanup")
    /\ Fails({"exception", "interrupt"})
    /\ UNCHANGED <<mode, policy, raw, settings, spans, draft, passes, dirs,
                   tracked, output, report>>

\* The encoder fails or is interrupted: its finally clause sees both.
EncodeFails ==
    /\ Goto("encoding", "encoded")
    /\ Fails({"exception", "interrupt"})
    /\ UNCHANGED <<mode, policy, raw, settings, spans, draft, passes, dirs,
                   tracked, output, report>>

\* That finally clause is interrupted: nobody else knows the directory.
RemoveInterrupted ==
    /\ Goto("encoded", "cleanup")
    /\ Fails({"interrupt"})
    /\ UNCHANGED <<mode, policy, raw, settings, spans, draft, passes, dirs,
                   tracked, output, report>>

\* The finally clause of the call is interrupted, whether the call was about
\* to return or had failed: the directories it has not come to stay.
CleanupInterrupted ==
    /\ Goto("cleanup", "end")
    /\ Fails({"interrupt"})
    /\ report' = None
    /\ UNCHANGED <<mode, policy, raw, settings, spans, draft, passes, dirs,
                   tracked, output>>

-----------------------------------------------------------------------------
Proceed ==
    \/ Begin \/ DecodeSource \/ Detect \/ ScanVote \/ OpenNative \/ Prepare
    \/ VoteAgain \/ OpenEncode \/ Encode \/ RemoveEncode \/ Compose
    \/ OpenDraft \/ DecodeDraft \/ Verify \/ Escalate \/ CopyDraft \/ Return
    \/ RemoveWorkdir \/ FinishCleanup

Break ==
    \/ BeginFails \/ StageFails \/ CopyFails \/ OpeningInterrupted \/ DecodeRaises
    \/ DecodeInterrupted \/ EncodeFails \/ RemoveInterrupted \/ CleanupInterrupted

Next == Proceed \/ Break

\* A stage that does not fail returns; nothing has to fail.
Spec == Init /\ [][Next]_vars /\ WF_vars(Proceed)

-----------------------------------------------------------------------------
Stages == Guarded \cup Holders \cup {"begin", "cleanup", "end"}
Workdirs == ({"source", "native", "run"} \X {0}) \cup ({"draft", "encode"} \X Nat)
Pass == [attempt : Nat, flagged : 0 .. MaxFlagged, escalated : BOOLEAN]
Draft == [attempt : Nat, spans : SUBSET Span, margin : Nat]
Report == [spans : SUBSET Span, passes : Seq(Pass), unresolved : BOOLEAN]

ASSUME NoneIsNoReport == None \notin Report /\ None \notin Draft
ASSUME NoneIsNoFailure == None \notin {"exception", "interrupt"}
ASSUME NoAttemptIsAMark == Nat \cap {Absent, Stale, Partial} = {}
ASSUME MarksAreApart == Partial \notin {Absent, Stale}

\* The values the state ranges over.
TypeOK ==
    /\ pc \in Stages
    /\ mode \in {"scan", "run"}
    /\ policy \in Policies
    /\ raw \in Raws \cup {<<>>}
    /\ attempt \in Nat /\ threshold \in Int /\ margin \in Nat
    /\ spans \subseteq Span
    /\ draft \in Draft \cup {None}
    /\ passes \in Seq(Pass)
    /\ dirs \subseteq Workdirs /\ tracked \in Seq(Workdirs)
    /\ output \in Nat \cup {Absent, Stale, Partial}
    /\ report \in Report \cup {None}
    /\ failure \in {None, "exception", "interrupt"}
    /\ interrupted \subseteq Stages

\* The number of redaction attempts a policy allows: the first, and its retries.
AttemptsAllowed == Max({0, policy.max_attempts}) + 1

\* run() returns a report exactly for the file it wrote: the output is the
\* draft of the last verification, and the manifest lists what was hidden in
\* it, not what an earlier or a later vote trusted.
ReportDescribesOutput ==
    (mode = "run" /\ report # None) =>
        /\ output = draft.attempt
        /\ report.spans = draft.spans
        /\ report.passes # <<>>
        /\ report.passes[Len(report.passes)].attempt = output

\* unresolved tells the truth: it is unset only if the verifier saw nothing
\* in the delivered file, and set only once every attempt the policy allows
\* was made (ADR-0002).
VerdictIsEarned ==
    (mode = "run" /\ report # None) =>
        LET last == report.passes[Len(report.passes)]
        IN  IF report.unresolved THEN last.flagged > 0 /\ Len(report.passes) = AttemptsAllowed
                                 ELSE last.flagged = 0

\* Whatever the call touches the output with, complete or not, and whether it
\* then returns or fails, is a draft that the verifier has seen, and a final
\* one: clean, or the last the policy allows.  A scan touches it with nothing,
\* and half a file is left only by a call that fails.
OnlyVerifiedOutput ==
    /\ output \in Nat \cup {Partial} =>
          /\ mode = "run" /\ passes # <<>>
          /\ ~Flagged \/ Len(passes) = AttemptsAllowed
    /\ output \in Nat => passes[Len(passes)].attempt = output
    /\ output = Partial => failure # None

\* The verification passes tell the history of the loop: one per attempt, in
\* order, each but the last one flagged, never more than the policy allows.
PassesAreHistory ==
    /\ Len(passes) <= AttemptsAllowed
    /\ \A i \in DOMAIN passes :
          /\ passes[i].attempt = i - 1
          /\ passes[i].escalated = (i > 1)
          /\ i < Len(passes) => passes[i].flagged > 0

\* A call that returns, or raises an Exception, leaves no temp directory, and
\* an interrupt leaves no other than those it kept from being removed: the one
\* that decode_media() was filling, one just made and not in a list yet, that
\* of an encoder whose finally clause it broke off, and those in temp_workdirs
\* that the finally clause had not come to.  An interrupt anywhere else, such
\* as while a frame is redacted or ffmpeg encodes, leaves none
\* (docs/adr/0014 says so of every exit).
NoTempLeak ==
    pc = "end" =>
        dirs \subseteq {Holding(s) : s \in interrupted \cap (Holders \ {"encoding"})}
                         \cup (IF "cleanup" \in interrupted THEN Range(tracked) ELSE {})

\* What a vote trusted is hidden, whole, in the draft: every pixel of its box
\* while it was seen, and its sound but for the last millisecond, whatever
\* int() makes of the fractions.
TrustedIsHidden ==
    draft # None =>
        \A s \in draft.spans, t \in Moments :
            /\ (s.box # NoBox /\ s.start <= t /\ t <= s.end) =>
                  \A p \in Pixels : InBox(p[1], p[2], s.box) =>
                                        p \in Hidden(draft.spans, draft.margin, t)
            /\ (s.type = "audio" /\ s.start <= t /\ t + 1 < s.end) => Muted(draft.spans, t)

\* A retry hides at least what the draft before it hid, in every frame and
\* at every moment of the track: it never gives up ground.
GivesNoGround ==
    \A t \in Moments :
        /\ Hidden(draft.spans, draft.margin, t) \subseteq Hidden(draft'.spans, draft'.margin, t)
        /\ Muted(draft.spans, t) => Muted(draft'.spans, t)

RetryHidesMore == [][draft # None /\ draft' # draft => GivesNoGround]_vars

\* A retry never repeats the settings of the attempt before it: the margin
\* grows and the threshold does not (ADR-0008).
RetryEscalates ==
    [][attempt' # attempt => /\ attempt' = attempt + 1
                             /\ margin' > margin
                             /\ threshold' <= Max({1, threshold})]_vars

\* The call ends: the loop cannot go on forever, whatever the verifier says.
Ends == <>(pc = "end")

Job == INSTANCE RedactionJob WITH
    Limits <- {p.max_attempts : p \in Policies},
    dryRun <- mode = "scan",
    limit  <- policy.max_attempts,
    tries  <- Len(passes),
    clean  <- passes # <<>> /\ ~Flagged,
    phase  <- IF pc # "end" THEN "working"
              ELSE IF failure # None THEN "aborted"
              ELSE IF mode = "scan" THEN "listed"
              ELSE IF report.unresolved THEN "unresolved" ELSE "resolved",
    out    <- output

\* The stages implement the promise of RedactionJob.
ImplementsJob == Job!Spec

=============================================================================
