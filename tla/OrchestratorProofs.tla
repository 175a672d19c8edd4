------------------------- MODULE OrchestratorProofs -------------------------
(***************************************************************************)
(* Theorems about Orchestrator, for every policy, every set of detections  *)
(* and every frame: the report describes the delivered file, the verdict   *)
(* is earned, temp directories are removed, and a retry gives no ground.   *)
(***************************************************************************)
EXTENDS Orchestrator, RedactionProofs

Loop == {"vote", "encode", "encoding", "encoded", "compose", "recheck", "decodeDraft", "verify"}
Judged == {"judge", "return"}
Ended == {"cleanup", "end"}
Owning == {"decodeSource", "decodeDraft", "encoding", "encoded"}

\* A method only runs its own stages.
ModeInv ==
    /\ pc \in Loop \cup Judged \cup {"native", "sample"} => mode = "run"
    /\ pc = "scanVote" => mode = "scan"

\* The settings follow from the number of the attempt.
SettingsInv ==
    /\ margin = BaseMargin * 2 ^ attempt
    /\ threshold = IF attempt = 0 THEN policy.agreement_threshold
                                  ELSE EscalatedThreshold(attempt - 1)
    /\ attempt <= Max({0, policy.max_attempts})
    /\ pc \in {"begin", "decodeSource", "detect", "native", "sample", "scanVote"} => attempt = 0
    /\ mode = "scan" => attempt = 0

\* The verification passes are one per attempt that got that far.
PassesInv ==
    /\ pc \notin Ended => Len(passes) = IF pc \in Judged THEN attempt + 1 ELSE attempt
    /\ Len(passes) \in {attempt, attempt + 1}
    /\ mode = "scan" => passes = <<>>
    /\ \A i \in DOMAIN passes :
          /\ passes[i].attempt = i - 1
          /\ passes[i].escalated = (i > 1)
          /\ (pc \in Loop \/ i < Len(passes)) => passes[i].flagged > 0

\* What was hidden in the last draft, and that the next hides no less.
DraftInv ==
    /\ pc \in (Loop \cup Judged) \ {"vote"} => spans = Vote(raw, threshold)
    /\ pc \in {"recheck", "decodeDraft", "verify"} \cup Judged =>
          draft = [attempt |-> attempt, spans |-> spans, margin |-> margin]
    /\ (pc \in {"vote", "encode", "encoding", "encoded", "compose"} /\ draft # None) =>
          draft.margin < margin /\ draft.spans \subseteq Vote(raw, threshold)
    /\ pc \in {"begin", "decodeSource", "detect", "native", "sample", "scanVote"} => draft = None
    /\ draft # None => draft.margin > 0

\* The output is touched with the last draft only, or a part of it, and once
\* it is verified; the report is made after that, or not at all.
OutputInv ==
    /\ report # None => pc \in Ended /\ failure = None
    /\ failure # None => pc \in Ended \cup {"encoded"}
    /\ (pc \in Ended /\ failure = None) => report # None
    /\ pc \notin Ended \cup {"return"} => output \in {Absent, Stale}
    /\ pc = "return" => output \in Nat
    /\ output = Partial => failure # None
    /\ output \in Nat \cup {Partial} =>
          mode = "run" /\ Len(passes) = attempt + 1 /\ (Flagged => Exhausted)
    /\ output \in Nat => output = attempt /\ draft # None /\ draft.attempt = attempt
    /\ (report # None /\ mode = "run") =>
          /\ output \in Nat
          /\ report.spans = draft.spans
          /\ report.passes = passes
          /\ report.unresolved = Flagged

\* The directories that an interrupt may have kept from being removed.
Lost == {Holding(s) : s \in interrupted \cap (Holders \ {"encoding"})}

\* The directory that a function called in this stage has made.
Owned == IF pc \in Owning THEN {Holding(pc)} ELSE {}

\* The temp directories that exist are in temp_workdirs, or the one that a
\* function called by run() keeps to itself, or lost; after an interrupt the
\* attempt, and so what is lost, is fixed.
DirsInv ==
    /\ interrupted # {} => failure # None
    /\ pc \in {"begin", "decodeSource"} => tracked = <<>>
    /\ dirs \subseteq Range(tracked) \cup Lost \cup Owned
    /\ pc = "end" => dirs \subseteq Lost \cup (IF "cleanup" \in interrupted
                                               THEN Range(tracked) ELSE {})

IInv == TypeOK /\ ModeInv /\ SettingsInv /\ PassesInv /\ DraftInv /\ OutputInv /\ DirsInv

-----------------------------------------------------------------------------
\* A power of two is the number of subsets of a finite set, so it is a
\* positive natural, and the next one is greater.
LEMMA PowersGrow ==
    ASSUME NEW n \in Nat
    PROVE  /\ 2 ^ n \in Nat \ {0}
           /\ 2 ^ n < 2 ^ (n + 1)
  <1> DEFINE A == 1 .. n
             B == 1 .. n + 1
  <1>1. /\ IsFiniteSet(A) /\ Cardinality(A) = n
        /\ IsFiniteSet(B) /\ Cardinality(B) = n + 1
    BY FS_Interval
  <1>2. A \subseteq B /\ B \notin SUBSET A /\ {} \in SUBSET A
    OBVIOUS
  <1> HIDE DEF A, B
  <1>3. /\ IsFiniteSet(SUBSET A) /\ Cardinality(SUBSET A) = 2 ^ n
        /\ IsFiniteSet(SUBSET B) /\ Cardinality(SUBSET B) = 2 ^ (n + 1)
    BY <1>1, FS_SUBSET
  <1>4. SUBSET A \in SUBSET (SUBSET B) /\ SUBSET A # SUBSET B
    BY <1>2
  <1>5. /\ Cardinality(SUBSET A) <= Cardinality(SUBSET B)
        /\ Cardinality(SUBSET A) # Cardinality(SUBSET B)
    BY <1>3, <1>4, FS_Subset
  <1>6. /\ Cardinality(SUBSET A) \in Nat /\ Cardinality(SUBSET B) \in Nat
        /\ Cardinality(SUBSET A) # 0
    BY <1>2, <1>3, FS_CardinalityType, FS_EmptySet
  <1> QED
    BY <1>3, <1>5, <1>6

\* The margin of the first attempt is the base margin: its factor is 1.
LEMMA TwoToZero == 2 ^ 0 = 1
  <1>1. IsFiniteSet({}) /\ Cardinality({}) = 0
    BY FS_EmptySet
  <1>2. Cardinality(SUBSET {}) = 2 ^ 0
    BY <1>1, FS_SUBSET
  <1>3. SUBSET {} = {{}} /\ Cardinality({{}}) = 1
    BY FS_Singleton
  <1> QED
    BY <1>2, <1>3

\* Every escalation votes at threshold 1, with a positive margin.
LEMMA EscalatedSettings ==
    ASSUME NEW a \in Nat
    PROVE  /\ EscalatedThreshold(a) = 1
           /\ EscalatedMargin(a) \in Nat
           /\ EscalatedMargin(a) = BaseMargin * 2 ^ (a + 1)
           /\ BaseMargin * 2 ^ a < EscalatedMargin(a)
  <1>1. EscalatedThreshold(a) = 1
    <2>1. BaseThreshold - (a + 1) \in Int /\ BaseThreshold - (a + 1) <= 1
      BY DEF BaseThreshold
    <2> QED
      BY <2>1, MaxOfTwo DEF EscalatedThreshold
  <1>2. 2 ^ a \in Nat /\ 2 ^ (a + 1) \in Nat /\ 2 ^ a < 2 ^ (a + 1)
    BY PowersGrow
  <1> QED
    BY <1>1, <1>2 DEF EscalatedMargin, BaseMargin

-----------------------------------------------------------------------------
\* A call starts within the types.
LEMMA InitTyped == Init => TypeOK
  <1> SUFFICES ASSUME Init PROVE TypeOK
    OBVIOUS
  <1>1. policy.agreement_threshold \in Int
    BY PoliciesAreIntegers DEF Init, Policy
  <1> QED
    BY <1>1 DEF Init, TypeOK, BaseMargin, Stages, Guarded, Holders, Pass

\* The arguments of the call.
LEMMA ArgumentsTyped ==
    ASSUME TypeOK
    PROVE  /\ policy.max_attempts \in Int /\ policy.agreement_threshold \in Int
           /\ raw \in Seq(Detection)
  <1>1. policy \in [max_attempts : Int, agreement_threshold : Int]
    BY PoliciesAreIntegers DEF TypeOK, Policy
  <1>2. <<>> \in Seq(Detection)
    OBVIOUS
  <1>3. raw \in Raws \/ raw = <<>>
    BY DEF TypeOK
  <1> QED
    BY <1>1, <1>2, <1>3, RawsAreDetections

\* Every step keeps the state within its types.
LEMMA TypeStep ==
    ASSUME IInv, [Next]_vars
    PROVE  TypeOK'
  <1> USE DEF TypeOK, Stages, Guarded, Holders, Goto, OpenWorkdir, HandOver, MakeDir, settings
  <1> USE NoAttemptIsAMark
  <1>22. TypeOK
    BY Zenon DEF IInv
  <1>21. /\ policy.max_attempts \in Int /\ policy.agreement_threshold \in Int
        /\ raw \in Seq(Detection)
    BY <1>22, ArgumentsTyped
  <1>1. CASE Begin
    BY <1>22, <1>1 DEF Begin, Workdirs
  <1>2. CASE DecodeSource
    BY <1>22, <1>2 DEF DecodeSource, Workdirs
  <1>3. CASE Detect
    BY <1>22, <1>3 DEF Detect
  <1>4. CASE ScanVote
    <2>1. spans' \subseteq Span
      BY <1>21, <1>22, <1>4, VoteIsTyped DEF ScanVote
    <2>2. report' \in Report
      BY <1>22, <1>4, <2>1 DEF ScanVote, Report, Pass
    <2> QED
      BY <1>22, <1>4, <2>1, <2>2 DEF ScanVote
  <1>5. CASE OpenNative
    BY <1>22, <1>5 DEF OpenNative, Workdirs
  <1>6. CASE Prepare
    BY <1>21, <1>22, <1>6 DEF Prepare, Workdirs, BaseMargin
  <1>7. CASE VoteAgain
    BY <1>21, <1>22, <1>7, VoteIsTyped DEF VoteAgain
  <1>8. CASE Compose
    BY <1>22, <1>8 DEF Compose, Draft
  <1>23. CASE OpenEncode
    BY <1>22, <1>23 DEF OpenEncode, Workdirs
  <1>24. CASE Encode
    BY <1>22, <1>24 DEF Encode
  <1>25. CASE EncodeFails
    BY <1>22, <1>25 DEF EncodeFails, Fails
  <1>9. CASE OpenDraft
    BY <1>22, <1>9 DEF OpenDraft, Workdirs
  <1>10. CASE DecodeDraft
    BY <1>22, <1>10 DEF DecodeDraft, Workdirs
  <1>11. CASE Verify
    BY <1>22, <1>11 DEF Verify, Pass
  <1>12. CASE Escalate
    <2>1. /\ threshold' = 1 /\ margin' \in Nat /\ attempt' \in Nat
      BY <1>22, <1>12, EscalatedSettings DEF Escalate
    <2> QED
      BY <1>22, <1>12, <2>1 DEF Escalate
  <1>13. CASE CopyDraft
    <2>1. draft.attempt \in Nat
      BY <1>22, <1>13 DEF CopyDraft, IInv, DraftInv, Judged
    <2> QED
      BY <1>22, <1>13, <2>1 DEF CopyDraft
  <1>26. CASE Return
    <2>1. report' \in Report
      <3>1. Flagged \in BOOLEAN
        BY DEF Flagged
      <3> QED
        BY <1>21, <1>22, <1>26, <3>1 DEF Return, Report
    <2> QED
      BY <1>22, <1>26, <2>1 DEF Return
  <1>27. CASE RemoveEncode
    BY <1>22, <1>27 DEF RemoveEncode
  <1>14. CASE RemoveWorkdir
    <2>1. tracked' \in Seq(Workdirs)
      BY <1>22, <1>14 DEF RemoveWorkdir
    <2> QED
      BY <1>22, <1>14, <2>1 DEF RemoveWorkdir
  <1>28. CASE FinishCleanup
    BY <1>22, <1>28 DEF FinishCleanup
  <1>15. CASE BeginFails
    BY <1>22, <1>15 DEF BeginFails, Fails
  <1>16. CASE StageFails
    BY <1>22, <1>16 DEF StageFails, Fails
  <1>17. CASE CopyFails
    BY <1>22, <1>17 DEF CopyFails, Fails
  <1>29. CASE OpeningInterrupted
    BY <1>22, <1>29 DEF OpeningInterrupted, Fails, Holding, Workdirs
  <1>18. CASE DecodeRaises
    BY <1>22, <1>18 DEF DecodeRaises, Fails, AfterDecode
  <1>19. CASE DecodeInterrupted
    BY <1>22, <1>19 DEF DecodeInterrupted, Fails, AfterDecode
  <1>30. CASE RemoveInterrupted
    BY <1>22, <1>30 DEF RemoveInterrupted, Fails
  <1>31. CASE CleanupInterrupted
    BY <1>22, <1>31 DEF CleanupInterrupted, Fails
  <1>20. CASE UNCHANGED vars
    BY <1>22, <1>20 DEF vars
  <1> QED
    BY <1>1, <1>2, <1>3, <1>4, <1>5, <1>6, <1>7, <1>8, <1>9, <1>10, <1>11, <1>12,
       <1>13, <1>14, <1>15, <1>16, <1>17, <1>18, <1>19, <1>20, <1>23, <1>24, <1>25,
       <1>26, <1>27, <1>28, <1>29, <1>30, <1>31 DEF Next, Proceed, Break

\* No step leaves the method that was called.
LEMMA ModeStep ==
    ASSUME TypeOK, ModeInv, [Next]_vars
    PROVE  ModeInv'
  <1> USE DEF ModeInv, Loop, Judged, Goto, TypeOK
  <1>1. CASE Proceed
    BY <1>1 DEF Proceed, Begin, DecodeSource, Detect, ScanVote, OpenNative, Prepare,
       VoteAgain, OpenEncode, Encode, RemoveEncode, Compose, OpenDraft, DecodeDraft, Verify, Escalate, CopyDraft, Return,
       RemoveWorkdir, FinishCleanup
  <1>2. CASE Break
    BY <1>2 DEF Break, BeginFails, StageFails, CopyFails, OpeningInterrupted,
         DecodeRaises, DecodeInterrupted, EncodeFails, RemoveInterrupted, CleanupInterrupted, AfterDecode
  <1>3. CASE UNCHANGED vars
    BY <1>3 DEF vars
  <1> QED
    BY <1>1, <1>2, <1>3 DEF Next

\* Only Prepare and Escalate touch the settings.
LEMMA SettingsStep ==
    ASSUME TypeOK, ModeInv, SettingsInv, [Next]_vars
    PROVE  SettingsInv'
  <1> USE DEF SettingsInv, ModeInv, Loop, Judged, Goto, TypeOK, settings
  <1>1. CASE Prepare
    <2>1. attempt = 0 /\ attempt' = 0 /\ policy' = policy
      BY <1>1 DEF Prepare
    <2>2. margin' = BaseMargin * 2 ^ attempt'
      BY <1>1, <2>1, TwoToZero DEF Prepare, BaseMargin
    <2> QED
      BY <1>1, <2>1, <2>2 DEF Prepare
  <1>2. CASE Escalate
    <2>1. /\ attempt' = attempt + 1 /\ attempt \in Nat
          /\ attempt < policy.max_attempts /\ policy' = policy
          /\ policy.max_attempts \in Int
      BY <1>2, ArgumentsTyped DEF Escalate, Exhausted
    <2>2. Max({0, policy.max_attempts}) = policy.max_attempts
      BY <2>1, MaxOfTwo
    <2>3. margin' = BaseMargin * 2 ^ attempt' /\ threshold' = EscalatedThreshold(attempt' - 1)
      BY <1>2, <2>1, EscalatedSettings DEF Escalate
    <2>4. pc' = "vote" /\ mode' = "run" /\ attempt' # 0
      BY <1>2, <2>1 DEF Escalate
    <2> QED
      BY <2>1, <2>2, <2>3, <2>4
  <1>3. CASE Next /\ ~Prepare /\ ~Escalate
    <2>1. UNCHANGED <<mode, policy, attempt, threshold, margin>>
      BY <1>3 DEF Next, Proceed, Begin, DecodeSource, Detect, ScanVote, OpenNative,
         VoteAgain, OpenEncode, Encode, RemoveEncode, Compose, OpenDraft, DecodeDraft, Verify, CopyDraft, Return, RemoveWorkdir, FinishCleanup,
         Break, BeginFails, StageFails, CopyFails, OpeningInterrupted,
         DecodeRaises, DecodeInterrupted, EncodeFails, RemoveInterrupted, CleanupInterrupted
    <2>2. pc' \in {"begin", "decodeSource", "detect", "native", "sample", "scanVote"}
             => pc \in {"begin", "decodeSource", "detect", "native", "sample", "scanVote"}
      BY <1>3 DEF Next, Proceed, Begin, DecodeSource, Detect, ScanVote, OpenNative,
         VoteAgain, OpenEncode, Encode, RemoveEncode, Compose, OpenDraft, DecodeDraft, Verify, CopyDraft, Return, RemoveWorkdir, FinishCleanup,
         Break, BeginFails, StageFails, CopyFails, OpeningInterrupted,
         DecodeRaises, DecodeInterrupted, EncodeFails, RemoveInterrupted, CleanupInterrupted, AfterDecode
    <2> QED
      BY <2>1, <2>2
  <1>4. CASE UNCHANGED vars
    BY <1>4 DEF vars
  <1> QED
    BY <1>1, <1>2, <1>3, <1>4

\* Only Verify adds a pass; only Escalate goes round the loop again.
LEMMA PassesStep ==
    ASSUME TypeOK, ModeInv, SettingsInv, PassesInv, [Next]_vars
    PROVE  PassesInv'
  <1> USE DEF PassesInv, ModeInv, Loop, Judged, Ended, Goto, TypeOK, settings
  <1>1. CASE Verify
    <2>1. PICK n \in 0 .. MaxFlagged :
             passes' = Append(passes, [attempt |-> attempt, flagged |-> n,
                                       escalated |-> attempt > 0])
      BY <1>1 DEF Verify
    <2>2. Len(passes) = attempt /\ attempt \in Nat
      BY <1>1 DEF Verify
    <2>3. /\ Len(passes') = attempt + 1
          /\ \A i \in 1 .. attempt : passes'[i] = passes[i]
          /\ passes'[attempt + 1] = [attempt |-> attempt, flagged |-> n,
                                     escalated |-> attempt > 0]
      BY <2>1, <2>2
    <2>4. DOMAIN passes' = 1 .. attempt + 1 /\ DOMAIN passes = 1 .. attempt
      BY <2>1, <2>2
    <2>5. pc = "verify" /\ pc' = "judge" /\ attempt' = attempt /\ mode' = mode /\ mode = "run"
      BY <1>1 DEF Verify
    <2>6. ASSUME NEW i \in DOMAIN passes'
          PROVE  /\ passes'[i].attempt = i - 1
                 /\ passes'[i].escalated = (i > 1)
                 /\ i < Len(passes') => passes'[i].flagged > 0
      BY <2>2, <2>3, <2>4, <2>5
    <2> QED
      BY <2>2, <2>3, <2>5, <2>6
  <1>2. CASE Escalate
    BY <1>2 DEF Escalate, Flagged
  <1>3. CASE Prepare
    BY <1>3 DEF Prepare, SettingsInv
  <1>4. CASE Next /\ ~Verify /\ ~Escalate /\ ~Prepare
    <2>1. UNCHANGED <<mode, attempt, passes>>
      BY <1>4 DEF Next, Proceed, Begin, DecodeSource, Detect, ScanVote, OpenNative,
         VoteAgain, OpenEncode, Encode, RemoveEncode, Compose, OpenDraft, DecodeDraft, CopyDraft, Return, RemoveWorkdir, FinishCleanup,
         Break, BeginFails, StageFails, CopyFails, OpeningInterrupted,
         DecodeRaises, DecodeInterrupted, EncodeFails, RemoveInterrupted, CleanupInterrupted
    <2>2. /\ pc' \notin Ended => pc \notin Ended /\ (pc' \in Judged <=> pc \in Judged)
          /\ pc' \in Loop => pc \in Loop
      BY <1>4 DEF Next, Proceed, Begin, DecodeSource, Detect, ScanVote, OpenNative,
         VoteAgain, OpenEncode, Encode, RemoveEncode, Compose, OpenDraft, DecodeDraft, CopyDraft, Return, RemoveWorkdir, FinishCleanup,
         Break, BeginFails, StageFails, CopyFails, OpeningInterrupted,
         DecodeRaises, DecodeInterrupted, EncodeFails, RemoveInterrupted, CleanupInterrupted, AfterDecode
    <2> QED
      BY <2>1, <2>2
  <1>5. CASE UNCHANGED vars
    BY <1>5 DEF vars
  <1> QED
    BY <1>1, <1>2, <1>3, <1>4, <1>5

\* The draft is what the current manifest and margin say; escalating leaves
\* it behind, to be hidden again by a vote that trusts no less.
LEMMA DraftStep ==
    ASSUME TypeOK, ModeInv, SettingsInv, DraftInv, [Next]_vars
    PROVE  DraftInv'
  <1> USE DEF DraftInv, Loop, Judged, Ended, Goto, settings
  <1>1. CASE Compose
    <2>1. margin > 0
      BY PowersGrow DEF TypeOK, SettingsInv, BaseMargin
    <2> QED
      BY <1>1, <2>1, NoneIsNoReport DEF Compose, TypeOK
  <1>2. CASE Escalate
    <2>1. draft = [attempt |-> attempt, spans |-> Vote(raw, threshold), margin |-> margin]
      BY <1>2 DEF Escalate
    <2>2. threshold' = 1 /\ margin < margin'
      <3>1. attempt \in Nat /\ margin \in Nat /\ margin = BaseMargin * 2 ^ attempt
        BY DEF TypeOK, SettingsInv
      <3>2. threshold' = EscalatedThreshold(attempt) /\ margin' = EscalatedMargin(attempt)
        BY <1>2 DEF Escalate
      <3> QED
        BY <3>1, <3>2, EscalatedSettings
    <2>3. Vote(raw, threshold) \subseteq Vote(raw, 1)
      <3>1. raw \in Seq(Detection) /\ threshold \in Int
        BY ArgumentsTyped DEF TypeOK
      <3>2. CASE threshold <= 1
        BY <3>1, <3>2, VoteAtOne
      <3>3. CASE 1 <= threshold
        BY <3>1, <3>3, VoteIsMonotone
      <3> QED
        BY <3>1, <3>2, <3>3
    <2>4. pc' = "vote" /\ draft' = draft /\ raw' = raw
      BY <1>2 DEF Escalate
    <2> QED
      BY <2>1, <2>2, <2>3, <2>4
  <1>3. CASE VoteAgain
    BY <1>3 DEF VoteAgain
  <1>9. CASE OpenEncode \/ Encode \/ RemoveEncode
    BY <1>9 DEF OpenEncode, Encode, RemoveEncode
  <1>4. CASE Begin \/ DecodeSource \/ Detect \/ OpenNative \/ Prepare
    BY <1>4 DEF Begin, DecodeSource, Detect, OpenNative, Prepare
  <1>5. CASE OpenDraft \/ DecodeDraft \/ Verify
    BY <1>5 DEF OpenDraft, DecodeDraft, Verify
  <1>6. CASE ScanVote \/ CopyDraft \/ Return \/ RemoveWorkdir \/ FinishCleanup
    BY <1>6 DEF ScanVote, CopyDraft, Return, RemoveWorkdir, FinishCleanup
  <1>7. CASE Break
    BY <1>7 DEF Break, BeginFails, StageFails, CopyFails, OpeningInterrupted,
         DecodeRaises, DecodeInterrupted, EncodeFails, RemoveInterrupted, CleanupInterrupted, AfterDecode
  <1>8. CASE UNCHANGED vars
    BY <1>8 DEF vars
  <1> QED
    BY <1>1, <1>2, <1>3, <1>4, <1>5, <1>6, <1>7, <1>8, <1>9 DEF Next, Proceed

\* Only CopyDraft and CopyFails write the output, Return and ScanVote the report.
LEMMA OutputStep ==
    ASSUME TypeOK, ModeInv, SettingsInv, PassesInv, DraftInv, OutputInv, [Next]_vars
    PROVE  OutputInv'
  <1> USE DEF OutputInv, Loop, Judged, Ended, Goto, settings, Flagged, Exhausted
  <1> USE NoAttemptIsAMark, MarksAreApart
  <1>1. CASE CopyDraft
    <2>1. /\ draft = [attempt |-> attempt, spans |-> spans, margin |-> margin]
          /\ Len(passes) = attempt + 1 /\ mode = "run" /\ attempt \in Nat
          /\ failure = None /\ report = None
      BY <1>1 DEF CopyDraft, DraftInv, PassesInv, ModeInv, TypeOK
    <2>2. draft # None
      BY <2>1, NoneIsNoReport DEF TypeOK, Draft
    <2>3. output' = attempt /\ pc' = "return" /\ (~Flagged \/ Exhausted)
      BY <1>1, <2>1 DEF CopyDraft
    <2>4. UNCHANGED <<mode, policy, attempt, draft, passes, failure, report>>
      BY <1>1 DEF CopyDraft
    <2> QED
      BY <2>1, <2>2, <2>3, <2>4
  <1>2. CASE Return
    <2>1. /\ report' = [spans |-> spans, passes |-> passes, unresolved |-> Flagged]
          /\ pc' = "cleanup" /\ draft.spans = spans /\ failure = None /\ output \in Nat
      BY <1>2 DEF Return, DraftInv
    <2>2. UNCHANGED <<mode, policy, attempt, draft, passes, failure, output>>
      BY <1>2 DEF Return
    <2>3. report' # None
      <3>1. Flagged \in BOOLEAN
        OBVIOUS
      <3>2. report' \in Report
        BY <2>1, <3>1 DEF Report, TypeOK
      <3> QED
        BY <3>2, NoneIsNoReport
    <2> QED
      BY <2>1, <2>2, <2>3
  <1>3. CASE ScanVote
    <2>1. /\ mode' = "scan" /\ pc' = "cleanup" /\ output \in {Absent, Stale}
          /\ failure = None /\ UNCHANGED <<failure, output>>
      BY <1>3 DEF ScanVote, ModeInv
    <2>2. report' # None
      <3>1. spans' \in SUBSET Span
        BY <1>3, ArgumentsTyped, VoteIsTyped DEF ScanVote, TypeOK
      <3>2. report' \in Report
        BY <1>3, <3>1 DEF ScanVote, Report
      <3> QED
        BY <3>2, NoneIsNoReport
    <2> QED
      BY <2>1, <2>2
  <1>4. CASE Begin \/ DecodeSource \/ Detect \/ OpenNative \/ Prepare \/ VoteAgain
             \/ OpenEncode \/ Encode \/ Compose \/ OpenDraft \/ DecodeDraft \/ Verify \/ Escalate
    <2>1. /\ pc \notin Ended \cup {"return", "encoded"} /\ pc' \notin Ended \cup {"return"}
          /\ UNCHANGED <<mode, output, report, failure>>
      BY <1>4, NoneIsNoFailure DEF Begin, DecodeSource, Detect, OpenNative, Prepare, VoteAgain,
         OpenEncode, Encode, Compose, OpenDraft, DecodeDraft, Verify, Escalate
    <2> QED
      BY <2>1
  <1>5. CASE RemoveEncode
    BY <1>5 DEF RemoveEncode
  <1>6. CASE RemoveWorkdir \/ FinishCleanup
    BY <1>6 DEF RemoveWorkdir, FinishCleanup
  <1>7. CASE CopyFails
    <2>1. /\ output' = Partial /\ pc' = "cleanup" /\ (~Flagged \/ Exhausted)
          /\ UNCHANGED <<mode, policy, attempt, draft, passes, report>>
          /\ failure' # None /\ report = None
      BY <1>7, NoneIsNoFailure DEF CopyFails, Fails
    <2>2. mode = "run" /\ Len(passes) = attempt + 1
      BY <1>7 DEF CopyFails, ModeInv, PassesInv
    <2> QED
      BY <2>1, <2>2
  <1>8. CASE BeginFails \/ StageFails \/ OpeningInterrupted \/ DecodeRaises
             \/ DecodeInterrupted \/ EncodeFails \/ RemoveInterrupted
    <2>1. /\ pc \notin Ended /\ pc' \in Ended \cup {"encoded"}
          /\ UNCHANGED <<mode, policy, attempt, draft, passes, output, report>>
          /\ failure' # None
          /\ pc' = "encoded" => pc = "encoding"
      BY <1>8, NoneIsNoFailure DEF BeginFails, StageFails, OpeningInterrupted, DecodeRaises,
         DecodeInterrupted, EncodeFails, RemoveInterrupted, AfterDecode, Guarded, Fails
    <2> QED
      BY <2>1
  <1>9. CASE CleanupInterrupted
    BY <1>9, NoneIsNoFailure DEF CleanupInterrupted, Fails
  <1>10. CASE UNCHANGED vars
    BY <1>10 DEF vars
  <1> QED
    BY <1>1, <1>2, <1>3, <1>4, <1>5, <1>6, <1>7, <1>8, <1>9, <1>10 DEF Next, Proceed, Break

\* What a list holds once something is added at its end ...
LEMMA RangeOfAppend ==
    ASSUME NEW S, NEW t \in Seq(S), NEW d \in S
    PROVE  Range(Append(t, d)) = Range(t) \cup {d}
  <1>1. Len(Append(t, d)) = Len(t) + 1
    OBVIOUS
  <1>2. \A i \in 1 .. Len(t) : Append(t, d)[i] = t[i]
    OBVIOUS
  <1>3. Append(t, d)[Len(t) + 1] = d
    OBVIOUS
  <1>4. DOMAIN Append(t, d) = DOMAIN t \cup {Len(t) + 1} /\ DOMAIN t = 1 .. Len(t)
    BY <1>1
  <1> QED
    BY <1>2, <1>3, <1>4 DEF Range

\* ... and what it held before its first was taken.
LEMMA RangeOfTail ==
    ASSUME NEW S, NEW t \in Seq(S), t # <<>>
    PROVE  Range(t) \subseteq Range(Tail(t)) \cup {Head(t)}
  <1> SUFFICES ASSUME NEW i \in 1 .. Len(t)
               PROVE  t[i] \in Range(Tail(t)) \cup {Head(t)}
    BY DEF Range
  <1>1. CASE i = 1
    BY <1>1
  <1>2. CASE i > 1
    <2>1. i - 1 \in 1 .. Len(Tail(t)) /\ Tail(t)[i - 1] = t[i]
      BY <1>2
    <2>2. DOMAIN Tail(t) = 1 .. Len(Tail(t))
      OBVIOUS
    <2>3. \E j \in DOMAIN Tail(t) : t[i] = Tail(t)[j]
      BY <2>1, <2>2
    <2> QED
      BY <2>3 DEF Range
  <1> QED
    BY <1>1, <1>2

\* A directory is in the list, or kept by the function that fills it, from
\* the step that makes it to the one that removes it; only an interrupt
\* between the two loses it.
LEMMA DirsStep ==
    ASSUME TypeOK, ModeInv, SettingsInv, OutputInv, DirsInv, [Next]_vars
    PROVE  DirsInv'
  <1> USE DEF DirsInv, Ended, Owning, Owned, Goto, OpenWorkdir, settings
  <1>0. tracked \in Seq(Workdirs) /\ attempt \in Nat
    BY DEF TypeOK
  <1>1. CASE Begin
    BY <1>1 DEF Begin, Lost, Holding
  <1>2. CASE DecodeSource
    <2>1. Range(tracked') = Range(tracked) \cup {<<"source", 0>>}
      <3>1. <<"source", 0>> \in Workdirs
        BY DEF Workdirs
      <3>2. tracked' = Append(tracked, <<"source", 0>>)
        BY <1>2 DEF DecodeSource, HandOver
      <3> QED
        BY <1>0, <3>1, <3>2, RangeOfAppend
    <2> QED
      BY <1>2, <2>1 DEF DecodeSource, Lost, Holding
  <1>3. CASE Detect \/ ScanVote \/ VoteAgain \/ Compose \/ Verify \/ CopyDraft \/ Return
    <2>1. /\ pc \notin Owning \cup {"end"} /\ pc' \notin Owning \cup {"end", "begin"}
          /\ UNCHANGED <<attempt, dirs, tracked, failure, interrupted>>
      BY <1>3 DEF Detect, ScanVote, VoteAgain, Compose, Verify, CopyDraft, Return
    <2> QED
      BY <2>1 DEF Lost, Holding
  <1>4. CASE OpenNative
    <2>1. Range(tracked') = Range(tracked) \cup {<<"native", 0>>}
      BY <1>0, <1>4, RangeOfAppend DEF OpenNative, MakeDir, HandOver, Workdirs
    <2> QED
      BY <1>4, <2>1 DEF OpenNative, MakeDir, Lost, Holding
  <1>5. CASE Prepare
    <2>1. Range(tracked') = Range(tracked) \cup {<<"run", 0>>}
      BY <1>0, <1>5, RangeOfAppend DEF Prepare, MakeDir, HandOver, Workdirs
    <2>2. interrupted = {}
      BY <1>5 DEF Prepare, OutputInv
    <2> QED
      BY <1>5, <2>1, <2>2 DEF Prepare, MakeDir, Lost
  <1>6. CASE OpenDraft \/ OpenEncode
    <2>1. /\ pc \notin Owning \cup {"end"} /\ pc' \in {"decodeDraft", "encoding"}
          /\ dirs' = dirs \cup {IF pc' = "decodeDraft" THEN <<"draft", attempt>>
                                                     ELSE <<"encode", attempt>>}
          /\ UNCHANGED <<attempt, tracked, failure, interrupted>>
      BY <1>6 DEF OpenDraft, OpenEncode
    <2> QED
      BY <2>1 DEF Lost, Holding
  <1>7. CASE DecodeDraft
    <2>1. Range(tracked') = Range(tracked) \cup {<<"draft", attempt>>}
      BY <1>0, <1>7, RangeOfAppend DEF DecodeDraft, HandOver, Workdirs
    <2> QED
      BY <1>7, <2>1 DEF DecodeDraft, Lost, Holding
  <1>8. CASE Escalate
    <2>1. interrupted = {}
      BY <1>8 DEF Escalate, OutputInv
    <2> QED
      BY <1>8, <2>1 DEF Escalate, Lost
  <1>9. CASE Encode
    BY <1>9 DEF Encode, Lost, Holding
  <1>10. CASE RemoveEncode
    BY <1>10 DEF RemoveEncode, Lost, Holding
  <1>11. CASE RemoveWorkdir
    <2>1. Range(tracked) \subseteq Range(tracked') \cup {Head(tracked)}
      BY <1>0, <1>11, RangeOfTail DEF RemoveWorkdir
    <2> QED
      BY <1>11, <2>1 DEF RemoveWorkdir, Lost, Holding
  <1>12. CASE FinishCleanup
    BY <1>12 DEF FinishCleanup, Lost, Holding, Range
  <1>13. CASE BeginFails
    <2>1. Range(tracked) = {}
      BY <1>13 DEF BeginFails, Range
    <2> QED
      BY <1>13, <2>1, NoneIsNoFailure DEF BeginFails, Fails, Lost, Holding
  <1>14. CASE StageFails \/ CopyFails
    BY <1>14, NoneIsNoFailure DEF StageFails, CopyFails, Guarded, Fails, Lost, Holding
  <1>15. CASE OpeningInterrupted
    BY <1>15, NoneIsNoFailure DEF OpeningInterrupted, Fails, Lost, Holding, Holders
  <1>16. CASE DecodeRaises
    <2>1. pc = "decodeSource" => Range(tracked) = {}
      BY DEF Range
    <2> QED
      BY <1>16, <2>1, NoneIsNoFailure DEF DecodeRaises, AfterDecode, Fails, Lost, Holding
  <1>17. CASE DecodeInterrupted
    <2>1. pc = "decodeSource" => Range(tracked) = {}
      BY DEF Range
    <2>2. /\ pc \in {"decodeSource", "decodeDraft"} /\ pc' = IF pc = "decodeSource" THEN "end" ELSE "cleanup"
          /\ failure' = "interrupt" /\ interrupted' = interrupted \cup {pc}
          /\ UNCHANGED <<attempt, dirs, tracked>>
      BY <1>17 DEF DecodeInterrupted, AfterDecode, Fails
    <2>3. \A stage : Holding(stage)' = Holding(stage)
      BY <2>2 DEF Holding
    <2>4. Lost' = Lost \cup {Holding(pc)}
      BY <2>2, <2>3 DEF Lost, Holders
    <2> QED
      BY <2>1, <2>2, <2>4, NoneIsNoFailure
  <1>18. CASE EncodeFails
    BY <1>18, NoneIsNoFailure DEF EncodeFails, Fails, Lost, Holding
  <1>19. CASE RemoveInterrupted
    BY <1>19, NoneIsNoFailure DEF RemoveInterrupted, Fails, Lost, Holding, Holders
  <1>20. CASE CleanupInterrupted
    BY <1>20, NoneIsNoFailure DEF CleanupInterrupted, Fails, Lost, Holding
  <1>21. CASE UNCHANGED vars
    BY <1>21 DEF vars, Lost, Holding
  <1> QED
    BY <1>1, <1>2, <1>3, <1>4, <1>5, <1>6, <1>7, <1>8, <1>9, <1>10, <1>11, <1>12, <1>13,
       <1>14, <1>15, <1>16, <1>17, <1>18, <1>19, <1>20, <1>21 DEF Next, Proceed, Break

-----------------------------------------------------------------------------
\* A call starts in the invariant.
LEMMA InitInv == Init => IInv
  <1> SUFFICES ASSUME Init PROVE IInv
    OBVIOUS
  <1>1. TypeOK
    BY InitTyped
  <1>2. ModeInv
    BY DEF Init, ModeInv, Loop, Judged
  <1>3. SettingsInv
    <2>1. policy.max_attempts \in Int
      BY <1>1, ArgumentsTyped
    <2>2. 0 <= Max({0, policy.max_attempts})
      BY <2>1, MaxOfTwo
    <2> QED
      BY <2>2, TwoToZero DEF Init, SettingsInv, BaseMargin
  <1>4. PassesInv
    BY DEF Init, PassesInv, Loop, Judged, Ended
  <1>5. DraftInv
    BY DEF Init, DraftInv, Loop, Judged
  <1>6. OutputInv
    BY NoAttemptIsAMark, MarksAreApart DEF Init, OutputInv, Ended
  <1>7. DirsInv
    BY DEF Init, DirsInv
  <1> QED
    BY <1>1, <1>2, <1>3, <1>4, <1>5, <1>6, <1>7 DEF IInv

\* No step leaves the invariant.
LEMMA StepInv == IInv /\ [Next]_vars => IInv'
  <1> SUFFICES ASSUME IInv, [Next]_vars PROVE IInv'
    OBVIOUS
  <1>1. TypeOK /\ ModeInv /\ SettingsInv /\ PassesInv /\ DraftInv /\ OutputInv /\ DirsInv
    BY DEF IInv
  <1> QED
    BY <1>1, TypeStep, ModeStep, SettingsStep, PassesStep, DraftStep, OutputStep, DirsStep
    DEF IInv

\* The conjunction of the parts above is an invariant.
THEOREM Invariance == Spec => []IInv
  BY InitInv, StepInv, PTL DEF Spec

\* The state keeps to its types.
THEOREM TypeCorrect == Spec => []TypeOK
  <1>1. IInv => TypeOK
    BY DEF IInv
  <1> QED
    BY <1>1, Invariance, PTL

\* The report of run() describes the file it wrote.
THEOREM ReportCorrect == Spec => []ReportDescribesOutput
  <1>1. IInv => ReportDescribesOutput
    <2> SUFFICES ASSUME IInv, mode = "run", report # None
                 PROVE  /\ output = draft.attempt
                        /\ report.spans = draft.spans
                        /\ report.passes # <<>>
                        /\ report.passes[Len(report.passes)].attempt = output
      BY DEF ReportDescribesOutput
    <2>1. /\ output = attempt /\ draft.attempt = attempt
          /\ report.spans = draft.spans /\ report.passes = passes
          /\ Len(passes) = attempt + 1
      BY DEF IInv, OutputInv
    <2>2. attempt \in Nat /\ passes \in Seq(Pass)
      BY DEF IInv, TypeOK
    <2>3. attempt + 1 \in DOMAIN passes
      BY <2>1, <2>2
    <2>4. passes[attempt + 1].attempt = attempt
      BY <2>2, <2>3 DEF IInv, PassesInv
    <2> QED
      BY <2>1, <2>2, <2>3, <2>4
  <1> QED
    BY <1>1, Invariance, PTL

\* If no attempt is left after a verification, the policy's number was made.
LEMMA ExhaustedIsAll ==
    ASSUME IInv, Exhausted, Len(passes) = attempt + 1
    PROVE  Len(passes) = AttemptsAllowed
  <1>1. attempt \in Nat /\ policy.max_attempts \in Int
    BY ArgumentsTyped DEF IInv, TypeOK
  <1>2. /\ attempt <= Max({0, policy.max_attempts})
        /\ Max({0, policy.max_attempts}) =
              IF 0 >= policy.max_attempts THEN 0 ELSE policy.max_attempts
    BY <1>1, MaxOfTwo DEF IInv, SettingsInv
  <1> QED
    BY <1>1, <1>2 DEF Exhausted, AttemptsAllowed

\* unresolved is set exactly when the delivered file was still flagged, and
\* then every attempt the policy allows was made.
THEOREM VerdictCorrect == Spec => []VerdictIsEarned
  <1>1. IInv => VerdictIsEarned
    <2> SUFFICES ASSUME IInv, mode = "run", report # None
                 PROVE  LET last == report.passes[Len(report.passes)]
                        IN  IF report.unresolved
                            THEN last.flagged > 0 /\ Len(report.passes) = AttemptsAllowed
                            ELSE last.flagged = 0
      BY DEF VerdictIsEarned
    <2>1. /\ report.passes = passes /\ report.unresolved = Flagged
          /\ Flagged => Exhausted
          /\ Len(passes) = attempt + 1
      BY DEF IInv, OutputInv
    <2>2. /\ attempt \in Nat /\ passes \in Seq(Pass) /\ policy.max_attempts \in Int
      BY ArgumentsTyped DEF IInv, TypeOK
    <2>3. passes[Len(passes)].flagged \in Nat /\ passes # <<>>
      <3>1. Len(passes) \in DOMAIN passes /\ passes # <<>>
        BY <2>1, <2>2
      <3>2. passes[Len(passes)] \in Pass
        BY <2>2, <3>1
      <3> QED
        BY <3>1, <3>2, MaxFlaggedIsNat DEF Pass
    <2>6. Flagged => Len(passes) = AttemptsAllowed
      BY <2>1, ExhaustedIsAll
    <2>7. Flagged <=> passes[Len(passes)].flagged > 0
      BY <2>3 DEF Flagged
    <2> QED
      BY <2>1, <2>3, <2>6, <2>7
  <1> QED
    BY <1>1, Invariance, PTL

\* Only a draft that is verified and final reaches the output, or a part of it.
THEOREM OutputVerified == Spec => []OnlyVerifiedOutput
  <1>1. IInv => OnlyVerifiedOutput
    <2> SUFFICES ASSUME IInv PROVE OnlyVerifiedOutput
      OBVIOUS
    <2>1. /\ attempt \in Nat /\ passes \in Seq(Pass) /\ policy.max_attempts \in Int
          /\ output = Partial => failure # None
      BY ArgumentsTyped DEF IInv, TypeOK, OutputInv
    <2>2. ASSUME output \in Nat \cup {Partial}
          PROVE  /\ mode = "run" /\ Len(passes) = attempt + 1
                 /\ ~Flagged \/ Exhausted
      BY <2>2 DEF IInv, OutputInv
    <2>3. ASSUME output \in Nat \cup {Partial}, Exhausted
          PROVE  Len(passes) = AttemptsAllowed
      BY <2>1, <2>2, <2>3, ExhaustedIsAll
    <2>4. ASSUME output \in Nat
          PROVE  passes[Len(passes)].attempt = output
      <3>1. Len(passes) = attempt + 1 /\ output = attempt
        BY <2>2, <2>4 DEF IInv, OutputInv
      <3>2. attempt + 1 \in DOMAIN passes
        BY <2>1, <3>1
      <3>3. passes[attempt + 1].attempt = attempt
        BY <2>1, <3>2 DEF IInv, PassesInv
      <3> QED
        BY <3>1, <3>3
    <2>5. output \in Nat \cup {Partial} => passes # <<>>
      BY <2>1, <2>2
    <2> QED
      BY <2>1, <2>2, <2>3, <2>4, <2>5 DEF OnlyVerifiedOutput
  <1> QED
    BY <1>1, Invariance, PTL

\* The passes are the attempts, in order, within the policy's number.
THEOREM PassesCorrect == Spec => []PassesAreHistory
  <1>1. IInv => PassesAreHistory
    <2> SUFFICES ASSUME IInv PROVE PassesAreHistory
      OBVIOUS
    <2>1. attempt \in Nat /\ passes \in Seq(Pass) /\ policy.max_attempts \in Int
      BY ArgumentsTyped DEF IInv, TypeOK
    <2>2. attempt <= Max({0, policy.max_attempts}) /\ Max({0, policy.max_attempts}) \in Int
      BY <2>1, MaxOfTwo DEF IInv, SettingsInv
    <2>3. Len(passes) <= AttemptsAllowed
      BY <2>1, <2>2 DEF IInv, PassesInv, AttemptsAllowed
    <2> QED
      BY <2>3 DEF IInv, PassesInv, PassesAreHistory
  <1> QED
    BY <1>1, Invariance, PTL

\* Whatever call ends, and however: no temp directory is left but those that an
\* interrupt kept from being removed.
THEOREM TempDirsRemoved == Spec => []NoTempLeak
  <1>1. IInv => NoTempLeak
    BY DEF IInv, DirsInv, Lost, NoTempLeak
  <1> QED
    BY <1>1, Invariance, PTL

-----------------------------------------------------------------------------
\* A retry hides at least what the draft before it hid.
THEOREM RetryGivesNoGround == Spec => RetryHidesMore
  <1> DEFINE Step == draft # None /\ draft' # draft => GivesNoGround
  <1>1. IInv /\ [Next]_vars => [Step]_vars
    <2> SUFFICES ASSUME IInv, [Next]_vars, draft # None, draft' # draft
                 PROVE  GivesNoGround
      OBVIOUS
    <2>1. Compose
      BY DEF Next, Proceed, Break, Begin, DecodeSource, Detect, ScanVote, OpenNative,
         Prepare, VoteAgain, OpenEncode, Encode, RemoveEncode, OpenDraft, DecodeDraft, Verify, Escalate, CopyDraft, Return,
       RemoveWorkdir, FinishCleanup,
         BeginFails, StageFails, CopyFails, OpeningInterrupted,
         DecodeRaises, DecodeInterrupted, EncodeFails, RemoveInterrupted, CleanupInterrupted, vars
    <2>2. draft' = [attempt |-> attempt, spans |-> spans, margin |-> margin] /\ pc = "compose"
      BY <2>1 DEF Compose, Goto
    <2>3. draft.margin < margin /\ draft.spans \subseteq spans
      BY <2>2 DEF IInv, DraftInv, Loop, Judged
    <2>4. /\ draft.margin \in Nat /\ margin \in Nat
          /\ draft.spans \in SUBSET Span /\ spans \in SUBSET Span
      BY DEF IInv, TypeOK, Draft
    <2> QED
      BY <2>2, <2>3, <2>4, HiddenGrows DEF GivesNoGround
  <1>2. IInv /\ [Next]_vars => [draft # None /\ draft' # draft => GivesNoGround]_vars
    BY <1>1
  <1> QED
    BY <1>2, Invariance, PTL DEF Spec, RetryHidesMore

\* Whatever the draft's vote trusted is hidden in it.
THEOREM TrustedHidden == Spec => []TrustedIsHidden
  <1>1. IInv => TrustedIsHidden
    <2> SUFFICES ASSUME IInv, draft # None, NEW s \in draft.spans, NEW t \in Moments
                 PROVE  /\ (s.box # NoBox /\ s.start <= t /\ t <= s.end) =>
                              \A p \in Pixels : InBox(p[1], p[2], s.box) =>
                                                p \in Hidden(draft.spans, draft.margin, t)
                        /\ (s.type = "audio" /\ s.start <= t /\ t + 1 < s.end) =>
                              Muted(draft.spans, t)
      BY DEF TrustedIsHidden
    <2>1. draft.spans \in SUBSET Span /\ draft.margin \in Nat \ {0} /\ t \in Nat
      BY MomentsAreTimes DEF IInv, TypeOK, DraftInv, Draft
    <2> QED
      BY <2>1, SpanHidden
  <1> QED
    BY <1>1, Invariance, PTL

\* A retry never repeats the settings of the attempt before it.
THEOREM RetryChangesSettings == Spec => RetryEscalates
  <1>1. IInv /\ [Next]_vars =>
           [attempt' # attempt => /\ attempt' = attempt + 1
                                  /\ margin' > margin
                                  /\ threshold' <= Max({1, threshold})]_vars
    <2> SUFFICES ASSUME IInv, [Next]_vars, attempt' # attempt
                 PROVE  /\ attempt' = attempt + 1
                        /\ margin' > margin
                        /\ threshold' <= Max({1, threshold})
      OBVIOUS
    <2>1. CASE Prepare
      BY <2>1 DEF Prepare, Goto, IInv, SettingsInv
    <2>2. CASE ~Prepare
      <3>1. Escalate
        BY <2>2 DEF Next, Proceed, Break, Begin, DecodeSource, Detect, ScanVote, OpenNative,
           VoteAgain, OpenEncode, Encode, RemoveEncode, Compose, OpenDraft, DecodeDraft, Verify, CopyDraft, Return, RemoveWorkdir, FinishCleanup,
           BeginFails, StageFails, CopyFails, OpeningInterrupted,
         DecodeRaises, DecodeInterrupted, EncodeFails, RemoveInterrupted, CleanupInterrupted, vars, settings
      <3>2. attempt \in Nat /\ margin \in Nat /\ margin = BaseMargin * 2 ^ attempt /\ threshold \in Int
        BY DEF IInv, TypeOK, SettingsInv
      <3>3. /\ threshold' = EscalatedThreshold(attempt) /\ margin' = EscalatedMargin(attempt)
            /\ attempt' = attempt + 1
        BY <3>1 DEF Escalate
      <3>4. threshold' = 1 /\ margin' > margin
        BY <3>2, <3>3, EscalatedSettings
      <3>5. 1 <= Max({1, threshold})
        BY <3>2, MaxOfTwo
      <3> QED
        BY <3>3, <3>4, <3>5
    <2> QED
      BY <2>1, <2>2
  <1> QED
    BY <1>1, Invariance, PTL DEF Spec, RetryEscalates

-----------------------------------------------------------------------------
\* RedactionJob counts the attempts as Orchestrator does.
LEMMA JobAttempts == Job!Attempts = AttemptsAllowed
  BY DEF Job!Attempts, AttemptsAllowed, Job!Max, Max

\* After a verification that is not followed by a retry, the draft is final.
LEMMA JobFinal ==
    ASSUME IInv, Len(passes) = attempt + 1, Flagged => Exhausted
    PROVE  Job!Final /\ passes # <<>>
  <1>1. attempt \in Nat /\ passes \in Seq(Pass)
    BY DEF IInv, TypeOK
  <1>2. Len(passes) > 0 /\ passes # <<>>
    BY <1>1
  <1> QED
    BY <1>2, ExhaustedIsAll, JobAttempts DEF Job!Final

\* What RedactionJob sees of a call that has not ended does not change unless
\* it verifies or writes.
LEMMA JobIdle ==
    ASSUME pc # "end", pc' # "end", UNCHANGED <<mode, policy, passes, output>>
    PROVE  UNCHANGED Job!vars
  BY DEF Job!vars, Flagged

\* A call that ends with a failure has aborted.
LEMMA JobAborts ==
    ASSUME pc # "end", pc' = "end", failure' # None, UNCHANGED <<mode, policy, passes, output>>
    PROVE  Job!Abort
  BY DEF Job!Abort, Flagged

\* The initial states map to initial states of RedactionJob, and each step of
\* the orchestrator to a step of it or to none.
THEOREM OrchestratorImplementsJob ==
    Spec => Job!Init /\ [][Job!Next]_(Job!vars)
  <1>1. Init => Job!Init
    BY DEF Init, Job!Init, Flagged
  <1>2. IInv /\ [Next]_vars => [Job!Next]_(Job!vars)
    <2> SUFFICES ASSUME IInv, [Next]_vars PROVE [Job!Next]_(Job!vars)
      OBVIOUS
    <2> USE DEF Goto, Ended, settings
    <2>1. CASE Verify
      <3>1. PICK n \in 0 .. MaxFlagged :
               passes' = Append(passes, [attempt |-> attempt, flagged |-> n,
                                         escalated |-> attempt > 0])
        BY <2>1 DEF Verify
      <3>2. /\ Len(passes) = attempt /\ attempt \in Nat /\ passes \in Seq(Pass)
            /\ mode = "run" /\ policy.max_attempts \in Int
        BY <2>1, ArgumentsTyped DEF Verify, IInv, PassesInv, ModeInv, Loop, Judged, TypeOK
      <3>3. Len(passes') = Len(passes) + 1 /\ passes' # <<>>
        BY <3>1, <3>2
      <3>4. passes # <<>> => Flagged
        BY <2>1, <3>2 DEF Verify, IInv, PassesInv, Loop, Flagged
      <3>5. attempt < Job!Attempts
        <4>1. attempt <= Max({0, policy.max_attempts}) /\ Max({0, policy.max_attempts}) \in Int
          BY <3>2, MaxOfTwo DEF IInv, SettingsInv
        <4> QED
          BY <3>2, <4>1, JobAttempts DEF AttemptsAllowed
      <3>6. /\ pc # "end" /\ pc' # "end"
            /\ UNCHANGED <<mode, policy, output>>
        BY <2>1 DEF Verify
      <3>7. Job!Try
        BY <3>2, <3>3, <3>4, <3>5, <3>6 DEF Job!Try, Flagged
      <3> QED
        BY <3>7 DEF Job!Next
    <2>2. CASE CopyDraft \/ CopyFails
      <3>1. /\ Len(passes) = attempt + 1 /\ attempt \in Nat /\ (Flagged => Exhausted)
            /\ output \in {Absent, Stale}
        BY <2>2 DEF CopyDraft, CopyFails, IInv, PassesInv, Judged, OutputInv, TypeOK
      <3>2. CopyDraft => draft.attempt = attempt
        BY DEF CopyDraft, IInv, DraftInv, Judged
      <3>3. output' \in {Partial, Len(passes) - 1}
        BY <2>2, <3>1, <3>2 DEF CopyDraft, CopyFails
      <3>4. pc # "end" /\ pc' # "end" /\ UNCHANGED <<mode, policy, passes>>
        BY <2>2 DEF CopyDraft, CopyFails
      <3>5. Job!Final
        BY <3>1, JobFinal
      <3>6. Job!Write
        BY <3>1, <3>3, <3>4, <3>5 DEF Job!Write, Flagged
      <3> QED
        BY <3>6 DEF Job!Next
    <2>3. CASE FinishCleanup
      <3>1. /\ pc = "cleanup" /\ pc' = "end"
            /\ UNCHANGED <<mode, policy, passes, output, report, failure>>
        BY <2>3 DEF FinishCleanup
      <3>2. CASE failure # None
        BY <3>1, <3>2, JobAborts DEF Job!Next
      <3>3. CASE failure = None /\ mode = "scan"
        <4>1. Job!List
          BY <3>1, <3>3 DEF Job!List, Flagged
        <4> QED
          BY <4>1 DEF Job!Next
      <3>4. CASE failure = None /\ mode = "run"
        <4>1. /\ output \in Nat /\ output = attempt /\ Len(passes) = attempt + 1
              /\ report.unresolved = Flagged /\ (Flagged => Exhausted)
          BY <3>1, <3>4 DEF IInv, OutputInv
        <4>2. Job!Final /\ passes # <<>>
          BY <4>1, JobFinal
        <4>3. output = Len(passes) - 1
          BY <4>1
        <4>4. Job!Deliver
          <5>1. CASE Flagged
            BY <3>1, <3>4, <4>1, <4>2, <4>3, <5>1 DEF Job!Deliver, Flagged
          <5>2. CASE ~Flagged
            BY <3>1, <3>4, <4>1, <4>2, <4>3, <5>2 DEF Job!Deliver, Flagged
          <5> QED
            BY <5>1, <5>2
        <4> QED
          BY <4>4 DEF Job!Next
      <3>5. mode \in {"scan", "run"}
        BY DEF IInv, TypeOK
      <3> QED
        BY <3>2, <3>3, <3>4, <3>5
    <2>4. CASE BeginFails \/ CleanupInterrupted
      <3>1. /\ pc # "end" /\ pc' = "end" /\ failure' # None
            /\ UNCHANGED <<mode, policy, passes, output>>
        BY <2>4, NoneIsNoFailure DEF BeginFails, CleanupInterrupted, Fails
      <3> QED
        BY <3>1, JobAborts DEF Job!Next
    <2>5. CASE DecodeRaises \/ DecodeInterrupted
      <3>1. /\ pc # "end" /\ failure' # None
            /\ UNCHANGED <<mode, policy, passes, output>>
        BY <2>5, NoneIsNoFailure DEF DecodeRaises, DecodeInterrupted, Fails
      <3>2. CASE pc' = "end"
        BY <3>1, <3>2, JobAborts DEF Job!Next
      <3>3. CASE pc' # "end"
        BY <3>1, <3>3, JobIdle
      <3> QED
        BY <3>2, <3>3
    <2>6. CASE \/ Begin \/ DecodeSource \/ Detect \/ ScanVote \/ OpenNative \/ Prepare
               \/ VoteAgain \/ OpenEncode \/ Encode \/ RemoveEncode \/ Compose \/ OpenDraft
               \/ DecodeDraft \/ Escalate \/ Return \/ RemoveWorkdir
               \/ StageFails \/ OpeningInterrupted \/ EncodeFails \/ RemoveInterrupted
      <3>1. pc # "end" /\ pc' # "end" /\ UNCHANGED <<mode, policy, passes, output>>
        BY <2>6 DEF Begin, DecodeSource, Detect, ScanVote, OpenNative, Prepare, VoteAgain,
           OpenEncode, Encode, RemoveEncode, Compose, OpenDraft, DecodeDraft, Escalate, Return,
           RemoveWorkdir, StageFails, Guarded, OpeningInterrupted, EncodeFails, RemoveInterrupted
      <3> QED
        BY <3>1, JobIdle
    <2>7. CASE UNCHANGED vars
      BY <2>7 DEF vars, Job!vars, Flagged
    <2> QED
      BY <2>1, <2>2, <2>3, <2>4, <2>5, <2>6, <2>7 DEF Next, Proceed, Break
  <1> QED
    BY <1>1, <1>2, Invariance, PTL DEF Spec
=============================================================================
