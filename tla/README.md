# A TLA+ model of RedactGuard

RedactGuard finds faces, text and speech that identify people in a video, hides
them, looks at the result again with the same detectors, and retries with
stronger settings until nothing is found or the attempts are used up. This
directory models what its own code decides: the retry loop and its clean-up, the
detectors' own algorithms and how they are discovered, the ensemble vote, what a
redaction covers, the commands, and the jobs and accounts of the web application. TLC checks the modules on
small instances; TLAPS proves the main theorems for every value of the constants.

Contents: [the system](#the-system), [the modules](#the-modules),
[the runs](#the-runs), [bounds](#bounds-and-why-they-are-enough),
[fairness and assumptions](#fairness-deadlock-and-assumptions),
[proofs](#what-is-proved), [findings](#findings),
[not modelled](#what-is-not-modelled), [plan](#plan).

## The system

Paths are below `src/packages/`. "RG" is `core/redactguard_core`.

| Component | State it keeps | Operations | Talks to |
|---|---|---|---|
| Orchestrator, retry controller, verifier (`RG/pipeline/orchestrator.py`, `RG/verification/`) | settings of the attempt, current manifest, last draft, verification passes, list of temp directories | `scan`, `run`, `escalate`, `verify` | calls every core part below; reports stages through `on_progress` |
| Ensemble voting (`RG/ensemble/voting.py`) | the list of groups, during one call | `vote` | called by the orchestrator and, with threshold 1, by the verifier |
| Visual and audio redaction, muxer (`RG/redaction/`) | frames and track in memory, a temp directory per encoding | `apply_visual_redactions`, `apply_audio_redactions`, `encode_video_from_frames`, `mux` | given the spans, the margin and the *original* media |
| Ingest (`RG/pipeline/ingest.py`) | a temp directory per decode | `decode_media`, `sample_frames`, `iter_input_paths` | ffmpeg |
| Detectors (`RG/detectors/face`, `text`, `audio`, `common`) | nothing between calls | `run_detectors`, `detect` | OCR, MSER, cascades, Whisper, energy VAD |
| Detector registry (`RG/detectors/registry.py`) | `_REGISTRY`, shared by all threads of a process | `register_detector`, `get_detectors` | Python's import system, plugins' entry points |
| CLI (`cli/redactguard_cli/`) | counters of the batch loop, output and report files | `run`, `scan`, `batch` | orchestrator |
| Web jobs (`webapp/.../jobs.py`, `db.py`, `routes/pages.py`) | the `jobs` table, files per job, the thread pool's queue | `upload_submit`, `create_job`, `submit_job`, `run_job_sync`, the pages | orchestrator on pool threads; SQLite |
| Accounts and sessions (`webapp/.../auth.py`, `security.py`) | the `users` table, signed cookies | signup, login, logout, `current_user` | every page |

What is hard about it, and what each part has to get right:

* **Orchestrator.** Draft, manifest, verification passes and settings are
  assigned at different points of a `while True` loop any stage of which may
  raise. The report must describe the very file that was delivered; `unresolved`
  must be true of it; a retry must hide at least what the draft before it hid;
  nothing unverified may reach the output, wherever the call is broken off, also between
  the copy and the end of the `finally` clause; every temp directory must go, also one
  that `decode_media` has made and not yet returned, and the encoder's, which `run`
  never learns of; the loop must end for every
  `max_attempts`, zero and negative ones included.
* **Detectors.** What they overlook nobody redacts. Merged boxes must enclose what
  they were merged from and nothing else, and the limit on the passes must not cut
  a line in two; an interval still open when the track ends must be closed; offsets
  into a transcript must come back as the times of the right words; and one list
  has to hold it all. A keyword is looked for in the lowered text and cut out of the
  original, and placed on a frame by comparing texts.
* **Registry.** Threads discover detectors at once and fill one list, by imports that
  may raise half way and are then done again. None may detect with half an ensemble,
  the source and its redaction must be searched with the same one, and no thread may
  wait forever.
* **Redaction.** Boxes are fractions of the frame that are multiplied out and cut
  to whole pixels, times are cut to whole milliseconds: nothing trusted may stay
  open at an edge, at any margin. Spans are applied one on the other, each mute slices
  a track of which the one before may have changed the length, and frames are redacted
  that no detector ever looked at.
* **Voting.** Greedy, dependent on the order in which detectors ran, and
  chaining. It must lose no detection, count a detector once, corroborate each
  group, and at threshold 1 (the verifier's) report everything anyone saw.
* **Commands.** In a batch, one file's failure must neither stop the others nor be
  forgotten in the exit status, and a report must be about the file beside it. Whoever
  reads the status of `run` or `scan` takes it for the truth about the file on disk, and
  a traceback and an interrupt end the process with the status of a failed file.
* **Web jobs.** Handlers on an event loop, threads, a table that survives a crash
  and a queue that does not, and database calls that may raise at any point. A job
  must be run once, in order, and what its row says must be true of its file, for
  good.
* **Accounts.** Signup is a SELECT and then an INSERT, on concurrent connections; the
  server may stop between the INSERT, the commit and the answer; and a browser's
  answers come in any order. A session must name a row, and the row it was given for.

`PROJECT.json` lists these hazards line by line.

## The modules

| Module | Models | How it corresponds |
|---|---|---|
| `Ensemble` | `voting.py`, as operators | `Overlaps` is `_overlaps`, `IouReached` is `_iou >= 0.1` multiplied out, `UnionBox` is `_union_bbox`. `Vote` is declarative: a detection's group is named by the index of its founder (`Founder`), the least group it overlaps |
| `TextRegions` | `mser_text_region_detector.py`, one frame | `Keep` and `Suppress` are one turn of `_non_max_suppress`, `Unite` and `Place` one turn of a pass of `_merge_horizontally_adjacent`, `EndPass` the end of one |
| `SpeechIntervals` | `find_speech_intervals` | `Loud` and `Quiet` are one turn of the loop, `Finish` what follows it |
| `Transcript` | `whisper_detector.py` | `AddWord` and `SkipBlank` are one turn of `build_indexed_transcript`; `TimeRange` is `_time_range_for_match` |
| `Matching` | `pii_patterns.py` keywords, `_bbox_for_match` of `ocr_detector.py`, as operators | `KeywordMatches` is `find_keyword_matches`, with texts as sequences of characters and `LowerCase` what `lower()` makes of each, one character or more; `MatchedBoxes` are the words a match lines up with. What they are held against speaks of characters only: `Stands` are the places where a keyword stands in a text, `Concerns` says that a word of a frame has to do with it |
| `Detectors` | `run_detectors` and the `detect` methods | the loop over types and detectors; `TextRegions`, `SpeechIntervals` and `Transcript` are instances whose steps are its own while that detector runs, and texts are searched with `Matching`; `DetectorRaises` ends it anywhere |
| `Registry` | `get_detectors`, `register_detector`, discovery | each thread goes through the packages (`Discovering`), imports one nobody is importing (`BeginImport`), registers class by class (`Register`), waits for one somebody else imports (no action is enabled), or skips one; `Instantiate` is what `get_detectors` returns |
| `Voting` | `vote()`, as its two loops | `Join` and `Found` are one turn of the first loop, `Filter` of the second; `groups` is the list of groups, by index |
| `Redaction` | `visual.py`, `audio.py` | `Expand` is `expand_bbox_px` with its clamping, `Crop` the region cut out for it once `int()` has made pixels of the fractions, `Hidden` and `Muted` what is covered at a moment |
| `Compositor` | the loops of `apply_visual_redactions` and `apply_audio_redactions`, `mux` | `HideSpan`, `SkipSpan` are one turn of the inner loop, `FinishFrame` of the outer one; `MuteSegment` is `mute_segment` on the track as a list, `MuteSpan` and `SkipEmpty` one turn of its loop; `MuxVideo` and `MuxBoth` are the two calls of ffmpeg |
| `RedactionJob` | what a call of the orchestrator promises | abstract specification: `Try`, `Write` (the last draft, or a part of it, gets to the output), `Deliver` (the call returns), `List`, `Abort` (it fails, with whatever the output holds by then) |
| `Orchestrator` | `Orchestrator.scan`/`run`, `RetryController`, `Verifier`, `decode_media`, `encode_video_from_frames`, `mux` | one action per stage (`pc` names the stage about to run) and, beside each, how it fails: `StageFails`, `CopyFails`, `BeginFails`, `EncodeFails`, `DecodeRaises`, and with an interrupt only, `DecodeInterrupted`, `OpeningInterrupted` (right behind a `mkdtemp`), `RemoveInterrupted` (in the encoder's `finally` clause) and `CleanupInterrupted` (in the call's). `CopyDraft` and `Return` are two steps; `RemoveWorkdir` is one turn of the `finally` clause's loop, `FinishCleanup` its end. `dirs` are directories that exist, `tracked` is what is left of `temp_workdirs`, `interrupted` the stages that an interrupt broke off |
| `Commands` | `batch.py`, `run.py`, `scan.py` | instantiates `RedactionJob` for the current file; `Take`, `Report`, `Summarise` are the loop of `batch`, `WriteManifest`, `Refuse`, `Answer` what `run` and `scan` do with the result; beside each, how it raises. `exit` is the status, 0 or 1, and `said` what the terminal shows last: `Dies` is how Python and click end the process, with a traceback or "Aborted!", and with status 1 |
| `JobBoard` | what the pages promise of jobs | abstract specification: a job is accepted, started once, and finished or failed for good |
| `WebJobs` | `pages.py` upload, `jobs.py`, `db.py` | `Save`..`Submit` are the handler between its awaits; `Take`..`Escape` are `run_job_sync` statement by statement, with each database call either working or raising; `RunRaises` may leave the output incomplete, or complete, once `run()` is under way (`UnderWay`); `Crash` and `Restart` |
| `Accounts` | signup, login, logout, pages; `auth.py`, `security.py`, `config.py`, `app.py` | a request's `step` is its next database call; `writing` is SQLite's write lock between the INSERT and the commit; `DatabaseRaises` is a call that raises, of the commit too; `Receive` is the answer's arrival with its cookie |
| `Listing` | `sorted()`, and lists picked from lists | `InOrder` lists a finite set by a set of pairs that says which comes before which |
| `VotingProofs`, `RedactionProofs`, `CompositorProofs`, `OrchestratorProofs`, `DetectorsProofs`, `WebJobsProofs`, `AccountsProofs`, `CommandsProofs` | theorems | see [below](#what-is-proved) |
| `MCVoting`, `MCDetectors`, `MCRegistry`, `MCCompositor`, `MCOrchestrator`, `MCCommands`, `MCWebJobs`, `MCAccounts` | the instances TLC checks | constants only |

`Orchestrator` extends `Redaction`, which extends `Ensemble`: the stages call the
very operators the redaction and vote modules define. `Orchestrator` takes for granted
that a draft hides `Hidden` and `Muted`; `Compositor`, which extends `Redaction` too,
shows that the loops of the code arrive there (`HidesWhatIsTrusted`), and likewise
`Voting` shows of the loop of `vote` that it computes `Vote`. `Detectors` takes the
lists of `Registered` for granted, and `Registry` shows that each call gets just that,
or with repetitions after an import that raised: each detector of the type and no other,
first behind all that are defined before it, and the same list each time (`OneEnsemble`). `Orchestrator` implements
`RedactionJob`. `Detectors` gives `Orchestrator` its `Raws`: both take a list of
`Detection`s, so what the one produces is what the other votes on (`TypeOK` of
`Detectors`). `Commands` is built on `RedactionJob`, not on the stages, so what
holds of a command holds for whatever implements that promise. `WebJobs` uses the
outcomes of `RedactionJob` as results of a job and implements `JobBoard`.

What Tesseract, MSER, the cascades and Whisper find is the environment's choice, and
so is what the verifier still sees in a draft: neither is a function that this code
controls; so is where the regular expressions match. Confidence values and layout of reports are left out,
because no decision depends on them. A detection's box is in whole pixels, as the
detectors find it, and times are in whole milliseconds. What the code keeps are
fractions, and a fraction multiplied out may lie just below the whole number it
stands for, so that `int()` takes the number before: `ShortEdges` and `ShortTimes`
say for which edges and times that happens, and the proofs hold for any.

Definitions introduced by a comment "Mutant of X" are variants of X with a
plausible bug. No specification uses them; substituting one for X makes TLC find
the property that `PROJECT.json` pairs it with violated, which shows that the
property can fail.

## The runs

Each run is a `.cfg` for an `MC` module.

| Run | Shows |
|---|---|
| `orchestrator` | one call of `scan` or `run` with any stage failing or interrupted: `ReportDescribesOutput`, `VerdictIsEarned`, `OnlyVerifiedOutput`, `NoTempLeak`, `TrustedIsHidden`; over steps `RetryHidesMore`; it `Ends`; and it implements `RedactionJob` (`ImplementsJob`) |
| `compositor` | one draft from every clip, list of spans and margin: `HidesWhatIsTrusted`, `SoundStaysInPlace`, `SamplesTile` |
| `detectors` | `run_detectors` on media that vary in blobs, loud frames, words, texts, or all at once, any detector raising: `Clustered`, `MergingKeeps`, `Converged` (text regions), `StretchesFound` (speech), `TimesAreTheWords` (transcript), `EverythingReported`, `KeywordsAreFound` |
| `registry` | two threads that discover detectors at once, with imports and constructors that raise: `OneEnsemble`, `CallsEnd` |
| `voting` | `vote()` on every list of up to four detections out of nine, in every order: the loop computes the declarative `Vote` (`ComputesVote`), and `ThresholdOneDropsNothing` |
| `commands` | a batch of three files, two with one base name, or `run` or `scan` on one: `ExitTells`, `ReportMatchesOutput` |
| `web_jobs` | three uploads on two threads, a crash and restart, a failing database call: `OneHolder`, `NoOvertaking`, `DoneIsDelivered`, `SettledIsFinal`, `Settles`, and it implements `JobBoard` |
| `accounts` | three requests of two browsers, with database calls that raise, and a restart: `OneAccountPerEmail`, `SessionIsEarned` |
| `agreement`, `batch_reports`, `never_raises`, `waiting` | each a counterexample to a sentence of the documentation, see [findings](#findings) |

## Bounds, and why they are enough

* `orchestrator`: a frame of 24 x 2 pixels, so that the margins 4, 8, 16, 32 are
  clamped at no edge, one edge, or both, and boxes at different places are told
  apart; four sources (nothing; agreement and a lone detection; a match without a
  box; overlapping and lone speech with text); `max_attempts` -1, 0, 1 and 3 (below
  zero, none, one, several); thresholds 0 to 3 (below, at and above the two
  detectors that can agree); near edges cut short in every other draft and far edges
  in the drafts between, so that no two drafts of a call are cut alike, and two of the
  times; a verifier that flags 0, 1 or 2 spans. The loop is bounded by `max_attempts`
  itself. The proofs remove all of these bounds for the
  safety properties.
* `detectors`: every list of up to four blobs out of six (a near-duplicate pair, one
  too large, and four on a line of which each must be merged into the union of the
  others), with two merge passes instead of ten, so that boxes enough to need every
  pass, and more than the passes can merge, both occur; every pattern of up to nine
  frames of 30 ms, two more than the least interval of 200 ms needs; every list of up
  to three words, blank ones included, with any range as a pattern's match in their
  text; every row of up to three words read off a frame, with keywords that lie in one word or
  span two, in both cases, an empty one, one that is white space, and one with a character that `lower()`
  makes two of; the line break that ends what Tesseract reads, a text without words and
  one that is white space; and two frames with all of it.
* `registry`: two threads, as many as the pool has; two packages of two modules each,
  so that an import can raise between them, and a plugin that registers two classes, one of them for a type
  that is built in; five calls of `run_detectors`, two of them for one list of types, as the
  verification repeats a search; three failures, so that one package can fail twice and
  another once.
* `compositor`: three frames of 6 x 2 pixels, with a sample every other frame so that one lies between two samples; a box at
  the edge and two that overlap; sound that is absent, empty, shorter than, as long as and longer than the picture;
  every list of up to three of nine spans, among them two that overlap, one that
  truncation leaves empty, one that goes on beyond the end and one that begins there.
  The proofs remove all of these bounds.
* `voting`: four detections are the least with which two groups can each have two
  members, a detection can bridge two groups, and a group can fill up after
  another is founded; the nine detections relate in every way `_overlaps`
  distinguishes (other type, other time, boxes that overlap enough, too little, or
  not, no box).
* `commands`: three files are one that collides with another, and one that does not;
  an output, a report or a manifest of an earlier call may or may not be there.
* `web_jobs`: three uploads on two threads make one wait while two run. One crash
  lets jobs be lost in every step they can be in and new ones come after the
  restart. One failing call can hit each statement of each job, among them the
  report of a redaction that failed by itself, which is an independent choice.
* `accounts`: two signups for one email and a third request that sees what they left;
  two browsers, addresses and passwords are the least that can be mixed up; one restart,
  with and without a fixed key. The four sets are symmetric: no property names a member.

## Fairness, deadlock and assumptions

* `Orchestrator` is sequential, and `WF_vars(Proceed)` says that a stage that does not
  fail returns; `Proceed` leaves the failures out of `Next`, so none is ever forced.
  `Detectors`, `Voting`, `Compositor`, `Commands` and `Accounts` claim no liveness. Nothing has to fail, and a verifier that flags every
  draft is among the behaviours. The subprocess calls of the code have no timeout,
  so a hanging ffmpeg is what this excludes.
* `WebJobs`: weak fairness of `Submit(u)`, because there is no `await` between
  `create_job` and `submit_job`, and of the steps of each thread, which the
  operating system schedules. Nobody has to upload, and nothing has to crash or to
  be restarted.
* `Registry`: weak fairness of `Proceed(t)`, for each thread: the operating system
  schedules it, and an import that does not raise ends. No import has to raise, and none has to
  succeed either, up to the bound.
* `CHECK_DEADLOCK FALSE` everywhere: calls return, loops end, uploads are finite.
* `shutil.rmtree(..., ignore_errors=True)` removes the directory, if it is not
  interrupted. Interrupts may come anywhere: while a directory is made, between the
  copy and the return, and in either `finally` clause, a second one too.
* Typer's usage errors, status 2, come before a command's body and are not modelled.
* SQLite commits are atomic, ids are given in order, job directories named by
  UUIDs are distinct, no code deletes a row. A graceful shutdown lets the pool
  finish its queue, so `Crash` is the process being killed; temp directories that a
  killed process leaves in `/tmp` are not modelled.

## What is proved

One module of proofs belongs to each component, and `DetectorsProofs` to two, `Detectors` and
`Registry`, the two halves of `registry.py`. In each, a few properties become an
invariant that every step keeps, and the theorems are read off it.

### The retry loop

`OrchestratorProofs` proves, for every set of policies, every detection result,
every frame size and half window, and any number of retries:

| Theorem | Property |
|---|---|
| `TypeCorrect` | `TypeOK` |
| `ReportCorrect` | `ReportDescribesOutput` |
| `VerdictCorrect` | `VerdictIsEarned` |
| `OutputVerified` | `OnlyVerifiedOutput` |
| `PassesCorrect` | `PassesAreHistory`: the passes are the attempts in order (in no run) |
| `TempDirsRemoved` | `NoTempLeak` |
| `TrustedHidden` | `TrustedIsHidden` |
| `RetryGivesNoGround` | `RetryHidesMore` |
| `RetryChangesSettings` | `RetryEscalates`: a wider margin, a threshold no higher (in no run) |
| `OrchestratorImplementsJob` | the safety part of `ImplementsJob`: initial states map to initial states, steps to steps or stutters |

None of the properties is inductive: they speak of the end of a call, and say
nothing of the loop that leads there. The invariant `IInv` (theorem `Invariance`)
is a conjunction of named parts:

* `TypeOK`;
* `ModeInv`: a scan is only ever in a scan's stages, and touches no draft, pass or
  output;
* `SettingsInv`: at attempt 0 the settings are the policy's and `BaseMargin`, at
  attempt *n* > 0 they are threshold 1 and margin 4 * 2^n (this is what makes a
  retry stronger than *every* attempt before it, not merely different), and the
  attempt never exceeds `max(0, max_attempts)`;
* `PassesInv`: the passes are the attempts so far, one fewer before the current
  draft is verified, and all but the last are flagged;
* `DraftInv`: which attempt, spans and margin the last draft has in each stage;
* `OutputInv`: what the output and the report are in each stage: what lies there, complete
  or not, is of the last draft, which is not to be retried, and a report comes with the
  whole of it;
* `DirsInv`: a directory that exists is in `temp_workdirs`, or is the one that the function
  called in this stage keeps to itself (`Owned`), or was lost to an interrupt (`Lost`).

`RetryHidesMore` needs two facts about the operators, proved for all values:
`RedactionProofs`, which holds the lemmas about the operators of `Ensemble` too,
shows in `VoteIsMonotone` that a lower threshold keeps every span,
in `VerifierMissesNothing` that at threshold 1 each
detection is inside some span, and with `HiddenGrows` that more
spans and a wider margin never uncover a pixel, clamping and truncation
included; a margin wider by one pixel is needed for that, which is why `DraftInv`
says that the draft's margin is *less* than the next one's. `SpanHidden`, in the same
module, gives `TrustedIsHidden`: a margin of one pixel makes up for the pixel `int()`
may take.

`VotingProofs` proves of the loop of `vote`, for every list of detections and every
threshold, `TypeOK` (`VotingTypeCorrect`), that the groups partition the detections placed so far
and that each span has as many distinct detectors as the threshold asks for
(`GroupsAreSound`; both in no run), and `ThresholdOneDropsNothing` (`NothingDroppedAtOne`). Its
invariant adds to these that a group is of one type (`OneType`, without which the span
of a group would not have the type of its members), that each group judged so far
with enough detectors is among the spans (`Judged`), and that nothing is judged
before all is placed (`PlacedFirst`).

That the loops compute the declarative `Vote` (`LoopComputesVote`: `ComputesVote`) is
proved as well. `Vote` names a group by its founder, and `Founder` is a recursive
function. That there is a function that meets its equation is shown
without an induction theorem: of the lengths for which there is none, the least one
would be a counterexample, and it has a predecessor (`FoundersExist`). By the same
argument a founder founds its own group (`FounderIsHome`). The invariant is then that the groups so far are
those the founders name, in the order of their founding (`Founded`), and that the
spans are just what the groups judged have earned (`Earned`).

`CompositorProofs` proves all three properties of `Compositor`, for media of any
length, any list of spans and any margin above zero: `DraftHides`, `SoundInPlace`,
`SamplesLeaveNoGap`. The invariant says of each loop how far it has come:
`FramesInv`, that the frames done are hidden as `Hidden` says, and the one at hand
by the spans handled so far; `InPlace` and `Muffled`, that the track is the source's
with exactly the spans handled so far silent, and longer only by silence. That a mute
keeps this, whether it lies within the track, across its end or beyond it, is
`SegmentMuted`, which rests on what `SubSeq` and `\o` do (`Sliced`, `Joined`).
`DraftInv` ties the draft to the two. `SamplesTile` then follows from `DraftHides`:
the windows of two consecutive samples meet, and `SpanHidden` does the rest.

### The detectors

`DetectorsProofs` proves of `run_detectors` and of the loops inside the detectors, for
every medium, policy, list of keywords, set of registered detectors, frame length
and limit on the merge passes:

| Theorem | Property |
|---|---|
| `Typed` | `TypeOK`: what `vote` gets is a list of detections, as `Orchestrator` assumes of `Raws` |
| `SuppressesDuplicates` | `Clustered` |
| `MergingLosesNothing` | `MergingKeeps` |
| `PassesSuffice` | `Converged` |
| `FindsStretches` | `StretchesFound` |
| `TimesOfWords` | `TimesAreTheWords` |
| `ReportsEverything` | `EverythingReported` |
| `FindsKeywords` | `KeywordsAreFound` |

The invariant `Inv` has one part for each loop, and three for the loop around them:

* `BookInv`: which detector is in the middle of what; only the first of the queue is,
  and only with frames, or a track, left.
* `RegionsInv`: while boxes are suppressed they are in the order of their area, so that
  what suppresses a box is no smaller; without that, `Clustered` does not survive a step.
  While they are merged, the lines keep what outlived the suppression (`Keeps`), and
  the length of the list and the passes made do not add up to more boxes than there
  were: each pass but the last made the list shorter. That is why the passes suffice.
* `SpeechInv`: in the middle of the track the intervals are the long stretches that have
  ended, and an open interval began where the stretch did.
* `WordsInv`: each range of the transcript spells its word, and each character that is
  not a blank lies in a range.
* `ReportInv`: each enabled type is yet to come or opened, and each detector of an
  opened type is in the queue or through, that is, has reported all it had to. The
  first of the queue has reported the frames behind it; MSER, in the middle of one,
  has every plausible blob in sight (`Seen`): among the boxes to suppress, or met by one that was
  kept, which the lines then enclose. That two boxes share an area just when
  they meet on both axes is `SharedArea`. For a frame that OCR is through with, every word
  a keyword touches lies in a reported box (`KeywordsBoxed`).
* `SpokenInv`: the type "audio" is yet to come, or Whisper is in the queue, or every word
  of the transcript that a keyword touches lies in a reported interval. No other detector
  touches the transcript, so that this can still be said when the call returns.

`Matching` has two recursive definitions, the search for the next occurrence and the
joining of lists to one. That they are lists of ranges
(`KeywordMatchesAreList`) is shown by least and greatest counterexamples
again (`SearchesExist`, `JoinsExist`).

`FindsKeywords` needs their values as well, and goes the way of a keyword from
character to place:

1. Joining is associative with `\o` (`FlatJoins`), so the lowered text is the lowered
   texts before, at and behind any place (`LowerJoins`), and where lowering lengthens
   nothing an offset stays what it is (`LowerStraight`). A keyword that stands in the
   text therefore stands in the lowered text at the same offset, and the other way round
   (`SameIsFound`, `SamePlaces`).
2. The search passes over no occurrence, except those that overlap one it has found
   (`FindsComplete`): were one passed over, the last start of a search before it would
   have a successor that is also before it. So each place of `Stands` is a match
   (`KeywordIsFound`).
3. Stripping takes blanks off the ends only, and a character is a blank in one case if it is in
   the other (`StripParts`, `StripStands`): what was cut out of the text, stripped and
   lowered, is a part of each word that the keyword lies in, and has each word that lies in the
   keyword as its part (`ConcernedLinesUp`). Their boxes are among those united, and a union
   encloses each (`EnclosedArea`, `WordIsBoxed`).
4. In a transcript the match has a time, because a word it touches has one, and
   `TimesAreTheWords` says that the time covers each word touched.

### Discovery

The theorems about `Registry` stand at the end of `DetectorsProofs`, for any number of
threads, calls and failures and any packages, modules and classes: `DiscoveryIsTyped`
(`DiscoveryTypeOK`) and `ReturnsOneEnsemble` (`OneEnsemble`). The invariant `DiscoveryInv`:

* `OneImporter`: a package is being imported exactly while one thread is at it;
* `PassedAreKnown`: what a thread has passed is imported, so that a call that returns has
  seen every package through, its own imports and those it waited for;
* `ImportedAreListed`: every class of what is imported is in a list, and in the middle of
  an import every class that stands *before* where the thread is, in this package and in
  all earlier ones: packages are gone through in one order by all threads, and an
  import that is done again skips only modules that are through;
* `ListedInOrder`: each list has only classes of its type, each first behind all that stand
  before it, which holds through repetitions;
* `ListedOnce`: until something raises, what is listed is imported or behind an
  importing thread, so that nothing is registered a second time;
* `SeenAreLists`: what was returned is what the list is *now*, and all packages are imported.
  Nothing registers any more once they are, so the list is the same each time.

### The web application and the commands

`WebJobsProofs`, for any number of uploads, threads, crashes and failing calls:

| Theorem | Property |
|---|---|
| `Typed` | `TypeOK` |
| `Delivered` | `DoneIsDelivered` |
| `InOrder` | `NoOvertaking` |
| `HeldOnce` | `OneHolder` |
| `Final` | `SettledIsFinal` |
| `Implements` | `ImplementsBoard`: initial states map to initial states, steps to steps or stutters of `JobBoard`; all of it, as `JobBoard` states no fairness |

None but `DoneIsDelivered` is inductive. The invariant adds that the queue is in the order of
the uploads and that nothing from its head on has been begun (`QueueInv`); that at most
one handler is between `create_job` and `submit_job`, with the last job of the table,
which nobody else has (`RequestInv`); and what a thread at its step knows of its row and
its file, which no other thread has (`WorkInv`). A step of a thread on its job is summed
up once (`ActsOn`), so that each of the ten actions of a busy thread needs one lemma.

`AccountsProofs`, for any number of browsers, requests and restarts: `Typed`
(`TypeOK`), `Unambiguous` (`OneAccountPerEmail`), `Authentic` (`SessionIsEarned`). Two
facts make these inductive: while a signup holds the write lock, no row has its
email (`LockInv`), and every session that a request may yet answer with is earned
already (`AnswersInv`): an answer may come long after the browser has logged out.

`CommandsProofs`, for any set of files, however they share base names: `Typed`
(`TypeOK`), `Truthful` (`ExitTells`), `Separate` (`ReportMatchesOutput`). The invariant
says what the phase of the run at hand means for the output on disk (`RunInv`), that
`run` and `scan` write no earlier than when all is verified or listed (`OutputInv`), that
each file is to come, current or over, and those that are over are counted (`CountInv`),
and, which `ReportMatchesOutput` follows from and status 0 needs, that under each name that
has had a run lie the report and, unless that says it failed, the output of one and the same
file, the last to end (`LatestInv`).

### Assumptions

The assumptions are the `ASSUME`s of the modules: types of the constants, finite sets
of files, marks that are distinct from the values they stand beside (`NoneIsNoTime`
among them), and these about the code's data. Zero
seconds are zero milliseconds exactly (`ZeroIsExact`). A span does not end before it
starts (`SpansAreTrusted`): a vote's begins with the first and ends with the last of
its group, and a detector reports no interval backwards. A margin is positive
(`SourcesAreMedia`): the controller's base is 4, and only doubled. What `lower()` makes
of a character, and white space, the blank between two words among it, are characters
(`LowerCaseIsText`). Of two characters with one lower case, both are white space or neither is
(`BlanksStayBlank`): `lower()` leaves what has no case alone. The
built-in detectors are among the registered (`BuiltInsAreRegistered`): `get_detectors`
imports them before it answers, or raises. And of discovery (`DiscoveryAssumption`):
packages and modules are lists of names, a name is not both (`NamesAreKnown`), each
class is decorated at one place (`ClassesAreListed`), and calls ask for types somebody
registers for, the others being `NoDetector` in `Detectors` (`CallsAskForTypes`).

### Only model-checked

* Everything about liveness (`Ends`, `Settles`, `CallsEnd`, the fairness in
  `ImplementsJob`), because the prover does not handle `ENABLED`.

Every other property of the passing runs is stated by a theorem.

## Findings

Each is a sentence of the documentation that a run refutes; `PROJECT.json` quotes
it and names both lines.

1. `agreement`: greedy placement can separate two detectors that agree on a region,
   and the region is then not trusted.
2. `batch_reports`: files in different folders with one base name overwrite each
   other's output and report.
3. `never_raises`: a database error leaves `run_job_sync`, and the job stays queued
   or running.
4. `waiting`: after a crash and restart a job's page waits for a worker that nothing
   will ever give it.

Smaller ones that no run is spent on:

* The warning of an unresolved report says how many attempts were made, and says
  `max_attempts` of the `max_attempts + 1` (`orchestrator.py:232-233`).
* A detection without a box joins any group of its time, and so makes a group of
  boxes that overlap nowhere, which `voting.py:59-63` and the repository's
  `README.md:99-103` rule out.
* `find_keyword_matches` is said to be case-insensitive (`pii_patterns.py:59`). Behind
  a character whose lower case is two characters ("İ") its offsets are one too high,
  and the text cut out is not the keyword. Within a keyword such a character makes the
  lowered one longer, and the search goes on behind it. `Stands` excludes both, by `Straight`.
  The Greek final sigma, whose lower case depends on its neighbours, is left out of the model.
* A comment in `run` (`orchestrator.py:134-140`) and `docs/adr/0014` say that the
  directories are removed on every exit path. A Ctrl-C leaves one if it comes during a
  decode, or between a `mkdtemp` and the next line, or in the encoder's `finally` clause,
  and several if it comes in the call's own: `NoTempLeak` says what is true. In the last
  case a call fails whose output is complete (`OnlyVerifiedOutput`).
* Status 1 of `run`, `scan` and `batch` is a failure told in one line, but also a traceback
  and click's "Aborted!": the output or manifest may be untouched, incomplete or complete
  then, and the rest of a batch may not have been run. `ExitTells` says what can be relied on:
  status 0, the summary, and the error message.
* `create_user` promises to return None for an email that is taken "rather than this
  raising" (`auth.py:37-39`); of two signups at once, one raises (`DatabaseRaises`).
* With a sound track shorter than the picture, `-shortest` ends the draft with the
  sound: `SoundStaysInPlace` says that no more than that is lost.
* A file that stays unresolved gives `batch` the exit status 1 and `run` the status 0.
* The docstring of `discover_policies` speaks of a broken policy that "fails at app
  startup" (`policy_catalog.py`); it is called in requests only.

## What is not modelled

* **Libraries**: ffmpeg, OpenCV, Tesseract, Whisper, SQLite, the thread pool, Python's imports and
  FastAPI appear only as what the code gets from them, an outcome or an exception.
* **Pictures and sound themselves**: how a region is blurred or pixelated, what a codec
  does to it, and whether a detector still sees it. `beep_segment` has no caller.
* **Regular expressions**: any range of a text may match.
* **Policy catalogue, `policy.py`'s parsing, templates**: `discover_policies` reads the
  directory afresh in each request and keeps nothing, and the rest renders. One thing
  may go wrong that no property covers: `upload_submit` finds a policy by name, and the
  worker reads its file again when the job's turn comes (`pages.py:206`, `jobs.py:125`),
  so that a file edited in between gives a run by another policy than the row names.
  Policies are inputs here, chosen when the run starts.
* **Plugin SDK and its example**: the SDK re-exports names of the core. A plugin's
  import and registration are in `Registry`; the example's heuristic is OpenCV's
  arithmetic, one detection per contour.
* **bcrypt**: `Verified` compares passwords. Versions below 5 look at the first 72 bytes
  only, so that two that begin alike are one member of `Passwords`; later ones raise for a
  longer one.
* **More boxes than passes**: `Converged` speaks of a line-up of at most `MergePasses + 1`
  boxes. What ten passes leave of more is not right or wrong by anything the code says.
* **Benchmarks**: scripts outside the product.

## Plan

Done, in this order: `Ensemble` and `Voting`; `Redaction`, `RedactionJob`,
`Orchestrator` and their proofs; a batch; `JobBoard` and `WebJobs`; `TextRegions`,
`SpeechIntervals`, `Transcript` and `Detectors`; `Accounts`; `Compositor`, `Matching`,
`Registry`, and the other commands (`Commands`); `VotingProofs` and `CompositorProofs`;
`WebJobsProofs` with the refinement of `JobBoard`, `AccountsProofs`, `CommandsProofs`,
and `DetectorsProofs`.

The proofs of `KeywordsAreFound` and of discovery came last.

What could follow: `Accounts` composed with `WebJobs`: who sees which job, and what a page
shows of a job that changes while it is read.
