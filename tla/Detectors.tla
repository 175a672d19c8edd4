----------------------------- MODULE Detectors ------------------------------
(***************************************************************************)
(* run_detectors() of redactguard_core/detectors/registry.py: one detector *)
(* after the other, for each PII type the policy enables, appends what it  *)
(* reports to one list.  The list is what vote() gets.                     *)
(*                                                                         *)
(* The text-region detector, the energy detector and the indexing of a     *)
(* transcript are instances of their own modules, whose steps are this     *)
(* module's while that detector runs.  What the cascades, Tesseract, MSER  *)
(* and Whisper return for a medium is given with the medium; any of them   *)
(* may raise.  Where a text meets a pattern is left open.                  *)
(* Boxes are in pixels, times in milliseconds, as in Ensemble.             *)
(***************************************************************************)
EXTENDS Ensemble, Listing

CONSTANTS
    Medias,       \* the decoded media
    Policies,     \* the lists of <<PII type, enabled>> of the policies
    Registered,   \* PII type -> its detectors, in the order of registration
    Keywords,     \* custom_keywords of the policy
    MaxMatches,   \* bound on the matches of patterns in one text
    None, FrameArea, MergePasses, FrameMs, MinDuration, NoTime, Blank, Blanks, LowerCase

Text == Seq(DOMAIN LowerCase)

\* Blobs: what MSER returns, faces: what each cascade returns, text and read:
\* what Tesseract returns as a string and as words in their boxes.
Frame == [time : Nat, blobs : Seq(Box), faces : [{"haar", "lbp"} -> Seq(Box)],
          text : Text, read : Seq([chars : Text, box : Box])]

\* Without an audio track there are neither loud frames nor words.
Media == [frames : Seq(Frame), audio : BOOLEAN, track : Seq(BOOLEAN),
          words : Seq([chars : Text, start : Nat, end : Nat])]

ASSUME MediasAreMedia == Medias \subseteq Media
ASSUME PoliciesAreLists == Policies \subseteq Seq(PiiTypes \X BOOLEAN)
ASSUME KeywordsAreTexts == Keywords \in Seq(Text)
ASSUME RegisteredAreDetectors == Registered \in [PiiTypes -> Seq(Detectors)]
ASSUME BoundsAreNat ==
    {FrameArea, MergePasses, FrameMs, MinDuration, MaxMatches} \subseteq Nat \ {0}
ASSUME TypesAreKnown == {"face", "text", "audio"} \subseteq PiiTypes
ASSUME LowerCaseIsText ==
    /\ LowerCase \in [DOMAIN LowerCase -> Text]
    /\ Blank \in Blanks /\ Blanks \subseteq DOMAIN LowerCase
\* In lower case, white space is white space, and nothing else is.
ASSUME BlanksStayBlank ==
    \A c, d \in DOMAIN LowerCase : LowerCase[c] = LowerCase[d] => (c \in Blanks <=> d \in Blanks)
\* get_detectors() imports the built-in detectors before it answers.
ASSUME BuiltInsAreRegistered ==
    /\ {"haar", "lbp"} \subseteq Range(Registered["face"])
    /\ {"mser", "ocr"} \subseteq Range(Registered["text"])
    /\ {"vad", "whisper"} \subseteq Range(Registered["audio"])
ASSUME NoneIsNoTime == None \notin Nat /\ NoTime \notin [start : Nat, end : Nat]

VARIABLES
    media, policy,   \* the arguments
    types,           \* the PII types the loop has not come to
    queue,           \* the detectors of the current type, the running one first
    frame,           \* the frames the running detector is through with
    busy,            \* it is in the middle of a loop of its own
    results,         \* results
    outcome,         \* "running", "returned" or "raised"
    stage, kept, current, handled, result, merged, passes,   \* of TextRegions
    loud, heard, current_start, intervals, speech,           \* of SpeechIntervals
    words, indexed, ranges, pos, text                        \* of Transcript

regionVars == <<stage, kept, current, handled, result, merged, passes>>
speechVars == <<loud, heard, current_start, intervals, speech>>
wordVars == <<words, indexed, ranges, pos, text>>
loops == <<regionVars, speechVars, wordVars>>
vars == <<media, policy, types, queue, frame, busy, results, outcome, loops>>

Regions == INSTANCE TextRegions WITH Blobs <- {}
Speech == INSTANCE SpeechIntervals WITH Tracks <- {}
Words == INSTANCE Transcript WITH Recordings <- {}
Match == INSTANCE Matching

Init ==
    /\ media \in Medias
    /\ policy \in Policies
    /\ types = policy
    /\ queue = <<>> /\ frame = 0 /\ busy = FALSE
    /\ results = <<>>
    /\ outcome = "running"
    /\ Regions!Init /\ Speech!Init /\ Words!Init

Running == outcome = "running" /\ UNCHANGED <<media, policy>>

\* The loop over the policy's types comes to the next one.
NextType(enabled) ==
    /\ Running /\ queue = <<>> /\ types # <<>>
    /\ Head(types)[2] = enabled
    /\ UNCHANGED <<frame, busy, loops>>

SkipType ==
    /\ NextType(FALSE)
    /\ types' = Tail(types)
    /\ UNCHANGED <<queue, results, outcome>>

OpenType ==
    /\ NextType(TRUE) /\ Registered[Head(types)[1]] # <<>>
    /\ types' = Tail(types)
    /\ queue' = Registered[Head(types)[1]]
    /\ UNCHANGED <<results, outcome>>

\* NotImplementedError: an enabled type has no detector.
NoDetector ==
    /\ NextType(TRUE) /\ Registered[Head(types)[1]] = <<>>
    /\ outcome' = "raised" /\ results' = <<>>
    /\ UNCHANGED <<types, queue>>

\* A detector cannot be made, or raises: the list is lost.
DetectorRaises ==
    /\ Running
    /\ queue # <<>> \/ (types # <<>> /\ Head(types)[2])
    /\ outcome' = "raised" /\ results' = <<>>
    /\ UNCHANGED <<types, queue, frame, busy, loops>>

Return ==
    /\ Running /\ queue = <<>> /\ types = <<>>
    /\ outcome' = "returned"
    /\ UNCHANGED <<types, queue, frame, busy, results, loops>>

-----------------------------------------------------------------------------
\* One of the detectors dets runs.
Runs(dets) ==
    /\ Running /\ queue # <<>> /\ Head(queue) \in dets
    /\ UNCHANGED <<types, outcome>>

This == media.frames[frame + 1]

Detected(type, start, end, box) ==
    [type |-> type, det |-> Head(queue), start |-> start, end |-> end, box |-> box]

Report(found) == results' = results \o found

\* The running detector reports boxes of the frame it is at, and goes on.
ReportFrame(type, boxes) ==
    /\ Report([i \in DOMAIN boxes |-> Detected(type, This.time, This.time, boxes[i])])
    /\ frame' = frame + 1

\* A cascade's boxes, as they come.
FaceFrame ==
    /\ Runs({"haar", "lbp"}) /\ frame < Len(media.frames)
    /\ ReportFrame("face", This.faces[Head(queue)])
    /\ UNCHANGED <<queue, busy, loops>>

\* The matches in a text: any ranges that patterns may meet, then the
\* keywords'.  There are none in a text of white space.
Found(str) ==
    LET places == {[start |-> p[1], end |-> p[2]] :
                      p \in {q \in (0 .. Len(str)) \X (0 .. Len(str)) : q[1] < q[2]}}
    IN  IF Match!Strip(str) = <<>> THEN {<<>>}
        ELSE {patterns \o Match!KeywordMatches(str, Keywords) :
                 patterns \in UNION {[1 .. n -> places] : n \in 0 .. MaxMatches}}

\* Each match in the text Tesseract reads, with the box around the words it
\* lines up with: none, if it lines up with no word.
OcrFrame ==
    /\ Runs({"ocr"}) /\ frame < Len(media.frames)
    /\ \E found \in Found(This.text) :
          ReportFrame("text", [i \in DOMAIN found |->
                                  UnionBox(Match!MatchedBoxes(This.text, found[i], This.read))])
    /\ UNCHANGED <<queue, busy, loops>>

MserLoad ==
    /\ Runs({"mser"}) /\ ~busy /\ frame < Len(media.frames)
    /\ Regions!Load(This.blobs)
    /\ busy' = TRUE
    /\ UNCHANGED <<queue, frame, results, speechVars, wordVars>>

MserStep ==
    /\ Runs({"mser"}) /\ busy
    /\ Regions!Next
    /\ UNCHANGED <<queue, frame, busy, results, speechVars, wordVars>>

MserFrame ==
    /\ Runs({"mser"}) /\ busy /\ stage = "done"
    /\ ReportFrame("text", current)
    /\ busy' = FALSE
    /\ UNCHANGED <<queue, loops>>

\* Mutant of LastFrame: the loop stops one frame early.
LastFrameEarly == frame + 1 = Len(media.frames)

LastFrame == frame = Len(media.frames)

\* The detector is through with its frames: the next one runs.
FramesDone ==
    /\ Runs({"haar", "lbp", "ocr", "mser"}) /\ ~busy /\ LastFrame
    /\ queue' = Tail(queue)
    /\ frame' = 0
    /\ UNCHANGED <<busy, results, loops>>

-----------------------------------------------------------------------------
\* A detector of speech has nothing to do without an audio track.
NoAudio ==
    /\ Runs({"vad", "whisper"}) /\ ~media.audio
    /\ queue' = Tail(queue)
    /\ UNCHANGED <<frame, busy, results, loops>>

VadLoad ==
    /\ Runs({"vad"}) /\ ~busy /\ media.audio
    /\ Speech!Load(media.track)
    /\ busy' = TRUE
    /\ UNCHANGED <<queue, frame, results, regionVars, wordVars>>

VadStep ==
    /\ Runs({"vad"}) /\ busy
    /\ Speech!Next
    /\ UNCHANGED <<queue, frame, busy, results, regionVars, wordVars>>

VadDone ==
    /\ Runs({"vad"}) /\ busy /\ speech = "done"
    /\ Report([i \in DOMAIN intervals |->
                  Detected("audio", intervals[i][1], intervals[i][2], NoBox)])
    /\ queue' = Tail(queue) /\ busy' = FALSE
    /\ UNCHANGED <<frame, loops>>

WhisperLoad ==
    /\ Runs({"whisper"}) /\ ~busy /\ media.audio
    /\ Words!Load(media.words)
    /\ busy' = TRUE
    /\ UNCHANGED <<queue, frame, results, regionVars, speechVars>>

WhisperStep ==
    /\ Runs({"whisper"}) /\ busy
    /\ Words!Next
    /\ UNCHANGED <<queue, frame, busy, results, regionVars, speechVars>>

Transcribed == [k \in DOMAIN text |-> text[k][1]]

\* Each match is reported with its time, and dropped if it has none.
WhisperDone ==
    /\ Runs({"whisper"}) /\ busy /\ Words!Indexed
    /\ \E found \in Found(Transcribed) :
          LET time(i) == Words!TimeRange(found[i].start, found[i].end)
              told == {i \in DOMAIN found : time(i) # NoTime}
              order == InOrder(told, {p \in told \X told : p[1] < p[2]})
          IN  Report([k \in DOMAIN order |->
                         Detected("audio", time(order[k]).start, time(order[k]).end, NoBox)])
    /\ queue' = Tail(queue) /\ busy' = FALSE
    /\ UNCHANGED <<frame, loops>>

Next ==
    \/ SkipType \/ OpenType \/ NoDetector \/ Return
    \/ FaceFrame \/ OcrFrame \/ MserLoad \/ MserStep \/ MserFrame \/ FramesDone
    \/ NoAudio \/ VadLoad \/ VadStep \/ VadDone \/ WhisperLoad \/ WhisperStep \/ WhisperDone
    \/ DetectorRaises

Spec == Init /\ [][Next]_vars

-----------------------------------------------------------------------------
\* The values the state ranges over; above all, what vote() gets is a list
\* of detections, as Orchestrator assumes of Raws.
TypeOK ==
    /\ outcome \in {"running", "returned", "raised"}
    /\ frame \in 0 .. Len(media.frames)
    /\ results \in Seq(Detection)
    /\ Regions!TypeOK /\ Speech!TypeOK /\ Words!TypeOK

\* Suppression, merging, the speech intervals and the times of matches are
\* right whenever their loops are at the point to say so, for every medium and
\* after any other detector has run: the properties of the three modules.
Clustered == Regions!Clustered
MergingKeeps == Regions!MergingKeeps
Converged == Regions!Converged
StretchesFound == Speech!StretchesFound
TimesAreTheWords == Words!TimesAreTheWords

Enabled(type) == \E i \in DOMAIN policy : policy[i] = <<type, TRUE>>

Reported(type, det, start, end) ==
    {results[i].box : i \in {k \in DOMAIN results :
        /\ results[k].type = type /\ results[k].det = det
        /\ results[k].start = start /\ results[k].end = end}}

\* If run_detectors() returns, then in every frame each face of each cascade
\* is reported, and every plausible blob of MSER's meets a reported line; and
\* so is every stretch of speech: no frame, type or detector is passed over.
EverythingReported ==
    outcome = "returned" =>
        /\ \A i \in DOMAIN media.frames :
              LET f == media.frames[i]
                  at(type, det) == Reported(type, det, f.time, f.time)
              IN  /\ Enabled("face") => \A det \in {"haar", "lbp"} : \A k \in DOMAIN f.faces[det] :
                        f.faces[det][k] \in at("face", det)
                  /\ Enabled("text") =>
                        \A k \in DOMAIN f.blobs : Regions!Plausible(f.blobs[k]) =>
                            \E line \in at("text", "mser") : Intersection(line, f.blobs[k]) > 0
        /\ (Enabled("audio") /\ media.audio) =>
              \A s \in Speech!Stretches : (s[2] - s[1]) * FrameMs >= MinDuration =>
                  NoBox \in Reported("audio", "vad", s[1] * FrameMs, s[2] * FrameMs)

Encloses(b, c) == Intersection(b, c) = Area(c)

\* No keyword slips through between text and place, in whatever case it is
\* written: every word of a frame that it is part of, or that is part of it,
\* lies in a reported box, and every word of the transcript that it touches in
\* a reported interval.  Not so where lower() lengthens the keyword or what comes
\* before it: the places found there are not the text's.
KeywordsAreFound ==
    outcome = "returned" =>
        \A kw \in Range(Keywords) :
            /\ Enabled("text") => \A i \in DOMAIN media.frames :
                  LET f == media.frames[i]
                  IN  Match!Stands(kw, f.text) # {} =>
                        \A k \in DOMAIN f.read : Match!Concerns(kw, f.read[k].chars) =>
                            \E b \in Reported("text", "ocr", f.time, f.time) :
                                b # NoBox /\ Encloses(b, f.read[k].box)
            /\ (Enabled("audio") /\ media.audio) =>
                  \A i \in Match!Stands(kw, Transcribed) : \A w \in Words!Said(i, i + Len(kw)) :
                      \E r \in Range(results) : /\ r.det = "whisper"
                                                /\ r.start <= words[w].start /\ words[w].end <= r.end
=============================================================================
