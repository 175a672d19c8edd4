----------------------------- MODULE Compositor -----------------------------
(***************************************************************************)
(* One attempt's draft, from the native frames and the original track:     *)
(* the loops of apply_visual_redactions (redaction/visual.py) and          *)
(* apply_audio_redactions (redaction/audio.py), and mux                    *)
(* (redaction/muxer.py).  Orchestrator takes what they hide for granted,   *)
(* as Hidden and Muted of Redaction; here it is computed.                  *)
(*                                                                         *)
(* A frame is what is hidden of it.  A track is the sequence of its        *)
(* milliseconds: each the one of the source that sounds in it, or Silent.  *)
(* A stage that fails is Orchestrator's StageFails.                        *)
(***************************************************************************)
EXTENDS Redaction

CONSTANTS
    None,          \* no audio track; nothing muxed yet
    FramePeriod,   \* the time a native frame is shown, in milliseconds
    Clips,         \* the media: [frames, sound], sound in milliseconds or None
    SpanLists,     \* what a vote may trust, in its order
    Margins        \* margin_px of the attempts

VARIABLES
    clip,      \* the source
    spans,     \* the spans of the manifest, in order
    margin,    \* margin_px
    pc,        \* the loop being run
    out,       \* the frames composited so far
    image,     \* the frame being composited: the pixels hidden in it
    turn,      \* the span it is about to hide
    pending,   \* the audio spans still to apply: their indices in spans
    track,     \* the audio track
    draft      \* the muxed file, or None

source == <<clip, spans, margin>>
vars == <<source, pc, out, image, turn, pending, track, draft>>

Silent == 0

\* The track as ffmpeg extracted it.
Original == [ms \in 1 .. (IF clip.sound = None THEN 0 ELSE clip.sound) |-> ms]

Init ==
    /\ clip \in Clips /\ spans \in SpanLists /\ margin \in Margins
    /\ pc = "frames"
    /\ out = <<>> /\ image = {} /\ turn = 1
    /\ pending = {i \in DOMAIN spans : spans[i].type = "audio"}
    /\ track = Original
    /\ draft = None

-----------------------------------------------------------------------------
\* When frame i, counted from one, is shown.
Time(i) == (i - 1) * FramePeriod

Composing == pc = "frames" /\ Len(out) < clip.frames

\* Mutant of InWindow: both ends are left out.
InWindowStrict(s, t) == s.start - HalfWindow < t /\ t < s.end + HalfWindow

InWindow(s, t) == Shows(s, t)

\* The span at hand concerns the frame at hand.
Applies == spans[turn].box # NoBox /\ InWindow(spans[turn], Time(Len(out) + 1))

\* Mutant of Paint: each span starts from the frame as it was decoded.
PaintAfresh(b) == image' = {p \in Pixels : InBox(p[1], p[2], Crop(b, margin))}

\* pixelate_region or blur_region, on what the spans before left.
Paint(b) == image' = image \cup {p \in Pixels : InBox(p[1], p[2], Crop(b, margin))}

\* Mutant of HideSpan: the list is stepped through by two.
HideSpanSkips ==
    /\ Composing /\ turn <= Len(spans) /\ Applies
    /\ Paint(spans[turn].box)
    /\ turn' = turn + 2
    /\ UNCHANGED <<source, pc, out, pending, track, draft>>

HideSpan ==
    /\ Composing /\ turn <= Len(spans) /\ Applies
    /\ Paint(spans[turn].box)
    /\ turn' = turn + 1
    /\ UNCHANGED <<source, pc, out, pending, track, draft>>

SkipSpan ==
    /\ Composing /\ turn <= Len(spans) /\ ~Applies
    /\ turn' = turn + 1
    /\ UNCHANGED <<source, pc, out, image, pending, track, draft>>

FinishFrame ==
    /\ Composing /\ turn > Len(spans)
    /\ out' = Append(out, image)
    /\ image' = {} /\ turn' = 1
    /\ UNCHANGED <<source, pc, pending, track, draft>>

\* The frames are encoded; a source without sound has no track to redact.
FinishFrames ==
    /\ pc = "frames" /\ ~Composing
    /\ pc' = IF clip.sound = None THEN "mux" ELSE "sound"
    /\ UNCHANGED <<source, out, image, turn, pending, track, draft>>

-----------------------------------------------------------------------------
Silence(n) == [ms \in 1 .. n |-> Silent]

\* Mutant of MuteSegment: the silence is put in front of the segment.
MuteBefore(s, e) == SubSeq(track, 1, Min({s, Len(track)})) \o Silence(e - s)
                      \o SubSeq(track, s + 1, Len(track))

\* mute_segment(): a slice that reaches beyond the track ends with it, the
\* silence put between the slices does not.
MuteSegment(s, e) == SubSeq(track, 1, Min({s, Len(track)})) \o Silence(e - s)
                       \o SubSeq(track, e + 1, Len(track))

\* sorted() by start, which keeps the order of equals.
Earliest ==
    CHOOSE i \in pending : \A j \in pending :
        \/ spans[i].start < spans[j].start
        \/ spans[i].start = spans[j].start /\ i <= j

Begins == Millis(spans[Earliest].start)
Ends   == Millis(spans[Earliest].end)

MuteSpan ==
    /\ pc = "sound" /\ pending # {}
    /\ Begins < Ends
    /\ track' = MuteSegment(Begins, Ends)
    /\ pending' = pending \ {Earliest}
    /\ UNCHANGED <<source, pc, out, image, turn, draft>>

\* A span that int() leaves no millisecond of.
SkipEmpty ==
    /\ pc = "sound" /\ pending # {}
    /\ Ends <= Begins
    /\ pending' = pending \ {Earliest}
    /\ UNCHANGED <<source, pc, out, image, turn, track, draft>>

FinishSound ==
    /\ pc = "sound" /\ pending = {}
    /\ pc' = "mux"
    /\ UNCHANGED <<source, out, image, turn, pending, track, draft>>

-----------------------------------------------------------------------------
\* -shortest: both streams end when the first of them does.
Shortest == Min({Len(out) * FramePeriod, Len(track)})
ShownBefore(time) == SubSeq(out, 1, Cardinality({i \in DOMAIN out : Time(i) < time}))

MuxVideo ==
    /\ pc = "mux" /\ clip.sound = None
    /\ draft' = [frames |-> out, sound |-> None]
    /\ pc' = "done"
    /\ UNCHANGED <<source, out, image, turn, pending, track>>

MuxBoth ==
    /\ pc = "mux" /\ clip.sound # None
    /\ draft' = [frames |-> ShownBefore(Shortest), sound |-> SubSeq(track, 1, Shortest)]
    /\ pc' = "done"
    /\ UNCHANGED <<source, out, image, turn, pending, track>>

Next ==
    \/ HideSpan \/ SkipSpan \/ FinishFrame \/ FinishFrames
    \/ MuteSpan \/ SkipEmpty \/ FinishSound \/ MuxVideo \/ MuxBoth

Spec == Init /\ [][Next]_vars

-----------------------------------------------------------------------------
ASSUME SourcesAreMedia ==
    /\ Clips \subseteq [frames : Nat, sound : Nat \cup {None}]
    /\ FramePeriod \in Nat \ {0} /\ Margins \subseteq Nat \ {0} /\ None \notin Nat

\* A vote's spans begin with the first of their group and end with the last.
ASSUME SpansAreTrusted ==
    /\ SpanLists \subseteq Seq(Span)
    /\ \A list \in SpanLists : \A i \in DOMAIN list : list[i].start <= list[i].end

\* The values the state ranges over.
TypeOK ==
    /\ clip \in Clips /\ spans \in SpanLists /\ margin \in Margins
    /\ pc \in {"frames", "sound", "mux", "done"}
    /\ out \in Seq(SUBSET Pixels) /\ image \subseteq Pixels
    /\ turn \in 1 .. Len(spans) + 1
    /\ pending \subseteq DOMAIN spans
    /\ track \in Seq(Nat)
    /\ draft = None \/ DOMAIN draft = {"frames", "sound"}

\* The draft is what Orchestrator takes it for: the loops over frames and
\* spans hide Hidden of each frame, and exactly the milliseconds of the
\* source that Muted names are silent, however spans overlap, follow each
\* other or reach beyond the end.
HidesWhatIsTrusted ==
    draft # None =>
        /\ \A i \in DOMAIN draft.frames : draft.frames[i] = Hidden(Range(spans), margin, Time(i))
        /\ draft.sound # None =>
              \A ms \in 1 .. Min({clip.sound, Len(draft.sound)}) :
                  draft.sound[ms] = Silent <=> Muted(Range(spans), ms - 1)

\* Sound stays with the picture (apply_visual_redactions: "timing stays
\* intact for the audio track"): after any number of mutes each millisecond of
\* the source is at its place or silent, the track is never shorter, and what
\* a span beyond the end adds is silence.  So the draft loses nothing that
\* both streams of the source have.
SoundStaysInPlace ==
    clip.sound # None =>
        /\ Len(track) >= clip.sound
        /\ \A ms \in DOMAIN track : track[ms] # Silent => track[ms] = ms /\ ms <= clip.sound
        /\ draft # None =>
              /\ Len(draft.sound) >= Min({clip.sound, clip.frames * FramePeriod})
              /\ \A i \in 1 .. clip.frames : Time(i) < clip.sound => i \in DOMAIN draft.frames

\* Consecutive samples tile the timeline without gaps: what the detectors saw
\* at one place in two consecutive samples is hidden in every frame from the
\* first to the second, although none of those in between was looked at.
SamplesTile ==
    draft # None =>
        \A a, b \in Range(spans) : \A i \in DOMAIN draft.frames :
            /\ a.box # NoBox /\ b.box # NoBox
            /\ b.start = a.end + 2 * HalfWindow
            /\ a.end <= Time(i) /\ Time(i) <= b.start
            => \A p \in Pixels :
                  InBox(p[1], p[2], a.box) /\ InBox(p[1], p[2], b.box) => p \in draft.frames[i]
=============================================================================
