-------------------------- MODULE SpeechIntervals ---------------------------
(***************************************************************************)
(* find_speech_intervals() of redactguard_core/detectors/audio/            *)
(* energy_vad_detector.py: the loop over the frames of the track that      *)
(* opens an interval at a loud frame and closes it at a quiet one.         *)
(*                                                                         *)
(* A frame is given by whether its energy reaches the threshold.  The      *)
(* samples after the last full frame belong to none, as in the code.       *)
(***************************************************************************)
EXTENDS Integers, Sequences

CONSTANTS
    None,
    Tracks,        \* the lists of frames a track may have
    FrameMs,       \* length of a frame: 30 ms
    MinDuration    \* the shortest interval: 200 ms

VARIABLES
    loud,            \* for each frame: is it above the threshold
    heard,           \* how many frames the loop has handled
    current_start,   \* when the open interval began, or None
    intervals,       \* the intervals found: <<start, end>>
    speech           \* "idle", "loop" or "done"

vars == <<loud, heard, current_start, intervals, speech>>

Init ==
    /\ loud = <<>> /\ heard = 0 /\ current_start = None /\ intervals = <<>>
    /\ speech = "idle"

Load(track) ==
    /\ speech \in {"idle", "done"}
    /\ speech' = "loop"
    /\ loud' = track /\ heard' = 0 /\ current_start' = None /\ intervals' = <<>>

\* The time at which the next frame begins.
Now == heard * FrameMs

Hear(isLoud) ==
    /\ speech = "loop" /\ heard < Len(loud)
    /\ loud[heard + 1] = isLoud
    /\ heard' = heard + 1
    /\ UNCHANGED <<loud, speech>>

Loud ==
    /\ Hear(TRUE)
    /\ current_start' = IF current_start = None THEN Now ELSE current_start
    /\ UNCHANGED intervals

\* Mutant of Closed: an interval is kept however short it is.
ClosedAlways == IF current_start # None THEN Append(intervals, <<current_start, Now>>) ELSE intervals

\* The open interval, if there is one, ends now; it is kept if it is long enough.
Closed ==
    IF current_start # None /\ Now - current_start >= MinDuration
    THEN Append(intervals, <<current_start, Now>>) ELSE intervals

Quiet ==
    /\ Hear(FALSE)
    /\ intervals' = Closed
    /\ current_start' = None

\* The track is over: an interval that is still open ends with its last frame.
Finish ==
    /\ speech = "loop" /\ heard = Len(loud)
    /\ intervals' = Closed
    /\ speech' = "done"
    /\ UNCHANGED <<loud, heard, current_start>>

Next == Loud \/ Quiet \/ Finish

Spec == Init /\ [][(\E track \in Tracks : Load(track)) \/ Next]_vars

-----------------------------------------------------------------------------
TypeOK ==
    /\ speech \in {"idle", "loop", "done"}
    /\ loud \in Seq(BOOLEAN)
    /\ heard \in 0 .. Len(loud)
    /\ current_start \in Nat \cup {None}
    /\ intervals \in Seq(Nat \X Nat)

\* The stretches of loud frames with quiet, or the track's ends, around them.
Stretches ==
    {s \in (0 .. Len(loud)) \X (0 .. Len(loud)) :
        /\ s[1] < s[2]
        /\ \A k \in s[1] + 1 .. s[2] : loud[k]
        /\ s[1] = 0 \/ ~loud[s[1]]
        /\ s[2] = Len(loud) \/ ~loud[s[2] + 1]}

\* The loop finds the stretches that are long enough, each one whole, in order,
\* and nothing else; the one that lasts to the end of the track too.
StretchesFound ==
    speech = "done" =>
        /\ {intervals[i] : i \in DOMAIN intervals} =
              {<<s[1] * FrameMs, s[2] * FrameMs>> :
                  s \in {t \in Stretches : (t[2] - t[1]) * FrameMs >= MinDuration}}
        /\ \A i, j \in DOMAIN intervals : i < j => intervals[i][2] < intervals[j][1]
=============================================================================
