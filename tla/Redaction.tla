----------------------------- MODULE Redaction ------------------------------
(***************************************************************************)
(* What a redaction hides: redactguard_core/redaction/visual.py and        *)
(* audio.py as the set of pixels of a frame, and the set of milliseconds   *)
(* of the track, that a set of trusted spans covers.                       *)
(*                                                                         *)
(* Boxes and margins are in whole pixels and times in milliseconds.  The   *)
(* code keeps both as fractions, of the frame and of a second: multiplied  *)
(* out, a float may lie just below the whole number it stands for, and     *)
(* int() then takes the number before.  Which ones do is left open.        *)
(***************************************************************************)
EXTENDS Ensemble

CONSTANTS
    Width, Height,   \* the size of every frame
    HalfWindow,      \* half a detection period, half_window_s
    Moments,         \* the times at which the media has a frame or sound
    ShortEdges,      \* the edges <<box, margin, side>> that int() puts a pixel early
    ShortTimes       \* the times that int() puts a millisecond early

ASSUME MomentsAreTimes == Moments \subseteq Nat
\* Nothing is early at 0: int() rounds towards it.
ASSUME ZeroIsExact == 0 \notin ShortTimes
ASSUME FrameIsAFrame == Width \in Nat \ {0} /\ Height \in Nat \ {0} /\ HalfWindow \in Nat

\* Mutant of Expand: the corner moves, the extents stay.
ExpandCorner(b, m) ==
    LET left == Max({0, b.x - m})
        top  == Max({0, b.y - m})
    IN  [x |-> left, y |-> top,
         w |-> Min({Width - left, b.w}), h |-> Min({Height - top, b.h})]

\* expand_bbox_px: m pixels wider on every side, kept inside the frame.
Expand(b, m) ==
    LET left == Max({0, b.x - m})
        top  == Max({0, b.y - m})
    IN  [x |-> left, y |-> top,
         w |-> Min({Width - left, b.w + 2 * m}),
         h |-> Min({Height - top, b.h + 2 * m})]

Truncated(edge, p) == IF edge \in ShortEdges THEN p - 1 ELSE p

\* Where the region starts and stops on one axis.  A corner kept at 0
\* multiplies out exactly, and so does an end cut to the frame's: an extent
\* less than it would be.
Start(edge, p) == IF p = 0 THEN 0 ELSE Truncated(edge, p)
Stop(edge, p, d, whole) == IF d < whole THEN p + d ELSE Truncated(edge, p + d)

\* The region that pixelate_region and blur_region cut out for Expand(b, m).
Crop(b, m) ==
    LET e      == Expand(b, m)
        left   == Start(<<b, m, "left">>, e.x)
        top    == Start(<<b, m, "top">>, e.y)
        right  == Stop(<<b, m, "right">>, e.x, e.w, b.w + 2 * m)
        bottom == Stop(<<b, m, "bottom">>, e.y, e.h, b.h + 2 * m)
    IN  [x |-> left, y |-> top, w |-> right - left, h |-> bottom - top]

InBox(px, py, b) ==
    /\ b.x <= px /\ px < b.x + b.w
    /\ b.y <= py /\ py < b.y + b.h

\* The span is redacted in the frame shown at time t.
Shows(s, t) == s.start - HalfWindow <= t /\ t <= s.end + HalfWindow

Pixels == (0 .. Width - 1) \X (0 .. Height - 1)

\* The pixels of the frame at time t that apply_visual_redactions hides: a
\* span without a box hides none.
Hidden(spans, m, t) ==
    {p \in Pixels : \E s \in spans :
        s.box # NoBox /\ Shows(s, t) /\ InBox(p[1], p[2], Crop(s.box, m))}

Millis(time) == IF time \in ShortTimes THEN time - 1 ELSE time

\* The millisecond that begins at ms is silenced by apply_audio_redactions.
Muted(spans, ms) ==
    \E s \in spans : s.type = "audio" /\ Millis(s.start) <= ms /\ ms < Millis(s.end)
=============================================================================
