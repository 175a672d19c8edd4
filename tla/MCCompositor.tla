---------------------------- MODULE MCCompositor ----------------------------
(***************************************************************************)
(* Instance of Compositor for TLC: a frame of 6 x 2 pixels every 2 ms,     *)
(* samples 4 ms apart; sound as long as the picture, longer, shorter, or   *)
(* none; every list of at most three of the spans below.                   *)
(***************************************************************************)
EXTENDS Compositor

Seen(type, start, end, box) ==
    [type |-> type, detectors |-> {}, start |-> start, end |-> end, box |-> box]

Corner == [x |-> 5, y |-> 0, w |-> 1, h |-> 1]
Middle == [x |-> 2, y |-> 0, w |-> 2, h |-> 2]
Beside == [x |-> 3, y |-> 1, w |-> 2, h |-> 1]

\* Faces and text in consecutive samples, a match without a box; speech that
\* overlaps, that rounding leaves empty, and that goes on or begins after a
\* track of 5 ms.
Spans ==
    {Seen("face", 0, 0, Corner), Seen("face", 4, 4, Middle), Seen("text", 0, 0, Beside),
     Seen("text", 4, 4, NoBox), Seen("audio", 1, 3, NoBox), Seen("audio", 2, 4, NoBox),
     Seen("audio", 3, 3, NoBox), Seen("audio", 3, 7, NoBox), Seen("audio", 6, 8, NoBox)}

MCSpanLists == UNION {[1 .. n -> Spans] : n \in 0 .. 3}
MCClips == [frames : {3}, sound : {None, 0, 5, 6, 8}]
MCMargins == {1, 2}
MCPiiTypes == {"face", "text", "audio"}
MCMoments == 0 .. 8
MCShortEdges == {Corner, Middle} \X {1} \X {"right", "bottom"}
MCShortTimes == {3, 7}
=============================================================================
