------------------------------ MODULE MCVoting ------------------------------
(***************************************************************************)
(* Instance of Voting for TLC: every sequence of at most MaxLen detections *)
(* out of a set that holds each way two detections can relate.             *)
(***************************************************************************)
EXTENDS Voting

CONSTANT MaxLen   \* bound on the number of raw detections

\* Mid overlaps Left and Right enough to agree, Left and Right are apart,
\* and Tiny lies in Left with less than a tenth of their union in common.
Left  == [x |-> 0, y |-> 0, w |-> 4, h |-> 3]
Mid   == [x |-> 2, y |-> 0, w |-> 4, h |-> 3]
Right == [x |-> 5, y |-> 0, w |-> 4, h |-> 3]
Tiny  == [x |-> 3, y |-> 2, w |-> 1, h |-> 1]

Seen(type, det, start, end, box) ==
    [type |-> type, det |-> det, start |-> start, end |-> end, box |-> box]

MCDetections ==
    {Seen("text", "ocr", 1, 1, Left),     Seen("text", "ocr", 1, 1, Right),
     Seen("text", "ocr", 1, 1, NoBox),    Seen("text", "mser", 1, 1, Mid),
     Seen("text", "mser", 1, 1, Tiny),    Seen("text", "mser", 2, 2, Left),
     Seen("audio", "vad", 0, 1, NoBox),   Seen("audio", "whisper", 1, 2, NoBox),
     Seen("audio", "vad", 2, 3, NoBox)}

MCInputs == UNION {[1 .. n -> MCDetections] : n \in 0 .. MaxLen}
MCPiiTypes == {"text", "audio"}
MCDetectors == {"ocr", "mser", "vad", "whisper"}
MCThresholds == 1 .. 3
=============================================================================
