--------------------------- MODULE MCOrchestrator ---------------------------
(***************************************************************************)
(* Instance of Orchestrator for TLC: a frame of 24 x 2 pixels, sources in  *)
(* which two detectors agree, one is alone, a match has no box, someone    *)
(* speaks, or nothing is found.                                            *)
(***************************************************************************)
EXTENDS Orchestrator

Seen(type, det, start, end, box) ==
    [type |-> type, det |-> det, start |-> start, end |-> end, box |-> box]

Word  == [x |-> 10, y |-> 0, w |-> 3, h |-> 1]
Line  == [x |-> 9, y |-> 0, w |-> 6, h |-> 2]
Other == [x |-> 19, y |-> 1, w |-> 2, h |-> 1]

MCRaws ==
    {<<>>,
     <<Seen("text", "ocr", 2, 2, Word), Seen("text", "mser", 2, 2, Line),
       Seen("text", "mser", 2, 2, Other)>>,
     <<Seen("text", "ocr", 2, 2, NoBox), Seen("text", "mser", 4, 4, Other)>>,
     <<Seen("audio", "whisper", 1, 3, NoBox), Seen("audio", "vad", 0, 2, NoBox),
       Seen("audio", "vad", 4, 5, NoBox), Seen("text", "ocr", 4, 4, Word)>>}

MCPolicies == [max_attempts : {-1, 0, 1, 3}, agreement_threshold : 0 .. 3]
MCPiiTypes == {"text", "audio"}
MCDetectors == {"ocr", "mser", "vad", "whisper"}
MCMoments == 0 .. 6

\* Every near edge is short in the first draft and in the second retry, every
\* far one in the other two: no two drafts round alike.
MCBoxes == {Word, Line, Other, UnionBox({Word, Line})}
MCShortEdges == (MCBoxes \X {4, 16} \X {"left", "top"})
                  \cup (MCBoxes \X {8, 32} \X {"right", "bottom"})
MCShortTimes == {3, 4}
=============================================================================
