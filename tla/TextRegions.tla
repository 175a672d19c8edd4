---------------------------- MODULE TextRegions -----------------------------
(***************************************************************************)
(* MserTextRegionDetector of redactguard_core/detectors/text/              *)
(* mser_text_region_detector.py on one frame: the blobs MSER finds are     *)
(* filtered, near-duplicates suppressed, and what is left merged into      *)
(* lines, in passes.  Boxes are in pixels, as in the code.                 *)
(***************************************************************************)
EXTENDS Ensemble, Listing

CONSTANTS
    Blobs,           \* the lists of boxes MSER may return for a frame
    FrameArea,       \* pixels of a frame
    MergePasses      \* bound on the merge passes: 10 in the code

VARIABLES
    stage,      \* "idle", "suppress", "merge" or "done"
    kept,       \* suppressed: the boxes that outlive the suppression
    current,    \* the list a pass goes through
    handled,    \* how many of its boxes the pass has handled
    result,     \* the list the pass builds
    merged,     \* merged_any
    passes      \* merge passes made

vars == <<stage, kept, current, handled, result, merged, passes>>

Init ==
    /\ stage = "idle"
    /\ kept = <<>> /\ current = <<>> /\ handled = 0 /\ result = <<>>
    /\ merged = FALSE /\ passes = 0

\* A share of the frame between 0.0005 and 0.2, an aspect between 0.1 and 15.
Plausible(b) ==
    /\ FrameArea <= 2000 * Area(b) /\ 5 * Area(b) <= FrameArea
    /\ b.h > 0 /\ b.h <= 10 * b.w /\ b.w <= 15 * b.h

\* Mutant of LargestFirst: the boxes in the order MSER returned them.
AsFound(boxes) == SelectSeq(boxes, Plausible)

\* sorted() by area, descending, of the plausible boxes: boxes of one size stay
\* in their order.
LargestFirst(boxes) ==
    LET plausible == {i \in DOMAIN boxes : Plausible(boxes[i])}
        before == {p \in plausible \X plausible :
                      \/ Area(boxes[p[1]]) > Area(boxes[p[2]])
                      \/ Area(boxes[p[1]]) = Area(boxes[p[2]]) /\ p[1] < p[2]}
        order == InOrder(plausible, before)
    IN  [k \in DOMAIN order |-> boxes[order[k]]]

\* detect() comes to the next frame.
Load(boxes) ==
    /\ stage \in {"idle", "done"}
    /\ stage' = "suppress"
    /\ current' = LargestFirst(boxes)
    /\ handled' = 0 /\ result' = <<>> /\ kept' = <<>>
    /\ merged' = FALSE /\ passes' = 0

-----------------------------------------------------------------------------
\* _box_iou_px >= 0.2, without the division.
Similar(a, b) ==
    LET shared == Intersection(a, b)
    IN  shared > 0 /\ 5 * shared >= Area(a) + Area(b) - shared

\* The pass handles its next box.
Handle(in) ==
    /\ stage = in /\ handled < Len(current)
    /\ handled' = handled + 1
    /\ UNCHANGED <<stage, kept, current, passes>>

Box1 == current[handled + 1]

Keep ==
    /\ Handle("suppress")
    /\ \A i \in DOMAIN result : ~Similar(Box1, result[i])
    /\ result' = Append(result, Box1)
    /\ UNCHANGED merged

Suppress ==
    /\ Handle("suppress")
    /\ \E i \in DOMAIN result : Similar(Box1, result[i])
    /\ UNCHANGED <<result, merged>>

\* Every box is handled: the merge passes begin.
StartMerge ==
    /\ stage = "suppress" /\ handled = Len(current)
    /\ stage' = "merge"
    /\ kept' = result /\ current' = result
    /\ handled' = 0 /\ result' = <<>>
    /\ UNCHANGED <<merged, passes>>

\* Two boxes share at least 0.4 of the lower one's height, and the gap
\* between them is at most twice the height of the higher one.
ShouldMerge(a, b) ==
    LET shared == Max({0, Min({a.y + a.h, b.y + b.h}) - Max({a.y, b.y})})
        gap    == Max({a.x, b.x}) - Min({a.x + a.w, b.x + b.w})
    IN  /\ Min({a.h, b.h}) > 0
        /\ 5 * shared >= 2 * Min({a.h, b.h})
        /\ gap <= 2 * Max({a.h, b.h})

\* Mutant of Around: the right and lower edges taken for the extents.
AroundEdges(a, b) ==
    [x |-> Min({a.x, b.x}), y |-> Min({a.y, b.y}),
     w |-> Max({a.x + a.w, b.x + b.w}), h |-> Max({a.y + a.h, b.y + b.h})]

\* The box around two boxes.
Around(a, b) == UnionBox({a, b})

Unite ==
    /\ Handle("merge")
    /\ \E i \in DOMAIN result :
          /\ ShouldMerge(result[i], Box1)
          /\ \A j \in 1 .. i - 1 : ~ShouldMerge(result[j], Box1)
          /\ result' = [result EXCEPT ![i] = Around(@, Box1)]
    /\ merged' = TRUE

Place ==
    /\ Handle("merge")
    /\ \A i \in DOMAIN result : ~ShouldMerge(result[i], Box1)
    /\ result' = Append(result, Box1)
    /\ UNCHANGED merged

\* Mutants of Last: one pass is thought to be enough; the limit is forgotten,
\* and so is the question whether anything was merged.
FirstIsLast == TRUE
NeverLast == FALSE

\* The pass was the last one: it merged nothing, or the limit is reached.
Last == ~merged \/ passes + 1 = MergePasses

EndPass ==
    /\ stage = "merge" /\ handled = Len(current)
    /\ current' = result /\ result' = <<>> /\ handled' = 0
    /\ merged' = FALSE
    /\ passes' = passes + 1
    /\ stage' = IF Last THEN "done" ELSE "merge"
    /\ UNCHANGED kept

Next == Keep \/ Suppress \/ StartMerge \/ Unite \/ Place \/ EndPass

Spec == Init /\ [][(\E boxes \in Blobs : Load(boxes)) \/ Next]_vars

-----------------------------------------------------------------------------
TypeOK ==
    /\ stage \in {"idle", "suppress", "merge", "done"}
    /\ kept \in Seq(Box) /\ current \in Seq(Box) /\ result \in Seq(Box)
    /\ handled \in 0 .. Len(current)
    /\ merged \in BOOLEAN
    /\ passes \in 0 .. MergePasses

\* No two boxes that outlive the suppression are near-duplicates, and each
\* box handled has a near-duplicate among them that is no smaller, or is one.
Clustered ==
    stage = "suppress" =>
        /\ \A i, j \in DOMAIN result : i < j => ~Similar(result[j], result[i])
        /\ \A k \in 1 .. handled : \E i \in DOMAIN result :
              \/ result[i] = current[k]
              \/ Similar(current[k], result[i]) /\ Area(result[i]) >= Area(current[k])

\* The boxes that will be in the lines, in the middle of a pass too.
Lines == {result[i] : i \in DOMAIN result} \cup {current[k] : k \in handled + 1 .. Len(current)}

Encloses(a, b) ==
    /\ a.x <= b.x /\ b.x + b.w <= a.x + a.w
    /\ a.y <= b.y /\ b.y + b.h <= a.y + a.h

Merging == stage \in {"merge", "done"}

\* Merging loses nothing and invents nothing: at any time each box that outlived
\* the suppression is inside a line, and a line is the least box around those in it.
MergingKeeps ==
    LET boxes == {kept[i] : i \in DOMAIN kept}
    IN  Merging => /\ \A b \in boxes : \E line \in Lines : Encloses(line, b)
                   /\ \A line \in Lines : line = UnionBox({b \in boxes : Encloses(line, b)})

\* The passes suffice, as the docstring of _merge_horizontally_adjacent has it
\* of real footage: with at most one box more than passes, no two lines that
\* should be merged are left.
Converged ==
    (stage = "done" /\ Len(kept) <= MergePasses + 1) =>
        \A i, j \in DOMAIN current : i < j => ~ShouldMerge(current[i], current[j])
=============================================================================
