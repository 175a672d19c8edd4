------------------------------ MODULE Ensemble ------------------------------
(***************************************************************************)
(* The ensemble vote of redactguard_core/ensemble/voting.py as operators   *)
(* on values: when two raw detections agree, how vote() groups them, and   *)
(* what trusted span a group becomes.                                      *)
(*                                                                         *)
(* A detection is a record: the PII type, the detector that reported it,   *)
(* its interval of time, and its box or NoBox (audio, and OCR matches that *)
(* line up with no word).  Coordinates and times are naturals: the code    *)
(* uses floats, and only compares, adds and multiplies them.  Confidence   *)
(* and matched text are left out: vote() decides nothing on them.          *)
(***************************************************************************)
EXTENDS Integers, Sequences, FiniteSets, FiniteSetsExt, Functions

CONSTANTS
    NoBox,      \* bbox is None
    PiiTypes,   \* the PII types of the policy
    Detectors   \* detector names

\* A box is (x, y, w, h), its corner and its extent.
Box == [x : Nat, y : Nat, w : Nat, h : Nat]

ASSUME NoBoxIsNoBox == NoBox \notin Box

Detection == [type : PiiTypes, det : Detectors,
              start : Nat, end : Nat, box : Box \cup {NoBox}]

Span == [type : PiiTypes, detectors : SUBSET Detectors,
         start : Nat, end : Nat, box : Box \cup {NoBox}]

-----------------------------------------------------------------------------
Area(b) == b.w * b.h

\* The area two boxes share.
Intersection(a, b) ==
    LET side(p, q, pl, ql) == Max({0, Min({p + pl, q + ql}) - Max({p, q})})
    IN  side(a.x, b.x, a.w, b.w) * side(a.y, b.y, a.h, b.h)

\* intersection / union >= DEFAULT_IOU_THRESHOLD = 0.1, without the division.
IouReached(a, b) ==
    LET shared == Intersection(a, b)
    IN  /\ shared > 0
        /\ 10 * shared >= Area(a) + Area(b) - shared

\* Two detections agree: same type, touching in time, and in space if both
\* say where.
Overlaps(a, b) ==
    /\ a.type = b.type
    /\ a.start <= b.end
    /\ b.start <= a.end
    /\ (a.box # NoBox /\ b.box # NoBox) => IouReached(a.box, b.box)

-----------------------------------------------------------------------------
\* vote() puts each detection in the first group that holds one it overlaps,
\* else it founds a group.  A group is named by the index of its founder;
\* since groups are listed as they are founded, "first" is the least founder.
Founder(results) ==
    LET home[i \in DOMAIN results] ==
            LET homes == {home[j] : j \in {k \in 1 .. i - 1 : Overlaps(results[i], results[k])}}
            IN  IF homes = {} THEN i ELSE Min(homes)
    IN  home

\* The groups, as sets of indices into results.
Groups(results) ==
    LET home == Founder(results)
    IN  {{i \in DOMAIN results : home[i] = home[j]} : j \in DOMAIN results}

DetectorsOf(results, g) == {results[i].det : i \in g}

BoxesOf(results, g) == {results[i].box : i \in g} \ {NoBox}

\* Mutants of UnionBox: extents subtracted the wrong way round; one member's
\* box for the whole group, as before ADR-0008.
UnionBoxReversed(boxes) ==
    IF boxes = {} THEN NoBox
    ELSE LET left == Min({b.x : b \in boxes})
             top  == Min({b.y : b \in boxes})
         IN  [x |-> left, y |-> top,
              w |-> left - Max({b.x + b.w : b \in boxes}),
              h |-> top - Max({b.y + b.h : b \in boxes})]

UnionBoxOfOne(boxes) == IF boxes = {} THEN NoBox ELSE CHOOSE b \in boxes : TRUE

\* The least box around a set of boxes.
UnionBox(boxes) ==
    IF boxes = {} THEN NoBox
    ELSE LET left == Min({b.x : b \in boxes})
             top  == Min({b.y : b \in boxes})
         IN  [x |-> left, y |-> top,
              w |-> Max({b.x + b.w : b \in boxes}) - left,
              h |-> Max({b.y + b.h : b \in boxes}) - top]

\* The span a group becomes when it is trusted.
SpanOf(results, g) ==
    [type      |-> results[Min(g)].type,
     detectors |-> DetectorsOf(results, g),
     start     |-> Min({results[i].start : i \in g}),
     end       |-> Max({results[i].end : i \in g}),
     box       |-> UnionBox(BoxesOf(results, g))]

Trusted(results, threshold) ==
    {g \in Groups(results) : Cardinality(DetectorsOf(results, g)) >= threshold}

Vote(results, threshold) ==
    {SpanOf(results, g) : g \in Trusted(results, threshold)}
=============================================================================
