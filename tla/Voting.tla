------------------------------- MODULE Voting -------------------------------
(***************************************************************************)
(* vote() of redactguard_core/ensemble/voting.py as the loop it is: one    *)
(* raw detection placed per step, then one group kept or dropped per step. *)
(* The detectors append their detections in any order, so the order of     *)
(* results is an input of the algorithm.                                   *)
(***************************************************************************)
EXTENDS Ensemble

CONSTANTS
    Inputs,      \* the sequences of raw detections vote() may be called with
    Thresholds   \* the agreement thresholds it may be called with

ASSUME InputsAreDetections == Inputs \subseteq Seq(Detection)
ASSUME ThresholdsAreIntegers == Thresholds \subseteq Int

VARIABLES
    results,     \* the argument: raw detections
    threshold,   \* the argument: agreement_threshold
    placed,      \* how many detections the first loop has placed
    groups,      \* the list of groups, each the set of its members' indices
    filtered,    \* how many groups the second loop has judged
    spans        \* the trusted spans

vars == <<results, threshold, placed, groups, filtered, spans>>

Init ==
    /\ results \in Inputs
    /\ threshold \in Thresholds
    /\ placed = 0
    /\ groups = <<>>
    /\ filtered = 0
    /\ spans = {}

\* Group g holds a detection that the next one overlaps.
Joins(g) == \E i \in groups[g] : Overlaps(results[placed + 1], results[i])

\* Mutant of Join: the last match wins.
JoinLastMatch ==
    /\ placed < Len(results)
    /\ \E g \in DOMAIN groups :
          /\ Joins(g)
          /\ \A h \in g + 1 .. Len(groups) : ~Joins(h)
          /\ groups' = [groups EXCEPT ![g] = @ \cup {placed + 1}]
    /\ placed' = placed + 1
    /\ UNCHANGED <<results, threshold, filtered, spans>>

\* The next detection joins the first group it overlaps.
Join ==
    /\ placed < Len(results)
    /\ \E g \in DOMAIN groups :
          /\ Joins(g)
          /\ \A h \in 1 .. g - 1 : ~Joins(h)
          /\ groups' = [groups EXCEPT ![g] = @ \cup {placed + 1}]
    /\ placed' = placed + 1
    /\ UNCHANGED <<results, threshold, filtered, spans>>

\* The next detection overlaps no group and founds its own.
Found ==
    /\ placed < Len(results)
    /\ \A g \in DOMAIN groups : ~Joins(g)
    /\ groups' = Append(groups, {placed + 1})
    /\ placed' = placed + 1
    /\ UNCHANGED <<results, threshold, filtered, spans>>

\* The second loop keeps the next group if enough distinct detectors agree.
Filter ==
    /\ placed = Len(results)
    /\ filtered < Len(groups)
    /\ LET g == groups[filtered + 1]
       IN  spans' = IF Cardinality(DetectorsOf(results, g)) < threshold
                    THEN spans
                    ELSE spans \cup {SpanOf(results, g)}
    /\ filtered' = filtered + 1
    /\ UNCHANGED <<results, threshold, placed, groups>>

Done == placed = Len(results) /\ filtered = Len(groups)

Next == Join \/ Found \/ Filter

Spec == Init /\ [][Next]_vars /\ WF_vars(Next)

-----------------------------------------------------------------------------
TypeOK ==
    /\ results \in Inputs
    /\ threshold \in Thresholds
    /\ placed \in 0 .. Len(results)
    /\ groups \in Seq(SUBSET (1 .. placed))
    /\ filtered \in 0 .. Len(groups)
    /\ spans \subseteq Span

\* The groups partition the detections placed so far: vote() loses none and
\* counts none twice.
Partition ==
    /\ UNION {groups[g] : g \in DOMAIN groups} = 1 .. placed
    /\ \A g, h \in DOMAIN groups : g # h => groups[g] \cap groups[h] = {}
    /\ \A g \in DOMAIN groups : groups[g] # {}

\* Span s hides what detection i saw: its type, its time and its box.
Hides(s, i) ==
    /\ s.type = results[i].type
    /\ s.start <= results[i].start
    /\ results[i].end <= s.end
    /\ results[i].box # NoBox =>
          /\ s.box.x <= results[i].box.x
          /\ s.box.y <= results[i].box.y
          /\ results[i].box.x + results[i].box.w <= s.box.x + s.box.w
          /\ results[i].box.y + results[i].box.h <= s.box.y + s.box.h

\* Called with threshold 1, as the verifier calls it, vote() reports every
\* raw detection inside some span: nothing any detector saw is dropped.
ThresholdOneDropsNothing ==
    (Done /\ threshold <= 1) => \A i \in DOMAIN results : \E s \in spans : Hides(s, i)

\* A span is reported only with as many detectors as the threshold asks, and
\* a detector counts once however often it fired.
EnoughDetectors == \A s \in spans : Cardinality(s.detectors) >= threshold

\* The loop computes the declarative grouping of Ensemble.
ComputesVote == Done => spans = Vote(results, threshold)

-----------------------------------------------------------------------------
\* The docstring of vote() says "Group overlapping detections ... and keep only
\* groups where at least `agreement_threshold` distinct detectors agree": a
\* region on which two detectors agree is in a span trusted at threshold 2.
AgreementIsTrusted ==
    (Done /\ threshold = 2) =>
        \A i, j \in DOMAIN results :
            (results[i].det # results[j].det /\ Overlaps(results[i], results[j]))
                => \E s \in spans : Hides(s, i)
=============================================================================
