---------------------------- MODULE VotingProofs ----------------------------
(***************************************************************************)
(* Theorems about the loops of vote(), for detections in any number and    *)
(* order: nothing is lost or counted twice on the way into the groups, a   *)
(* span has the detectors its threshold asks for, and at threshold 1 every *)
(* detection lies in a span.                                               *)
(***************************************************************************)
EXTENDS Voting, RedactionProofs

\* A group is of one type: its members joined it by overlapping another.
OneType ==
    \A g \in DOMAIN groups : \A i, j \in groups[g] : results[i].type = results[j].type

\* The groups judged so far that have the detectors are spans.
Kept(h) == Cardinality(DetectorsOf(results, groups[h])) >= threshold
Judged == \A h \in 1 .. filtered : Kept(h) => SpanOf(results, groups[h]) \in spans

\* Nothing is judged before all is placed.
PlacedFirst == filtered > 0 => placed = Len(results)

IInv == TypeOK /\ Partition /\ OneType /\ Judged /\ PlacedFirst /\ EnoughDetectors

-----------------------------------------------------------------------------
LEMMA InputIsDetections ==
    ASSUME TypeOK
    PROVE  /\ results \in Seq(Detection) /\ Len(results) \in Nat
           /\ DOMAIN results = 1 .. Len(results)
           /\ placed \in 0 .. Len(results)
           /\ threshold \in Int
           /\ groups \in Seq(SUBSET (1 .. placed)) /\ Len(groups) \in Nat
           /\ DOMAIN groups = 1 .. Len(groups)
           /\ filtered \in 0 .. Len(groups)
           /\ \A g \in DOMAIN groups : groups[g] \subseteq 1 .. Len(results)
  <1>1. results \in Seq(Detection) /\ threshold \in Int
    BY InputsAreDetections, ThresholdsAreIntegers DEF TypeOK
  <1>2. Len(results) \in Nat /\ DOMAIN results = 1 .. Len(results)
    BY <1>1, LenProperties
  <1>3. groups \in Seq(SUBSET (1 .. placed))
    BY DEF TypeOK
  <1>4. Len(groups) \in Nat /\ DOMAIN groups = 1 .. Len(groups)
    BY <1>3, LenProperties
  <1>5. \A g \in DOMAIN groups : groups[g] \in SUBSET (1 .. placed)
    BY <1>3, <1>4, ElementOfSeq
  <1>6. placed \in 0 .. Len(results) /\ filtered \in 0 .. Len(groups)
    BY DEF TypeOK
  <1> QED
    BY <1>1, <1>2, <1>3, <1>4, <1>5, <1>6

\* Before the first span there is nothing to judge.
LEMMA Initially == Init => IInv
  <1> SUFFICES ASSUME Init PROVE IInv
    OBVIOUS
  <1>1. Len(results) \in Nat
    BY InputsAreDetections, LenProperties DEF Init
  <1>2. groups = <<>> /\ placed = 0 /\ filtered = 0 /\ spans = {}
    BY DEF Init
  <1>3. DOMAIN groups = {} /\ Len(groups) = 0 /\ groups \in Seq(SUBSET (1 .. 0))
    BY <1>2
  <1>4. TypeOK
    BY <1>1, <1>2, <1>3 DEF Init, TypeOK
  <1>5. Partition
    BY <1>2, <1>3 DEF Partition
  <1>6. OneType
    BY <1>3 DEF OneType
  <1>7. Judged /\ PlacedFirst /\ EnoughDetectors
    BY <1>2 DEF Judged, PlacedFirst, EnoughDetectors
  <1> QED
    BY <1>4, <1>5, <1>6, <1>7 DEF IInv

-----------------------------------------------------------------------------
\* A detection that joins a group overlaps one of its members.
LEMMA JoinKeeps == IInv /\ Join => IInv'
  <1> SUFFICES ASSUME IInv, Join PROVE IInv'
    OBVIOUS
  <1> USE DEF IInv
  <1> DEFINE new == placed + 1
  <1>1. PICK g \in DOMAIN groups :
            /\ Joins(g)
            /\ groups' = [groups EXCEPT ![g] = @ \cup {new}]
    BY DEF Join
  <1>2. /\ placed < Len(results) /\ placed' = new
        /\ results' = results /\ threshold' = threshold
        /\ filtered' = filtered /\ spans' = spans
    BY DEF Join
  <1>3. filtered = 0
    BY <1>2, InputIsDetections DEF PlacedFirst
  <1>4. new \in 1 .. Len(results) /\ new \notin 1 .. placed /\ 1 .. new = (1 .. placed) \cup {new}
    BY <1>2, InputIsDetections
  <1>5. \A h \in DOMAIN groups : groups[h] \subseteq 1 .. placed
    BY InputIsDetections, ElementOfSeq
  <1>6. /\ DOMAIN groups' = DOMAIN groups /\ Len(groups') = Len(groups)
        /\ groups'[g] = groups[g] \cup {new}
        /\ \A h \in DOMAIN groups : h # g => groups'[h] = groups[h]
    BY <1>1, InputIsDetections
  <1>7. \A h \in DOMAIN groups : groups'[h] \in SUBSET (1 .. new)
    BY <1>4, <1>5, <1>6
  <1>8. groups' \in Seq(SUBSET (1 .. new))
    BY <1>1, <1>6, <1>7, InputIsDetections, IsASeq
  <1>9. TypeOK'
    BY <1>2, <1>3, <1>4, <1>6, <1>8, InputIsDetections DEF TypeOK
  <1>10. Partition'
    <2>1. UNION {groups'[h] : h \in DOMAIN groups'}
            = (UNION {groups[h] : h \in DOMAIN groups}) \cup {new}
      BY <1>1, <1>6
    <2>2. ASSUME NEW h \in DOMAIN groups, NEW k \in DOMAIN groups, h # k
          PROVE  groups'[h] \cap groups'[k] = {}
      <3>1. groups[h] \cap groups[k] = {}
        BY <2>2 DEF Partition
      <3>2. new \notin groups[h] /\ new \notin groups[k]
        BY <1>4, <1>5
      <3> HIDE DEF new
      <3> QED
        BY <1>6, <2>2, <3>1, <3>2
    <2>3. \A h \in DOMAIN groups : groups'[h] # {}
      BY <1>6 DEF Partition
    <2> QED
      BY <1>2, <1>4, <1>6, <2>1, <2>2, <2>3 DEF Partition
  <1>11. OneType'
    <2>1. PICK m \in groups[g] : results[new].type = results[m].type
      BY <1>1 DEF Joins, Overlaps
    <2>2. \A i \in groups'[g] : results[i].type = results[m].type
      BY <1>1, <1>6, <2>1 DEF OneType
    <2> QED
      BY <1>2, <1>6, <2>2 DEF OneType
  <1>12. Judged' /\ PlacedFirst'
    BY <1>2, <1>3 DEF Judged, PlacedFirst
  <1>13. EnoughDetectors'
    BY <1>2 DEF EnoughDetectors
  <1> QED
    BY <1>9, <1>10, <1>11, <1>12, <1>13

\* A detection that overlaps no group is one of its own.
LEMMA FoundKeeps == IInv /\ Found => IInv'
  <1> SUFFICES ASSUME IInv, Found PROVE IInv'
    OBVIOUS
  <1> USE DEF IInv
  <1> DEFINE new == placed + 1
             last == Len(groups) + 1
  <1>1. /\ placed < Len(results) /\ placed' = new
        /\ groups' = Append(groups, {new})
        /\ results' = results /\ threshold' = threshold
        /\ filtered' = filtered /\ spans' = spans
    BY DEF Found
  <1>2. filtered = 0
    BY <1>1, InputIsDetections DEF PlacedFirst
  <1>3. new \in 1 .. Len(results) /\ new \notin 1 .. placed /\ 1 .. new = (1 .. placed) \cup {new}
    BY <1>1, InputIsDetections
  <1>4. \A h \in DOMAIN groups : groups[h] \subseteq 1 .. placed
    BY InputIsDetections, ElementOfSeq
  <1>5. /\ DOMAIN groups' = DOMAIN groups \cup {last} /\ last \notin DOMAIN groups
        /\ Len(groups') = last
        /\ groups'[last] = {new}
        /\ \A h \in DOMAIN groups : groups'[h] = groups[h]
    BY <1>1, InputIsDetections
  <1>6. groups' \in Seq(SUBSET (1 .. new))
    <2>1. groups \in Seq(SUBSET (1 .. new))
      BY <1>3, <1>4, InputIsDetections, IsASeq
    <2> QED
      BY <1>1, <1>3, <2>1, AppendProperties
  <1>7. TypeOK'
    BY <1>1, <1>2, <1>3, <1>5, <1>6, InputIsDetections DEF TypeOK
  <1>8. Partition'
    <2>1. UNION {groups'[h] : h \in DOMAIN groups'}
            = (UNION {groups[h] : h \in DOMAIN groups}) \cup {new}
      BY <1>5
    <2>2. \A h, k \in DOMAIN groups' : h # k => groups'[h] \cap groups'[k] = {}
      BY <1>3, <1>4, <1>5 DEF Partition
    <2>3. \A h \in DOMAIN groups' : groups'[h] # {}
      BY <1>5 DEF Partition
    <2> QED
      BY <1>1, <1>3, <2>1, <2>2, <2>3 DEF Partition
  <1>9. OneType'
    BY <1>1, <1>5 DEF OneType
  <1>10. Judged' /\ PlacedFirst'
    BY <1>1, <1>2 DEF Judged, PlacedFirst
  <1>11. EnoughDetectors'
    BY <1>1 DEF EnoughDetectors
  <1> QED
    BY <1>7, <1>8, <1>9, <1>10, <1>11

\* A group becomes a span exactly if it has the detectors.
LEMMA FilterKeeps == IInv /\ Filter => IInv'
  <1> SUFFICES ASSUME IInv, Filter PROVE IInv'
    OBVIOUS
  <1> USE DEF IInv
  <1> DEFINE g == groups[filtered + 1]
             detectors == DetectorsOf(results, g)
             span == SpanOf(results, g)
  <1>1. /\ placed = Len(results) /\ filtered < Len(groups) /\ filtered' = filtered + 1
        /\ results' = results /\ threshold' = threshold
        /\ placed' = placed /\ groups' = groups
    BY DEF Filter
  <1>2. spans' = IF Cardinality(detectors) < threshold THEN spans ELSE spans \cup {span}
    BY DEF Filter
  <1>3. filtered + 1 \in DOMAIN groups
    BY <1>1, InputIsDetections
  <1>4. g \in SUBSET (1 .. Len(results)) /\ g # {}
    BY <1>3, InputIsDetections DEF Partition
  <1>5. span \in Span /\ span.detectors = detectors
    BY <1>4, InputIsDetections, SpanOfGroup DEF SpanOf
  <1>6. Cardinality(detectors) \in Nat
    BY <1>4, InputIsDetections, DetectorCount
  <1>7. Kept(filtered + 1) => ~(Cardinality(detectors) < threshold)
    BY <1>6, InputIsDetections DEF Kept
  <1> HIDE DEF g, detectors, span
  <1>8. TypeOK'
    <2>1. filtered + 1 \in 0 .. Len(groups)
      BY <1>1, InputIsDetections
    <2>2. spans' \subseteq Span
      BY <1>2, <1>5 DEF TypeOK
    <2> QED
      BY <1>1, <2>1, <2>2 DEF TypeOK
  <1>9. Partition' /\ OneType' /\ PlacedFirst'
    BY <1>1 DEF Partition, OneType, PlacedFirst
  <1>10. Judged'
    <2>1. \A h : Kept(h)' = Kept(h)
      BY <1>1 DEF Kept
    <2>2. ASSUME NEW h \in 1 .. filtered + 1, Kept(h)
          PROVE  SpanOf(results, groups[h]) \in spans'
      <3>1. CASE h = filtered + 1
        <4>1. SpanOf(results, groups[h]) = span /\ Kept(filtered + 1)
          BY <2>2, <3>1 DEF span, g
        <4>2. ~(Cardinality(detectors) < threshold)
          BY <1>7, <4>1
        <4>3. spans' = spans \cup {span}
          BY <1>2, <4>2
        <4> QED
          BY <4>1, <4>3
      <3>2. CASE h # filtered + 1
        <4>1. h \in 1 .. filtered
          BY <3>2, InputIsDetections
        <4> QED
          BY <1>2, <2>2, <4>1 DEF Judged
      <3> QED
        BY <3>1, <3>2
    <2> QED
      BY <1>1, <2>1, <2>2 DEF Judged
  <1>11. EnoughDetectors'
    BY <1>1, <1>2, <1>5, <1>6, InputIsDetections DEF EnoughDetectors
  <1> QED
    BY <1>8, <1>9, <1>10, <1>11

\* IInv is an invariant of vote().
THEOREM VotingInvariance == Spec => []IInv
  <1>1. IInv /\ [Next]_vars => IInv'
    <2> SUFFICES ASSUME IInv, [Next]_vars PROVE IInv'
      OBVIOUS
    <2>1. CASE Join
      BY <2>1, JoinKeeps
    <2>2. CASE Found
      BY <2>2, FoundKeeps
    <2>3. CASE Filter
      BY <2>3, FilterKeeps
    <2>4. CASE UNCHANGED vars
      BY <2>4 DEF vars, IInv, TypeOK, Partition, OneType, Judged, Kept, PlacedFirst, EnoughDetectors
    <2> QED
      BY <2>1, <2>2, <2>3, <2>4 DEF Next
  <1> QED
    BY Initially, <1>1, PTL DEF Spec

-----------------------------------------------------------------------------
\* Every reachable state is within the types: what vote() returns are spans.
THEOREM VotingTypeCorrect == Spec => []TypeOK
  <1>1. IInv => TypeOK
    BY DEF IInv
  <1> QED
    BY <1>1, VotingInvariance, PTL

\* The groups partition what was placed: vote() loses no detection and counts
\* none twice, and a span has as many distinct detectors as the threshold asks.
THEOREM GroupsAreSound == Spec => [](Partition /\ EnoughDetectors)
  <1>1. IInv => Partition /\ EnoughDetectors
    BY DEF IInv
  <1> QED
    BY <1>1, VotingInvariance, PTL

\* Detection i is in a group; at threshold 1 that group was kept.
LEMMA InvDropsNothing == IInv => ThresholdOneDropsNothing
  <1> SUFFICES ASSUME IInv, Done, threshold <= 1, NEW i \in DOMAIN results
               PROVE  \E s \in spans : Hides(s, i)
    BY DEF ThresholdOneDropsNothing
  <1> USE DEF IInv
  <1>1. PICK h \in DOMAIN groups : i \in groups[h]
    BY InputIsDetections DEF Partition, Done
  <1> DEFINE g == groups[h]
             span == SpanOf(results, g)
  <1>2. g \in SUBSET (1 .. Len(results)) /\ g # {}
    BY <1>1, InputIsDetections
  <1>3. Kept(h)
    <2>1. Cardinality(DetectorsOf(results, g)) \in Nat \ {0}
      BY <1>2, InputIsDetections, DetectorCount
    <2> QED
      BY <2>1, InputIsDetections DEF Kept
  <1>4. span \in spans
    <2>1. h \in 1 .. filtered
      BY InputIsDetections DEF Done
    <2> QED
      BY <1>3, <2>1 DEF Judged
  <1>5. span.start <= results[i].start /\ results[i].end <= span.end
    BY <1>1, <1>2, InputIsDetections, SpanOfGroup
  <1>6. span.type = results[i].type
    <2>1. Min(g) \in g
      <3>1. g \in SUBSET Nat
        BY <1>2
      <3> QED
        BY <1>2, <3>1, MinOfNats
    <2>2. span.type = results[Min(g)].type
      BY DEF SpanOf
    <2> QED
      BY <1>1, <2>1, <2>2 DEF OneType
  <1>7. span.box = UnionBox(BoxesOf(results, g))
    BY DEF SpanOf
  <1>8. results[i].box # NoBox =>
            /\ span.box.x <= results[i].box.x
            /\ span.box.y <= results[i].box.y
            /\ results[i].box.x + results[i].box.w <= span.box.x + span.box.w
            /\ results[i].box.y + results[i].box.h <= span.box.y + span.box.h
    BY <1>1, <1>2, <1>7, InputIsDetections, UnionBoxEncloses
  <1> HIDE DEF span
  <1>9. Hides(span, i)
    BY <1>5, <1>6, <1>8 DEF Hides
  <1> QED
    BY <1>4, <1>9

\* With threshold 1, as the verifier calls it, vote() drops nothing that any
\* detector reported, whatever it reported and in whatever order.
THEOREM NothingDroppedAtOne == Spec => []ThresholdOneDropsNothing
  BY InvDropsNothing, VotingInvariance, PTL

-----------------------------------------------------------------------------
\* Groups are listed as they are founded, and a group has the founder that
\* Founder gives each of its members.
Founded ==
    /\ \A g \in DOMAIN groups : \A i \in groups[g] : Founder(results)[i] = Min(groups[g])
    /\ \A g, h \in DOMAIN groups : g < h => Min(groups[g]) < Min(groups[h])

\* A span is that of a group judged, and that group has the detectors.
Earned == \A s \in spans : \E h \in 1 .. filtered : Kept(h) /\ s = SpanOf(results, groups[h])

\* The least member of a group is a member.
LEMMA LeastMember ==
    ASSUME IInv, NEW g \in DOMAIN groups
    PROVE  /\ Min(groups[g]) \in groups[g] /\ Min(groups[g]) \in 1 .. placed
           /\ \A i \in groups[g] : Min(groups[g]) <= i
  <1>1. groups[g] \in SUBSET (1 .. placed)
    BY InputIsDetections, ElementOfSeq DEF IInv
  <1>2. groups[g] # {}
    BY DEF IInv, Partition
  <1>3. groups[g] \in SUBSET Nat
    BY <1>1
  <1> QED
    BY <1>1, <1>2, <1>3, MinOfNats

\* The next detection's founder: that of the first group it overlaps, or itself.
LEMMA NextHome ==
    ASSUME IInv, Founded, placed < Len(results)
    PROVE  /\ \A g \in DOMAIN groups :
                 (Joins(g) /\ \A h \in 1 .. g - 1 : ~Joins(h)) =>
                    Founder(results)[placed + 1] = Min(groups[g])
           /\ (\A g \in DOMAIN groups : ~Joins(g)) => Founder(results)[placed + 1] = placed + 1
  <1> DEFINE new == placed + 1
             home == Founder(results)
             near == {k \in 1 .. new - 1 : Overlaps(results[new], results[k])}
             homes == {home[j] : j \in near}
  <1>1. /\ placed \in Nat /\ new \in 1 .. Len(results) /\ new - 1 = placed
        /\ Len(groups) \in Nat /\ DOMAIN groups = 1 .. Len(groups)
        /\ Len(results) \in Nat /\ DOMAIN results = 1 .. Len(results)
    BY InputIsDetections DEF IInv
  <1>2. home[new] = IF homes = {} THEN new ELSE Min(homes)
    <2>1. home[new] = HomeOf(results, home, new)
      BY <1>1, FounderIsHome
    <2> QED
      BY <2>1 DEF HomeOf
  <1>3. \A j \in near : \E h \in DOMAIN groups : j \in groups[h] /\ Joins(h) /\ home[j] = Min(groups[h])
    <2> TAKE j \in near
    <2>1. j \in 1 .. placed /\ Overlaps(results[new], results[j])
      BY <1>1
    <2>2. PICK h \in DOMAIN groups : j \in groups[h]
      BY <2>1 DEF IInv, Partition
    <2> QED
      BY <2>1, <2>2 DEF Joins, Founded
  <1>4. ASSUME NEW g \in DOMAIN groups, Joins(g), \A h \in 1 .. g - 1 : ~Joins(h)
        PROVE  home[new] = Min(groups[g])
    <2>1. PICK i \in groups[g] : Overlaps(results[new], results[i])
      BY <1>4 DEF Joins
    <2>2. i \in near /\ home[i] = Min(groups[g])
      <3>1. i \in 1 .. placed
        BY InputIsDetections, ElementOfSeq DEF IInv
      <3> QED
        BY <1>1, <2>1, <3>1 DEF Founded
    <2>3. Min(groups[g]) \in homes
      BY <2>2
    <2>4. \A x \in homes : Min(groups[g]) <= x /\ x \in Nat
      <3> SUFFICES ASSUME NEW j \in near PROVE Min(groups[g]) <= home[j] /\ home[j] \in Nat
        OBVIOUS
      <3>1. PICK h \in DOMAIN groups : Joins(h) /\ home[j] = Min(groups[h])
        BY <1>3
      <3>2. h \in Nat /\ g \in Nat /\ h \notin 1 .. g - 1
        BY <1>1, <1>4, <3>1
      <3>3. h = g \/ g < h
        BY <1>1, <3>2
      <3>4. Min(groups[g]) \in Nat /\ Min(groups[h]) \in Nat
        BY <1>1, LeastMember
      <3> QED
        BY <3>1, <3>3, <3>4 DEF Founded
    <2> HIDE DEF homes
    <2>5. homes \in SUBSET Nat /\ homes # {}
      BY <2>3, <2>4
    <2>6. Min(homes) \in homes /\ \A y \in homes : Min(homes) <= y
      BY <2>5, MinOfNats
    <2>7. Min(homes) \in Nat /\ Min(groups[g]) \in Nat
      BY <2>3, <2>4, <2>6
    <2>8. Min(homes) <= Min(groups[g]) /\ Min(groups[g]) <= Min(homes)
      BY <2>3, <2>4, <2>6
    <2>9. Min(homes) = Min(groups[g])
      BY ONLY <2>7, <2>8
    <2> QED
      BY <1>2, <2>5, <2>9
  <1>5. ASSUME \A g \in DOMAIN groups : ~Joins(g) PROVE home[new] = new
    <2>1. near = {}
      BY <1>3, <1>5
    <2> QED
      BY <1>2, <2>1
  <1> QED
    BY <1>4, <1>5

\* Placing and judging go on as Founder says.
LEMMA JoinFounds == IInv /\ Founded /\ Join => Founded'
  <1> SUFFICES ASSUME IInv, Founded, Join PROVE Founded'
    OBVIOUS
  <1>1. PICK g \in DOMAIN groups :
            /\ Joins(g) /\ \A h \in 1 .. g - 1 : ~Joins(h)
            /\ groups' = [groups EXCEPT ![g] = @ \cup {placed + 1}]
    BY DEF Join
  <1>2. /\ placed < Len(results) /\ results' = results
        /\ placed \in Nat /\ DOMAIN groups' = DOMAIN groups
    BY <1>1, InputIsDetections DEF Join, IInv
  <1> DEFINE grown == groups[g] \cup {placed + 1}
  <1>3. groups'[g] = grown /\ \A h \in DOMAIN groups : h # g => groups'[h] = groups[h]
    BY <1>1, InputIsDetections DEF IInv
  <1>4. Founder(results)[placed + 1] = Min(groups[g])
    BY <1>1, <1>2, NextHome
  <1>5. Min(grown) = Min(groups[g])
    <2>1. /\ Min(groups[g]) \in grown /\ Min(groups[g]) \in 1 .. placed
          /\ \A i \in groups[g] : i \in Nat /\ Min(groups[g]) <= i
      BY LeastMember, InputIsDetections, ElementOfSeq DEF IInv
    <2>2. \A i \in grown : Min(groups[g]) <= i
      BY <1>2, <2>1
    <2>3. grown \in SUBSET Nat
      BY <1>2, <2>1
    <2> HIDE DEF grown
    <2>4. Min(grown) \in grown /\ \A y \in grown : Min(grown) <= y
      BY <2>1, <2>3, MinOfNats
    <2>5. Min(grown) <= Min(groups[g]) /\ Min(groups[g]) <= Min(grown)
      BY <2>1, <2>2, <2>4
    <2>6. Min(grown) \in Nat /\ Min(groups[g]) \in Nat
      BY <1>2, <2>1, <2>3, <2>4
    <2> QED
      BY ONLY <2>5, <2>6
  <1>6. \A h \in DOMAIN groups : Min(groups'[h]) = Min(groups[h])
    BY <1>3, <1>5
  <1>7. \A h \in DOMAIN groups : \A i \in groups'[h] : Founder(results)[i] = Min(groups[h])
    BY <1>3, <1>4 DEF Founded
  <1> QED
    BY <1>2, <1>6, <1>7 DEF Founded

LEMMA FoundFounds == IInv /\ Founded /\ Found => Founded'
  <1> SUFFICES ASSUME IInv, Founded, Found PROVE Founded'
    OBVIOUS
  <1> DEFINE last == Len(groups) + 1
             new == placed + 1
  <1>1. /\ placed < Len(results) /\ results' = results
        /\ groups' = Append(groups, {new})
        /\ \A g \in DOMAIN groups : ~Joins(g)
    BY DEF Found
  <1>2. /\ placed \in Nat /\ Len(groups) \in Nat /\ DOMAIN groups = 1 .. Len(groups)
        /\ DOMAIN groups' = DOMAIN groups \cup {last}
        /\ groups'[last] = {new} /\ last \notin DOMAIN groups
        /\ \A h \in DOMAIN groups : groups'[h] = groups[h] /\ h < last
    BY <1>1, InputIsDetections DEF IInv
  <1>3. Founder(results)[new] = new
    BY <1>1, NextHome
  <1>4. Min({new}) = new
    BY <1>2, MinOfTwo
  <1>5. \A h \in DOMAIN groups : Min(groups'[h]) = Min(groups[h]) /\ Min(groups[h]) < new
    BY <1>2, LeastMember
  <1>6. \A h \in DOMAIN groups' : \A i \in groups'[h] : Founder(results)[i] = Min(groups'[h])
    BY <1>2, <1>3, <1>4 DEF Founded
  <1>7. ASSUME NEW g \in DOMAIN groups', NEW h \in DOMAIN groups', g < h
        PROVE  Min(groups'[g]) < Min(groups'[h])
    <2>1. g \in DOMAIN groups
      BY <1>2, <1>7
    <2>2. CASE h = last
      BY <1>2, <1>4, <1>5, <2>1, <2>2
    <2>3. CASE h \in DOMAIN groups
      BY <1>5, <1>7, <2>1, <2>3 DEF Founded
    <2> QED
      BY <1>2, <2>2, <2>3
  <1> QED
    BY <1>1, <1>6, <1>7 DEF Founded

LEMMA FilterEarns == IInv /\ Earned /\ Filter => Earned'
  <1> SUFFICES ASSUME IInv, Earned, Filter PROVE Earned'
    OBVIOUS
  <1> DEFINE g == filtered + 1
  <1>1. /\ g \in DOMAIN groups /\ filtered \in Nat /\ filtered' = g
        /\ results' = results /\ threshold' = threshold /\ groups' = groups
        /\ spans' = IF Cardinality(DetectorsOf(results, groups[g])) < threshold
                    THEN spans ELSE spans \cup {SpanOf(results, groups[g])}
    BY InputIsDetections DEF Filter, IInv
  <1>2. Cardinality(DetectorsOf(results, groups[g])) \in Nat /\ threshold \in Int
    <2>1. groups[g] \in SUBSET (1 .. Len(results)) /\ groups[g] # {}
      BY <1>1, InputIsDetections DEF IInv, Partition
    <2> QED
      BY <2>1, InputIsDetections, DetectorCount DEF IInv
  <1>3. \A h : Kept(h)' = Kept(h)
    BY <1>1 DEF Kept
  <1>4. \A h \in 1 .. filtered : h \in 1 .. g
    BY <1>1
  <1>5. g \in 1 .. g
    BY <1>1
  <1> SUFFICES ASSUME NEW s \in spans'
               PROVE  \E h \in 1 .. g : Kept(h) /\ s = SpanOf(results, groups[h])
    BY <1>1, <1>3 DEF Earned
  <1>6. CASE s \in spans
    BY <1>4, <1>6 DEF Earned
  <1>7. CASE s \notin spans
    <2>1. s = SpanOf(results, groups[g]) /\ ~(Cardinality(DetectorsOf(results, groups[g])) < threshold)
      BY <1>1, <1>7
    <2>2. Kept(g)
      BY <1>2, <2>1 DEF Kept
    <2> QED
      BY <1>5, <2>1, <2>2
  <1> QED
    BY <1>6, <1>7

\* When all is placed, the list of groups is the set Groups.
LEMMA GroupsComputed ==
    ASSUME IInv, Founded, placed = Len(results)
    PROVE  Groups(results) = {groups[h] : h \in DOMAIN groups}
  <1> DEFINE home == Founder(results)
             class(j) == {i \in DOMAIN results : home[i] = home[j]}
  <1>1. /\ DOMAIN results = 1 .. placed
        /\ \A h \in DOMAIN groups : groups[h] \subseteq 1 .. placed /\ groups[h] # {}
        /\ \A j \in 1 .. placed : \E h \in DOMAIN groups : j \in groups[h]
        /\ Len(groups) \in Nat /\ DOMAIN groups = 1 .. Len(groups)
    BY InputIsDetections DEF IInv, Partition
  <1>2. ASSUME NEW h \in DOMAIN groups, NEW j \in groups[h] PROVE class(j) = groups[h]
    <2>1. home[j] = Min(groups[h])
      BY DEF Founded
    <2>2. ASSUME NEW i \in DOMAIN results, home[i] = home[j] PROVE i \in groups[h]
      <3>1. PICK k \in DOMAIN groups : i \in groups[k]
        BY <1>1
      <3>2. Min(groups[k]) = Min(groups[h])
        BY <2>1, <2>2, <3>1 DEF Founded
      <3>3. Min(groups[k]) \in Nat /\ Min(groups[h]) \in Nat
        BY LeastMember
      <3>4. ~(k < h) /\ ~(h < k)
        BY <3>2, <3>3 DEF Founded
      <3>5. k = h
        BY <1>1, <3>4
      <3> QED
        BY <3>1, <3>5
    <2>3. \A i \in groups[h] : i \in DOMAIN results /\ home[i] = home[j]
      BY <1>1, <2>1 DEF Founded
    <2> HIDE DEF home
    <2> QED
      BY <2>2, <2>3
  <1>3. Groups(results) = {class(j) : j \in DOMAIN results}
    BY DEF Groups
  <1> HIDE DEF class
  <1>4. \A j \in DOMAIN results : class(j) \in {groups[h] : h \in DOMAIN groups}
    BY <1>1, <1>2
  <1>5. \A h \in DOMAIN groups : \E j \in DOMAIN results : groups[h] = class(j)
    BY <1>1, <1>2
  <1> QED
    BY <1>3, <1>4, <1>5

LEMMA InvComputes == IInv /\ Founded /\ Earned => ComputesVote
  <1> SUFFICES ASSUME IInv, Founded, Earned, Done PROVE spans = Vote(results, threshold)
    BY DEF ComputesVote
  <1>1. /\ placed = Len(results) /\ filtered = Len(groups) /\ DOMAIN groups = 1 .. filtered
    BY InputIsDetections DEF Done, IInv
  <1>2. Groups(results) = {groups[h] : h \in DOMAIN groups}
    BY <1>1, GroupsComputed
  <1>3. ASSUME NEW s \in spans PROVE s \in Vote(results, threshold)
    <2>1. PICK h \in DOMAIN groups : Kept(h) /\ s = SpanOf(results, groups[h])
      BY <1>1 DEF Earned
    <2>2. groups[h] \in Trusted(results, threshold)
      BY <1>2, <2>1 DEF Trusted, Kept
    <2> QED
      BY <2>1, <2>2 DEF Vote
  <1>4. ASSUME NEW s \in Vote(results, threshold) PROVE s \in spans
    <2>1. PICK g \in Trusted(results, threshold) : s = SpanOf(results, g)
      BY <1>4 DEF Vote
    <2>2. PICK h \in DOMAIN groups : g = groups[h]
      BY <1>2, <2>1 DEF Trusted
    <2>3. Kept(h)
      BY <2>1, <2>2 DEF Trusted, Kept
    <2> QED
      BY <1>1, <2>1, <2>2, <2>3 DEF IInv, Judged
  <1> QED
    BY <1>3, <1>4

\* The loops of vote() compute the declarative Vote on which the other modules
\* rely, for every list of detections and every threshold.
THEOREM LoopComputesVote == Spec => []ComputesVote
  <1>1. Init => Founded /\ Earned
    BY DEF Init, Founded, Earned
  <1>2. IInv /\ Founded /\ Earned /\ [Next]_vars => Founded' /\ Earned'
    <2> SUFFICES ASSUME IInv, Founded, Earned, [Next]_vars PROVE Founded' /\ Earned'
      OBVIOUS
    <2>1. ASSUME filtered' = filtered, spans' = spans, Join \/ Found PROVE Earned'
      <3>1. spans = {}
        BY <2>1, InputIsDetections DEF Join, Found, IInv, PlacedFirst, Earned
      <3> QED
        BY <2>1, <3>1 DEF Earned
    <2>2. CASE Join
      BY <2>1, <2>2, JoinFounds DEF Join
    <2>3. CASE Found
      BY <2>1, <2>3, FoundFounds DEF Found
    <2>4. CASE Filter
      <3>1. groups' = groups /\ results' = results
        BY <2>4 DEF Filter
      <3> QED
        BY <2>4, <3>1, FilterEarns DEF Founded
    <2>5. CASE UNCHANGED vars
      BY <2>5 DEF vars, Founded, Earned, Kept
    <2> QED
      BY <2>2, <2>3, <2>4, <2>5 DEF Next
  <1> QED
    BY <1>1, <1>2, InvComputes, VotingInvariance, PTL DEF Spec
=============================================================================
