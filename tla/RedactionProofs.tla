-------------------------- MODULE RedactionProofs ---------------------------
(***************************************************************************)
(* Lemmas about the operators that the other modules are built from: least *)
(* and greatest elements, the groups of a vote and the spans it trusts, of *)
(* Ensemble; what a set of spans hides, of Redaction, clamping at the      *)
(* frame and truncation to pixels included.                                *)
(***************************************************************************)
EXTENDS Redaction, FiniteSetTheorems, SequenceTheorems, NaturalsInduction, WellFoundedInduction, TLAPS

\* A non-empty set of naturals has a least element, and Min is it.
LEMMA MinOfNats ==
    ASSUME NEW S \in SUBSET Nat, S # {}
    PROVE  /\ Min(S) \in S
           /\ \A y \in S : Min(S) <= y
  <1> DEFINE less == OpToRel(<, Nat)
  <1>1. IsWellFoundedOn(less, Nat)
    BY NatLessThanWellFounded
  <1>2. \A a, b \in Nat : a < b => <<a, b>> \in less
    <2> TAKE a, b \in Nat
    <2> HAVE a < b
    <2>1. <<a, b>> \in Nat \X Nat /\ <<a, b>>[1] < <<a, b>>[2]
      OBVIOUS
    <2> QED
      BY <2>1, Zenon DEF OpToRel
  <1> HIDE DEF less
  <1>3. PICK x \in S : \A y \in S : ~ (<<y, x>> \in less)
    BY <1>1, WFMin, Zenon
  <1>4. \A y \in S : ~ (y < x)
    BY <1>2, <1>3, Zenon
  <1>5. \A y \in S : x <= y
    BY <1>4
  <1> QED
    BY <1>5 DEF Min

\* A set of naturals with an upper bound has a greatest element, and Max is it.
LEMMA MaxOfNats ==
    ASSUME NEW S \in SUBSET Nat, S # {}, NEW bound \in Nat, \A y \in S : y <= bound
    PROVE  /\ Max(S) \in S
           /\ \A y \in S : Max(S) >= y
  <1> DEFINE gaps == {bound - y : y \in S}
  <1>1. gaps \in SUBSET Nat /\ gaps # {}
    <2>1. ASSUME NEW y \in S PROVE bound - y \in Nat
      OBVIOUS
    <2>2. gaps \subseteq Nat
      BY <2>1, Zenon
    <2>3. gaps # {}
      BY Zenon
    <2> QED
      BY <2>2, <2>3, Zenon
  <1>2. Min(gaps) \in gaps /\ \A z \in gaps : Min(gaps) <= z
    BY <1>1, MinOfNats
  <1>3. PICK x \in S : Min(gaps) = bound - x
    BY <1>2
  <1>4. ASSUME NEW y \in S PROVE x >= y
    <2>1. bound - y \in gaps
      OBVIOUS
    <2>2. bound - x <= bound - y
      BY <1>2, <1>3, <2>1
    <2> QED
      BY <2>2
  <1> QED
    BY <1>4 DEF Max

\* Max of two integers is the greater one.
LEMMA MaxOfTwo ==
    \A a, b \in Int : Max({a, b}) = IF a >= b THEN a ELSE b
  BY DEF Max

\* Min of two integers is the lesser one.
LEMMA MinOfTwo ==
    \A a, b \in Int : Min({a, b}) = IF a <= b THEN a ELSE b
  BY DEF Min

\* The values of a function on 1 .. n are bounded: the shortest prefix
\* without a bound would have one.
LEMMA ListIsBounded ==
    ASSUME NEW n \in Nat, NEW f \in [1 .. n -> Nat]
    PROVE  \E bound \in Nat : \A i \in 1 .. n : f[i] <= bound
  <1> DEFINE Bounds(b, m) == \A i \in 1 .. m : f[i] <= b
             bad == {m \in 0 .. n : \A b \in Nat : ~Bounds(b, m)}
  <1>1. SUFFICES ASSUME bad # {} PROVE FALSE
    <2>1. n \notin bad => \E b \in Nat : Bounds(b, n)
      OBVIOUS
    <2> QED
      BY <2>1
  <1>2. PICK m \in bad : \A k \in bad : m <= k
    <2> bad \in SUBSET Nat
      OBVIOUS
    <2> HIDE DEF bad
    <2> QED
      BY <1>1, MinOfNats
  <1>3. CASE m = 0
    <2>1. Bounds(0, 0)
      OBVIOUS
    <2> QED
      BY <1>2, <1>3, <2>1
  <1>4. CASE m > 0
    <2>1. m - 1 \in 0 .. n /\ m - 1 \notin bad
      <3>1. m \in 0 .. n
        BY DEF bad
      <3> HIDE DEF bad
      <3> QED
        BY <1>2, <1>4, <3>1
    <2>2. PICK b \in Nat : Bounds(b, m - 1)
      BY <2>1
    <2>3. m \in 1 .. n /\ f[m] \in Nat
      BY <1>2, <1>4
    <2>4. \A i \in 1 .. m : i \in 1 .. m - 1 \/ i = m
      BY <2>3
    <2>5. \A i \in 1 .. m - 1 : f[i] \in Nat /\ f[i] <= b
      BY <2>2, <2>3
    <2>6. Bounds(b + f[m], m)
      BY <2>3, <2>4, <2>5
    <2>7. b + f[m] \in Nat
      BY <2>3
    <2> QED
      BY <1>2, <2>6, <2>7
  <1> QED
    BY <1>2, <1>3, <1>4

-----------------------------------------------------------------------------
\* The founder of detection i's group, given those of the detections before it.
HomeOf(raw, home, i) ==
    LET homes == {home[j] : j \in {k \in 1 .. i - 1 : Overlaps(raw[i], raw[k])}}
    IN  IF homes = {} THEN i ELSE Min(homes)

\* It depends on no other.
LEMMA HomeOfAgrees ==
    ASSUME NEW raw, NEW f, NEW g, NEW i \in Nat, \A j \in 1 .. i - 1 : f[j] = g[j]
    PROVE  HomeOf(raw, f, i) = HomeOf(raw, g, i)
  <1> DEFINE earlier == {k \in 1 .. i - 1 : Overlaps(raw[i], raw[k])}
  <1>1. {f[j] : j \in earlier} = {g[j] : j \in earlier}
    <2>1. \A j \in earlier : f[j] = g[j]
      OBVIOUS
    <2> HIDE DEF earlier
    <2> QED
      BY <2>1
  <1> QED
    BY <1>1 DEF HomeOf

\* Every list has founders: a shortest one without them would get those of the
\* list without its last detection, and one more.
LEMMA FoundersExist ==
    ASSUME NEW raw, NEW n \in Nat
    PROVE  \E f : f = [i \in 1 .. n |-> HomeOf(raw, f, i)]
  <1> DEFINE Homes(f, m) == f = [i \in 1 .. m |-> HomeOf(raw, f, i)]
             bad == {m \in 0 .. n : \A f : ~Homes(f, m)}
  <1>1. SUFFICES ASSUME bad # {} PROVE FALSE
    <2>1. n \in 0 .. n /\ n \notin bad
      BY <1>1
    <2>2. \E f : Homes(f, n)
      BY <2>1
    <2> QED
      BY <2>2
  <1>2. PICK m \in bad : \A k \in bad : m <= k
    <2>1. bad \in SUBSET Nat
      OBVIOUS
    <2> HIDE DEF bad
    <2> QED
      BY <1>1, <2>1, MinOfNats
  <1>3. m \in 0 .. n /\ m \in Nat /\ \A f : ~Homes(f, m)
    OBVIOUS
  <1>4. m # 0
    <2> DEFINE none == [i \in 1 .. 0 |-> i]
    <2>1. none = [i \in 1 .. 0 |-> HomeOf(raw, none, i)]
      <3>1. \A i : i \notin 1 .. 0
        OBVIOUS
      <3> QED
        BY <3>1
    <2> QED
      BY <1>3, <2>1
  <1>5. m - 1 \in 0 .. n /\ m - 1 \notin bad
    <2>1. m - 1 \in 0 .. n
      BY <1>3, <1>4
    <2> HIDE DEF bad
    <2> QED
      BY <1>2, <1>3, <2>1
  <1>6. PICK f : Homes(f, m - 1)
    BY <1>5
  <1> DEFINE g == [i \in 1 .. m |-> IF i = m THEN HomeOf(raw, f, m) ELSE f[i]]
  <1>7. \A i \in 1 .. m : \A j \in 1 .. i - 1 : j \in 1 .. m /\ j # m /\ g[j] = f[j]
    BY <1>3
  <1>8. \A i \in 1 .. m : HomeOf(raw, f, i) = HomeOf(raw, g, i)
    <2> TAKE i \in 1 .. m
    <2>1. i \in Nat /\ \A j \in 1 .. i - 1 : f[j] = g[j]
      BY <1>7
    <2> HIDE DEF g
    <2> QED
      BY <2>1, HomeOfAgrees
  <1>9. \A i \in 1 .. m : g[i] = HomeOf(raw, g, i)
    <2> TAKE i \in 1 .. m
    <2>1. CASE i = m
      <3>1. g[i] = HomeOf(raw, f, i)
        BY <2>1
      <3> QED
        BY <3>1, <1>8
    <2>2. CASE i # m
      <3>1. i \in 1 .. m - 1 /\ g[i] = f[i]
        BY <1>3, <2>2
      <3>2. f[i] = HomeOf(raw, f, i)
        BY <1>6, <3>1
      <3> QED
        BY <1>8, <3>1, <3>2
    <2> QED
      BY <2>1, <2>2
  <1>10. Homes(g, m)
    <2>1. g = [i \in 1 .. m |-> g[i]]
      OBVIOUS
    <2> HIDE DEF g
    <2> QED
      BY <1>9, <2>1
  <1> QED
    BY <1>3, <1>10

\* So the recursion in Founder has a solution, and Founder is one.
LEMMA FounderIsHome ==
    ASSUME NEW raw, NEW n \in Nat, DOMAIN raw = 1 .. n, NEW i \in 1 .. n
    PROVE  Founder(raw)[i] = HomeOf(raw, Founder(raw), i)
  <1>1. PICK f : f = [k \in 1 .. n |-> HomeOf(raw, f, k)]
    BY FoundersExist
  <1>2. Founder(raw) = [k \in DOMAIN raw |-> HomeOf(raw, Founder(raw), k)]
    <2>1. f = [k \in DOMAIN raw |-> HomeOf(raw, f, k)]
      BY <1>1
    <2> QED
      BY <2>1, Zenon DEF Founder, HomeOf
  <1> QED
    BY <1>2

-----------------------------------------------------------------------------
\* A group is a non-empty set of indices into the detections.
LEMMA GroupsAreIndices ==
    ASSUME NEW raw \in Seq(Detection), NEW g \in Groups(raw)
    PROVE  g \subseteq 1 .. Len(raw) /\ g # {}
  BY DEF Groups

\* The numbers a group's members carry have a least and a greatest value.
LEMMA GroupBounds ==
    ASSUME NEW n \in Nat, NEW f \in [1 .. n -> Nat], NEW g \in SUBSET (1 .. n), g # {}
    PROVE  LET S == {f[i] : i \in g}
           IN  /\ Min(S) \in Nat /\ Max(S) \in Nat
               /\ \A i \in g : Min(S) <= f[i] /\ f[i] <= Max(S)
  <1> DEFINE S == {f[i] : i \in g}
  <1>1. S \in SUBSET Nat /\ S # {}
    OBVIOUS
  <1>2. PICK bound \in Nat : \A i \in 1 .. n : f[i] <= bound
    BY ListIsBounded
  <1>3. \A y \in S : y <= bound
    BY <1>2
  <1>4. \A i \in g : f[i] \in S
    OBVIOUS
  <1> HIDE DEF S
  <1>5. Min(S) \in S /\ \A y \in S : Min(S) <= y
    BY <1>1, MinOfNats
  <1>6. Max(S) \in S /\ \A y \in S : Max(S) >= y
    BY <1>1, <1>3, MaxOfNats
  <1>7. /\ Min(S) \in Nat /\ Max(S) \in Nat
        /\ \A i \in g : Min(S) <= f[i] /\ f[i] <= Max(S)
    BY <1>1, <1>4, <1>5, <1>6
  <1> QED
    BY <1>7 DEF S

\* What the fields of a raw detection range over.
LEMMA DetectionFields ==
    ASSUME NEW raw \in Seq(Detection), NEW k \in 1 .. Len(raw)
    PROVE  /\ raw[k].type \in PiiTypes /\ raw[k].det \in Detectors
           /\ raw[k].start \in Nat /\ raw[k].end \in Nat
           /\ raw[k].box # NoBox => /\ raw[k].box \in Box
                                    /\ raw[k].box.x \in Nat /\ raw[k].box.w \in Nat
                                    /\ raw[k].box.y \in Nat /\ raw[k].box.h \in Nat
  <1>1. raw[k] \in Detection
    OBVIOUS
  <1>2. raw[k].box \in Box \cup {NoBox}
    BY <1>1 DEF Detection
  <1> QED
    BY <1>1, <1>2 DEF Detection, Box

\* The union box of a group's boxes is a box, and it encloses each of them.
LEMMA UnionBoxEncloses ==
    ASSUME NEW raw \in Seq(Detection), NEW g \in SUBSET (1 .. Len(raw)),
           NEW i \in g, raw[i].box # NoBox
    PROVE  LET u == UnionBox(BoxesOf(raw, g))
               b == raw[i].box
           IN  /\ u \in Box
               /\ u.x <= b.x /\ b.x + b.w <= u.x + u.w
               /\ u.y <= b.y /\ b.y + b.h <= u.y + u.h
  <1> DEFINE n == Len(raw)
             boxed == {k \in g : raw[k].box # NoBox}
             zero == [x |-> 0, y |-> 0, w |-> 0, h |-> 0]
             box(k) == IF raw[k].box = NoBox THEN zero ELSE raw[k].box
             boxes == BoxesOf(raw, g)
             xs == [k \in 1 .. n |-> box(k).x]
             ys == [k \in 1 .. n |-> box(k).y]
             rs == [k \in 1 .. n |-> box(k).x + box(k).w]
             bs == [k \in 1 .. n |-> box(k).y + box(k).h]
  <1>1. n \in Nat /\ boxed \in SUBSET (1 .. n) /\ boxed # {} /\ i \in boxed
    <2>1. n \in Nat
      BY LenProperties
    <2>2. i \in boxed
      OBVIOUS
    <2> QED
      BY <2>1, <2>2
  <1>2. \A k \in 1 .. n : box(k) \in Box
    <2>1. zero \in Box
      BY DEF Box
    <2> QED
      BY <2>1, DetectionFields
  <1>3. /\ xs \in [1 .. n -> Nat] /\ ys \in [1 .. n -> Nat]
        /\ rs \in [1 .. n -> Nat] /\ bs \in [1 .. n -> Nat]
    <2>1. \A k \in 1 .. n : /\ box(k).x \in Nat /\ box(k).y \in Nat
                            /\ box(k).w \in Nat /\ box(k).h \in Nat
      BY <1>2 DEF Box
    <2> HIDE DEF box
    <2>2. \A k \in 1 .. n : box(k).x + box(k).w \in Nat /\ box(k).y + box(k).h \in Nat
      BY <2>1
    <2> QED
      BY <2>1, <2>2
  <1>4. boxes = {raw[k].box : k \in boxed}
    BY DEF BoxesOf
  <1>5. /\ {b.x : b \in boxes} = {xs[k] : k \in boxed}
        /\ {b.y : b \in boxes} = {ys[k] : k \in boxed}
        /\ {b.x + b.w : b \in boxes} = {rs[k] : k \in boxed}
        /\ {b.y + b.h : b \in boxes} = {bs[k] : k \in boxed}
    <2>1. \A k \in boxed : /\ xs[k] = raw[k].box.x /\ rs[k] = raw[k].box.x + raw[k].box.w
                           /\ ys[k] = raw[k].box.y /\ bs[k] = raw[k].box.y + raw[k].box.h
      BY <1>1
    <2> HIDE DEF xs, ys, rs, bs, boxed, boxes
    <2> QED
      BY <1>4, <2>1
  <1>6. boxes # {}
    BY <1>1, <1>4
  <1> DEFINE left == Min({xs[k] : k \in boxed})
             right == Max({rs[k] : k \in boxed})
             top == Min({ys[k] : k \in boxed})
             bottom == Max({bs[k] : k \in boxed})
  <1>7. UnionBox(boxes) = [x |-> left, y |-> top, w |-> right - left, h |-> bottom - top]
    BY <1>5, <1>6 DEF UnionBox
  <1>8. /\ xs[i] = raw[i].box.x /\ rs[i] = raw[i].box.x + raw[i].box.w
        /\ ys[i] = raw[i].box.y /\ bs[i] = raw[i].box.y + raw[i].box.h
    BY <1>1
  <1>9. xs[i] <= rs[i] /\ ys[i] <= bs[i]
    BY <1>1, <1>2 DEF Box
  <1> HIDE DEF xs, ys, rs, bs, boxed, n, boxes
  <1>10. left \in Nat /\ left <= xs[i]
    BY <1>1, <1>3, GroupBounds
  <1>11. top \in Nat /\ top <= ys[i]
    BY <1>1, <1>3, GroupBounds
  <1>12. right \in Nat /\ rs[i] <= right
    BY <1>1, <1>3, GroupBounds
  <1>13. bottom \in Nat /\ bs[i] <= bottom
    BY <1>1, <1>3, GroupBounds
  <1>14. xs[i] \in Nat /\ ys[i] \in Nat /\ rs[i] \in Nat /\ bs[i] \in Nat
    BY <1>1, <1>3
  <1> HIDE DEF left, right, top, bottom
  <1>15. right - left \in Nat /\ bottom - top \in Nat
    BY <1>9, <1>10, <1>11, <1>12, <1>13, <1>14
  <1>16. UnionBox(boxes) \in Box
    BY <1>7, <1>10, <1>11, <1>15 DEF Box
  <1>17. /\ UnionBox(boxes).x = left /\ UnionBox(boxes).x + UnionBox(boxes).w = right
         /\ UnionBox(boxes).y = top /\ UnionBox(boxes).y + UnionBox(boxes).h = bottom
    BY <1>7, <1>10, <1>11, <1>12, <1>13
  <1> QED
    BY <1>8, <1>10, <1>11, <1>12, <1>13, <1>16, <1>17 DEF boxes

\* The span of a group is a span, and its interval contains its members'.
LEMMA SpanOfGroup ==
    ASSUME NEW raw \in Seq(Detection), NEW g \in SUBSET (1 .. Len(raw)), g # {}
    PROVE  /\ SpanOf(raw, g) \in Span
           /\ \A i \in g : /\ SpanOf(raw, g).start <= raw[i].start
                           /\ raw[i].end <= SpanOf(raw, g).end
  <1> DEFINE n == Len(raw)
             starts == [k \in 1 .. n |-> raw[k].start]
             ends == [k \in 1 .. n |-> raw[k].end]
             first == Min({raw[i].start : i \in g})
             last == Max({raw[i].end : i \in g})
  <1>1. n \in Nat /\ g \in SUBSET (1 .. n)
    BY LenProperties
  <1>2. starts \in [1 .. n -> Nat] /\ ends \in [1 .. n -> Nat]
    BY DetectionFields
  <1>3. {raw[i].start : i \in g} = {starts[i] : i \in g}
    BY <1>1
  <1>4. {raw[i].end : i \in g} = {ends[i] : i \in g}
    BY <1>1
  <1>5. \A i \in g : starts[i] = raw[i].start /\ ends[i] = raw[i].end
    BY <1>1
  <1> HIDE DEF starts, ends
  <1>6. first \in Nat /\ \A i \in g : first <= raw[i].start
    <2> HIDE DEF n
    <2> QED
      BY <1>1, <1>2, <1>3, <1>5, GroupBounds
  <1>7. last \in Nat /\ \A i \in g : raw[i].end <= last
    <2> HIDE DEF n
    <2> QED
      BY <1>1, <1>2, <1>4, <1>5, GroupBounds
  <1>8. Min(g) \in g
    <2>1. g \in SUBSET Nat
      BY <1>1
    <2> QED
      BY <2>1, MinOfNats
  <1>9. raw[Min(g)].type \in PiiTypes
    BY <1>1, <1>8, DetectionFields
  <1>10. DetectorsOf(raw, g) \in SUBSET Detectors
    BY <1>1, DetectionFields DEF DetectorsOf
  <1>11. UnionBox(BoxesOf(raw, g)) \in Box \cup {NoBox}
    <2>1. CASE \E i \in g : raw[i].box # NoBox
      BY <2>1, UnionBoxEncloses
    <2>2. CASE \A i \in g : raw[i].box = NoBox
      <3>1. BoxesOf(raw, g) = {}
        BY <2>2 DEF BoxesOf
      <3> QED
        BY <3>1 DEF UnionBox
    <2> QED
      BY <2>1, <2>2
  <1> HIDE DEF n, first, last
  <1>12. SpanOf(raw, g) = [type |-> raw[Min(g)].type, detectors |-> DetectorsOf(raw, g),
                           start |-> first, end |-> last,
                           box |-> UnionBox(BoxesOf(raw, g))]
    BY DEF SpanOf, first, last
  <1> QED
    BY <1>6, <1>7, <1>9, <1>10, <1>11, <1>12 DEF Span

\* vote() returns spans.
LEMMA VoteIsTyped ==
    ASSUME NEW raw \in Seq(Detection), NEW t
    PROVE  Vote(raw, t) \subseteq Span
  <1>1. \A g \in Trusted(raw, t) : g \in Groups(raw)
    BY DEF Trusted
  <1>2. \A g \in Groups(raw) : SpanOf(raw, g) \in Span
    BY GroupsAreIndices, SpanOfGroup
  <1> QED
    BY <1>1, <1>2 DEF Vote

\* Every group has a positive, finite number of distinct detectors.
LEMMA DetectorCount ==
    ASSUME NEW raw \in Seq(Detection), NEW g \in SUBSET (1 .. Len(raw)), g # {}
    PROVE  Cardinality(DetectorsOf(raw, g)) \in Nat \ {0}
  <1>1. IsFiniteSet(g)
    <2>1. Len(raw) \in Int
      BY LenProperties
    <2>2. IsFiniteSet(1 .. Len(raw))
      BY <2>1, FS_Interval
    <2> QED
      BY <2>2, FS_Subset
  <1>2. IsFiniteSet(DetectorsOf(raw, g))
    <2> DEFINE det == [k \in g |-> raw[k].det]
    <2>1. det \in Surjection(g, DetectorsOf(raw, g))
      BY DEF Surjection, DetectorsOf
    <2> QED
      BY <1>1, <2>1, FS_Surjection
  <1>3. DetectorsOf(raw, g) # {}
    BY DEF DetectorsOf
  <1> QED
    BY <1>2, <1>3, FS_CardinalityType, FS_EmptySet

\* A lower threshold trusts every span a higher one does: escalating the
\* threshold never gives a span up.
LEMMA VoteIsMonotone ==
    ASSUME NEW raw \in Seq(Detection), NEW low \in Int, NEW high \in Int, low <= high
    PROVE  Vote(raw, high) \subseteq Vote(raw, low)
  <1>1. \A g \in Groups(raw) : Cardinality(DetectorsOf(raw, g)) \in Nat
    BY GroupsAreIndices, DetectorCount
  <1>2. Trusted(raw, high) \subseteq Trusted(raw, low)
    BY <1>1 DEF Trusted
  <1> QED
    BY <1>2 DEF Vote

\* At threshold 0 as at threshold 1 every group is trusted.
LEMMA VoteAtOne ==
    ASSUME NEW raw \in Seq(Detection), NEW t \in Int, t <= 1
    PROVE  Vote(raw, t) = Vote(raw, 1)
  <1>1. \A g \in Groups(raw) : Cardinality(DetectorsOf(raw, g)) \in Nat \ {0}
    BY GroupsAreIndices, DetectorCount
  <1>2. Trusted(raw, t) = Trusted(raw, 1)
    BY <1>1 DEF Trusted
  <1> QED
    BY <1>2 DEF Vote

\* At threshold 1, as the verifier votes, every raw detection lies within
\* some span, in time and, if it has a box, in space.
THEOREM VerifierMissesNothing ==
    ASSUME NEW raw \in Seq(Detection), NEW i \in DOMAIN raw
    PROVE  \E s \in Vote(raw, 1) :
              /\ s.start <= raw[i].start /\ raw[i].end <= s.end
              /\ raw[i].box # NoBox =>
                    /\ s.box.x <= raw[i].box.x
                    /\ s.box.y <= raw[i].box.y
                    /\ raw[i].box.x + raw[i].box.w <= s.box.x + s.box.w
                    /\ raw[i].box.y + raw[i].box.h <= s.box.y + s.box.h
  <1>1. PICK g \in Groups(raw) : i \in g
    <2> DEFINE home == Founder(raw)
               mine == {k \in DOMAIN raw : home[k] = home[i]}
    <2>1. i \in mine
      OBVIOUS
    <2>2. mine \in Groups(raw)
      BY DEF Groups
    <2> QED
      BY <2>1, <2>2
  <1>2. g \in SUBSET (1 .. Len(raw)) /\ g # {}
    BY GroupsAreIndices
  <1>3. g \in Trusted(raw, 1)
    BY <1>2, DetectorCount DEF Trusted
  <1>4. SpanOf(raw, g) \in Vote(raw, 1)
    BY <1>3 DEF Vote
  <1>5. SpanOf(raw, g).box = UnionBox(BoxesOf(raw, g))
    BY DEF SpanOf
  <1>6. SpanOf(raw, g).start <= raw[i].start /\ raw[i].end <= SpanOf(raw, g).end
    BY <1>1, <1>2, SpanOfGroup
  <1> QED
    BY <1>1, <1>2, <1>4, <1>5, <1>6, UnionBoxEncloses

-----------------------------------------------------------------------------
\* Along one side of size pixels: where the region of an edge at z of extent
\* d starts and stops at margin k.
Near(edge, z, k) == Start(edge, Max({0, z - k}))
Far(edge, z, d, k, size) ==
    Stop(edge, Max({0, z - k}), Min({size - Max({0, z - k}), d + 2 * k}), d + 2 * k)

\* The corner that margin k moves it to.
Corner(z, k) == IF 0 >= z - k THEN 0 ELSE z - k

\* The near edge is the corner or the pixel before it, and never negative.
LEMMA NearEdge ==
    ASSUME NEW z \in Nat, NEW k \in Nat, NEW e
    PROVE  /\ Corner(z, k) \in Nat
           /\ Near(e, z, k) \in Int /\ 0 <= Near(e, z, k)
           /\ Near(e, z, k) <= Corner(z, k)
           /\ Corner(z, k) - 1 <= Near(e, z, k)
  <1>1. Max({0, z - k}) = Corner(z, k)
    BY MaxOfTwo DEF Corner
  <1>2. Corner(z, k) \in Nat
    BY DEF Corner
  <1>3. Near(e, z, k) = Start(e, Corner(z, k))
    BY <1>1 DEF Near
  <1> QED
    BY <1>2, <1>3 DEF Start, Truncated

\* The far edge is the frame's where the margin reaches it, else the widened
\* extent away from the corner, or the pixel before that.
LEMMA FarEdge ==
    ASSUME NEW size \in Nat, NEW z \in Nat, NEW d \in Nat, NEW k \in Nat, NEW e
    PROVE  /\ Far(e, z, d, k, size) \in Int
           /\ Far(e, z, d, k, size) <= Corner(z, k) + d + 2 * k
           /\ Far(e, z, d, k, size) < Corner(z, k) + d + 2 * k - 1 => Far(e, z, d, k, size) = size
  <1> DEFINE room   == size - Corner(z, k)
             extent == IF room <= d + 2 * k THEN room ELSE d + 2 * k
  <1>1. Max({0, z - k}) = Corner(z, k)
    BY MaxOfTwo DEF Corner
  <1>2. Corner(z, k) \in Nat /\ d + 2 * k \in Int /\ room \in Int
    BY DEF Corner
  <1> HIDE DEF room
  <1>3. Min({room, d + 2 * k}) = extent
    BY <1>2, MinOfTwo
  <1>4. Far(e, z, d, k, size) = Stop(e, Corner(z, k), extent, d + 2 * k)
    BY <1>1, <1>3 DEF Far, room
  <1>5. CASE room < d + 2 * k
    BY <1>2, <1>4, <1>5 DEF Stop, room
  <1>6. CASE ~(room < d + 2 * k)
    <2>1. extent = d + 2 * k
      BY <1>2, <1>6
    <2>2. Far(e, z, d, k, size) = Truncated(e, Corner(z, k) + (d + 2 * k))
      BY <1>2, <1>4, <2>1 DEF Stop
    <2> QED
      BY <1>2, <2>2 DEF Truncated
  <1> QED
    BY <1>5, <1>6

\* A margin of a pixel is enough for the region to cover the edge's pixels.
LEMMA SideCovers ==
    ASSUME NEW size \in Nat, NEW z \in Nat, NEW d \in Nat, NEW k \in Nat \ {0},
           NEW e, NEW f, NEW p \in 0 .. size - 1, z <= p, p < z + d
    PROVE  Near(e, z, k) <= p /\ p < Far(f, z, d, k, size)
  <1>1. Near(e, z, k) \in Int /\ Near(e, z, k) <= Corner(z, k)
    BY NearEdge
  <1>2. /\ Far(f, z, d, k, size) \in Int
        /\ Far(f, z, d, k, size) < Corner(z, k) + d + 2 * k - 1 => Far(f, z, d, k, size) = size
    BY FarEdge
  <1>3. Corner(z, k) \in Nat /\ Corner(z, k) <= p /\ z - k <= Corner(z, k)
    BY DEF Corner
  <1> QED
    BY <1>1, <1>2, <1>3

\* A wider margin moves the near edge no farther, although int() may take a
\* pixel off the narrower one's only ...
LEMMA NearGrows ==
    ASSUME NEW z \in Nat, NEW m \in Nat, NEW n \in Nat, m < n, NEW e, NEW f,
           NEW p \in Nat, Near(e, z, m) <= p
    PROVE  Near(f, z, n) <= p
  <1>1. Near(e, z, m) \in Int /\ Corner(z, m) - 1 <= Near(e, z, m)
    BY NearEdge
  <1>2. Near(f, z, n) \in Int /\ Near(f, z, n) <= Corner(z, n)
    BY NearEdge
  <1>3. /\ Corner(z, m) \in Nat /\ Corner(z, n) \in Nat
        /\ Corner(z, n) = 0 \/ Corner(z, n) <= Corner(z, m) - 1
    BY DEF Corner
  <1> QED
    BY <1>1, <1>2, <1>3

\* ... and the far edge no nearer, although it may off the wider one's only,
\* and the corner has moved.
LEMMA FarGrows ==
    ASSUME NEW size \in Nat, NEW z \in Nat, NEW d \in Nat,
           NEW m \in Nat, NEW n \in Nat, m < n, NEW e, NEW f,
           NEW p \in Nat, p < size, p < Far(e, z, d, m, size)
    PROVE  p < Far(f, z, d, n, size)
  <1>1. /\ Far(e, z, d, m, size) \in Int
        /\ Far(e, z, d, m, size) <= Corner(z, m) + d + 2 * m
    BY FarEdge
  <1>2. /\ Far(f, z, d, n, size) \in Int
        /\ Far(f, z, d, n, size) < Corner(z, n) + d + 2 * n - 1 => Far(f, z, d, n, size) = size
    BY FarEdge
  <1>3. /\ Corner(z, m) \in Nat /\ Corner(z, n) \in Nat
        /\ Corner(z, m) - (n - m) <= Corner(z, n)
    BY DEF Corner
  <1> QED
    BY <1>1, <1>2, <1>3

\* A pixel lies in a region iff it lies between its edges on both axes.
LEMMA CropEdges ==
    ASSUME NEW b \in Box, NEW k \in Nat, NEW px \in Int, NEW py \in Int
    PROVE  InBox(px, py, Crop(b, k)) <=>
               /\ Near(<<b, k, "left">>, b.x, k) <= px
               /\ px < Far(<<b, k, "right">>, b.x, b.w, k, Width)
               /\ Near(<<b, k, "top">>, b.y, k) <= py
               /\ py < Far(<<b, k, "bottom">>, b.y, b.h, k, Height)
  <1> DEFINE left   == Near(<<b, k, "left">>, b.x, k)
             right  == Far(<<b, k, "right">>, b.x, b.w, k, Width)
             top    == Near(<<b, k, "top">>, b.y, k)
             bottom == Far(<<b, k, "bottom">>, b.y, b.h, k, Height)
  <1>1. /\ b.x \in Nat /\ b.y \in Nat /\ b.w \in Nat /\ b.h \in Nat
        /\ Width \in Nat /\ Height \in Nat
    BY FrameIsAFrame DEF Box
  <1>2. left \in Int /\ right \in Int /\ top \in Int /\ bottom \in Int
    BY <1>1, NearEdge, FarEdge
  <1>3. Crop(b, k) = [x |-> left, y |-> top, w |-> right - left, h |-> bottom - top]
    BY DEF Crop, Expand, Near, Far
  <1> HIDE DEF left, right, top, bottom
  <1>4. InBox(px, py, Crop(b, k)) <=> left <= px /\ px < right /\ top <= py /\ py < bottom
    BY <1>2, <1>3 DEF InBox
  <1> QED
    BY <1>4 DEF left, right, top, bottom

\* A box is hidden whole, where it lies in the frame, at any margin but 0.
LEMMA CropCovers ==
    ASSUME NEW b \in Box, NEW k \in Nat \ {0}, NEW p \in Pixels, InBox(p[1], p[2], b)
    PROVE  InBox(p[1], p[2], Crop(b, k))
  <1>1. /\ b.x \in Nat /\ b.y \in Nat /\ b.w \in Nat /\ b.h \in Nat
        /\ Width \in Nat /\ Height \in Nat
        /\ p[1] \in 0 .. Width - 1 /\ p[2] \in 0 .. Height - 1
    BY FrameIsAFrame DEF Box, Pixels
  <1>2. b.x <= p[1] /\ p[1] < b.x + b.w /\ b.y <= p[2] /\ p[2] < b.y + b.h
    BY DEF InBox
  <1>3. /\ Near(<<b, k, "left">>, b.x, k) <= p[1]
        /\ p[1] < Far(<<b, k, "right">>, b.x, b.w, k, Width)
    BY <1>1, <1>2, SideCovers
  <1>4. /\ Near(<<b, k, "top">>, b.y, k) <= p[2]
        /\ p[2] < Far(<<b, k, "bottom">>, b.y, b.h, k, Height)
    BY <1>1, <1>2, SideCovers
  <1> QED
    BY <1>1, <1>3, <1>4, CropEdges

\* The region at a wider margin contains the one at a narrower.
LEMMA CropGrows ==
    ASSUME NEW b \in Box, NEW m \in Nat, NEW n \in Nat, m < n,
           NEW p \in Pixels, InBox(p[1], p[2], Crop(b, m))
    PROVE  InBox(p[1], p[2], Crop(b, n))
  <1>1. /\ b.x \in Nat /\ b.y \in Nat /\ b.w \in Nat /\ b.h \in Nat
        /\ Width \in Nat /\ Height \in Nat
        /\ p[1] \in Nat /\ p[1] < Width /\ p[2] \in Nat /\ p[2] < Height
    BY FrameIsAFrame DEF Box, Pixels
  <1>2. /\ Near(<<b, m, "left">>, b.x, m) <= p[1]
        /\ p[1] < Far(<<b, m, "right">>, b.x, b.w, m, Width)
        /\ Near(<<b, m, "top">>, b.y, m) <= p[2]
        /\ p[2] < Far(<<b, m, "bottom">>, b.y, b.h, m, Height)
    <2>1. p[1] \in Int /\ p[2] \in Int
      BY <1>1
    <2> QED
      BY <2>1, CropEdges, Zenon
  <1> DEFINE edge(k, side) == <<b, k, side>>
  <1>3. /\ Near(edge(m, "left"), b.x, m) <= p[1]
        /\ p[1] < Far(edge(m, "right"), b.x, b.w, m, Width)
        /\ Near(edge(m, "top"), b.y, m) <= p[2]
        /\ p[2] < Far(edge(m, "bottom"), b.y, b.h, m, Height)
    BY <1>2
  <1>4. /\ Near(edge(n, "left"), b.x, n) <= p[1]
        /\ p[1] < Far(edge(n, "right"), b.x, b.w, n, Width)
    <2> DEFINE x == b.x
               w == b.w
               px == p[1]
    <2>1. x \in Nat /\ w \in Nat /\ px \in Nat /\ px < Width /\ Width \in Nat
      BY <1>1
    <2>2. Near(edge(m, "left"), x, m) <= px /\ px < Far(edge(m, "right"), x, w, m, Width)
      BY <1>3
    <2> HIDE DEF edge, x, w, px
    <2>3. Near(edge(n, "left"), x, n) <= px
      BY <2>1, <2>2, NearGrows
    <2>4. px < Far(edge(n, "right"), x, w, n, Width)
      BY <2>1, <2>2, FarGrows
    <2> QED
      BY <2>3, <2>4 DEF x, w, px
  <1>5. /\ Near(edge(n, "top"), b.y, n) <= p[2]
        /\ p[2] < Far(edge(n, "bottom"), b.y, b.h, n, Height)
    <2> DEFINE y == b.y
               h == b.h
               py == p[2]
    <2>1. y \in Nat /\ h \in Nat /\ py \in Nat /\ py < Height /\ Height \in Nat
      BY <1>1
    <2>2. Near(edge(m, "top"), y, m) <= py /\ py < Far(edge(m, "bottom"), y, h, m, Height)
      BY <1>3
    <2> HIDE DEF edge, y, h, py
    <2>3. Near(edge(n, "top"), y, n) <= py
      BY <2>1, <2>2, NearGrows
    <2>4. py < Far(edge(n, "bottom"), y, h, n, Height)
      BY <2>1, <2>2, FarGrows
    <2> QED
      BY <2>3, <2>4 DEF y, h, py
  <1>6. p[1] \in Int /\ p[2] \in Int
    BY <1>1
  <1> QED
    BY <1>4, <1>5, <1>6, CropEdges, Zenon

\* A redaction of more spans with a wider margin hides at least as much.
THEOREM HiddenGrows ==
    ASSUME NEW few \in SUBSET Span, NEW many \in SUBSET Span, few \subseteq many,
           NEW m \in Nat, NEW n \in Nat, m < n, NEW t
    PROVE  /\ Hidden(few, m, t) \subseteq Hidden(many, n, t)
           /\ Muted(few, t) => Muted(many, t)
  <1>1. ASSUME NEW p \in Pixels, NEW s \in few, s.box # NoBox,
               InBox(p[1], p[2], Crop(s.box, m))
        PROVE  InBox(p[1], p[2], Crop(s.box, n))
    <2>1. s.box \in Box
      BY <1>1 DEF Span
    <2> QED
      BY <1>1, <2>1, CropGrows
  <1>2. Hidden(few, m, t) \subseteq Hidden(many, n, t)
    BY <1>1 DEF Hidden
  <1> QED
    BY <1>2 DEF Muted

\* A redaction hides the box of each of its spans while the span lasts, and
\* silences its sound up to the last millisecond.
THEOREM SpanHidden ==
    ASSUME NEW spans \in SUBSET Span, NEW s \in spans, NEW m \in Nat \ {0},
           NEW t \in Nat, s.start <= t
    PROVE  /\ (s.box # NoBox /\ t <= s.end) =>
                 \A p \in Pixels : InBox(p[1], p[2], s.box) => p \in Hidden(spans, m, t)
           /\ (s.type = "audio" /\ t + 1 < s.end) => Muted(spans, t)
  <1>1. s.start \in Int /\ s.end \in Int /\ (s.box = NoBox \/ s.box \in Box) /\ HalfWindow \in Nat
    BY FrameIsAFrame DEF Span
  <1>2. ASSUME s.box # NoBox, t <= s.end, NEW p \in Pixels, InBox(p[1], p[2], s.box)
        PROVE  p \in Hidden(spans, m, t)
    <2>1. InBox(p[1], p[2], Crop(s.box, m))
      BY <1>1, <1>2, CropCovers
    <2>2. Shows(s, t)
      BY <1>1, <1>2 DEF Shows
    <2> QED
      BY <1>2, <2>1, <2>2 DEF Hidden
  <1>3. ASSUME s.type = "audio", t + 1 < s.end
        PROVE  Muted(spans, t)
    BY <1>1, <1>3 DEF Muted, Millis
  <1> QED
    BY <1>2, <1>3
=============================================================================
