--------------------------- MODULE DetectorsProofs --------------------------
(***************************************************************************)
(* Theorems about Detectors, for media of any size, any blobs, words and   *)
(* frames of sound, any policy and any number of merge passes: the loops   *)
(* of the detectors find what there is, a keyword is found wherever it     *)
(* stands, and what they find is a list of detections.  At the end, about  *)
(* Registry: any threads that discover any detectors at once get one       *)
(* ensemble.                                                               *)
(***************************************************************************)
EXTENDS Detectors, Registry, RedactionProofs, FunctionTheorems

-----------------------------------------------------------------------------
\* before says of any two members of S which comes first.
Orders(S, before) ==
    /\ \A i \in S : <<i, i>> \notin before
    /\ \A i, j \in S : i # j => <<i, j>> \in before \/ <<j, i>> \in before
    /\ \A i, j, k \in S : <<i, j>> \in before /\ <<j, k>> \in before => <<i, k>> \in before

\* order is the list of the n members of S, as before orders them.
Lists(S, before, order, n) ==
    /\ n \in Nat /\ DOMAIN order = 1 .. n
    /\ \A k \in 1 .. n : order[k] \in S
    /\ \A i \in S : \E k \in 1 .. n : order[k] = i
    /\ \A k, l \in 1 .. n : k < l => <<order[k], order[l]>> \in before

\* An order on a finite set lists its members, each once and in order.
LEMMA InOrderLists ==
    ASSUME NEW S, IsFiniteSet(S), NEW before, Orders(S, before)
    PROVE  Lists(S, before, InOrder(S, before), Cardinality(S))
  <1> USE DEF Orders
  <1> DEFINE n == Cardinality(S)
             ahead(i) == {j \in S : <<j, i>> \in before}
             rank == [i \in S |-> Cardinality(ahead(i))]
             order == InOrder(S, before)
  <1>1. n \in Nat
    BY FS_CardinalityType
  <1>2. \A i \in S : /\ IsFiniteSet(ahead(i)) /\ rank[i] \in Nat /\ rank[i] + 1 <= n
    <2> TAKE i \in S
    <2>1. ahead(i) \subseteq S /\ i \notin ahead(i) /\ ahead(i) \cup {i} \subseteq S
      OBVIOUS
    <2> HIDE DEF ahead
    <2>2. IsFiniteSet(ahead(i)) /\ Cardinality(ahead(i)) \in Nat
      BY <2>1, FS_Subset, FS_CardinalityType
    <2>3. Cardinality(ahead(i) \cup {i}) = Cardinality(ahead(i)) + 1
      BY <2>1, <2>2, FS_AddElement
    <2>4. Cardinality(ahead(i) \cup {i}) <= n
      BY <2>1, FS_Subset
    <2> QED
      BY <2>2, <2>3, <2>4
  <1>3. \A i, j \in S : <<i, j>> \in before => rank[i] < rank[j]
    <2> SUFFICES ASSUME NEW i \in S, NEW j \in S, <<i, j>> \in before PROVE rank[i] < rank[j]
      OBVIOUS
    <2>1. ahead(i) \cup {i} \subseteq ahead(j) /\ i \notin ahead(i)
      OBVIOUS
    <2>2. IsFiniteSet(ahead(i)) /\ IsFiniteSet(ahead(j)) /\ rank[i] \in Nat /\ rank[j] \in Nat
      BY <1>2
    <2>3. rank[i] = Cardinality(ahead(i)) /\ rank[j] = Cardinality(ahead(j))
      OBVIOUS
    <2> HIDE DEF ahead, rank
    <2>4. Cardinality(ahead(i) \cup {i}) = Cardinality(ahead(i)) + 1
      BY <2>1, <2>2, FS_AddElement
    <2>5. Cardinality(ahead(i) \cup {i}) <= Cardinality(ahead(j))
      BY <2>1, <2>2, FS_Subset
    <2> QED
      BY <2>2, <2>3, <2>4, <2>5
  <1>4. \A i, j \in S : rank[i] = rank[j] => i = j
    <2> SUFFICES ASSUME NEW i \in S, NEW j \in S, rank[i] = rank[j], i # j PROVE FALSE
      OBVIOUS
    <2>1. rank[i] < rank[j] \/ rank[j] < rank[i]
      BY <1>3
    <2>2. rank[i] \in Nat /\ rank[j] \in Nat
      BY <1>2
    <2> QED
      BY <2>1, <2>2
  <1>5. \A k \in 1 .. n : \E i \in S : rank[i] = k - 1
    <2> DEFINE places == 0 .. n - 1
    <2>1. rank \in [S -> places]
      <3>1. \A i \in S : rank[i] \in places
        <4> TAKE i \in S
        <4>1. PICK r \in Nat : r = rank[i] /\ r + 1 <= n
          BY <1>2
        <4> HIDE DEF rank, n
        <4> QED
          BY <1>1, <4>1
      <3> QED
        BY <3>1
    <2> HIDE DEF rank
    <2>2. rank \in Injection(S, places)
      BY <2>1, <1>4, Fun_IsInj
    <2>3. IsFiniteSet(places) /\ Cardinality(places) = n
      <3>1. n - 1 \in Int /\ 0 \in Int
        BY <1>1
      <3>2. IsFiniteSet(places) /\ Cardinality(places) = IF 0 > n - 1 THEN 0 ELSE n - 1 - 0 + 1
        BY <3>1, FS_Interval
      <3> HIDE DEF places, n
      <3> QED
        BY <1>1, <3>2
    <2>4. rank \in Surjection(S, places)
      BY <2>2, <2>3, FS_Injection
    <2>5. \A t \in places : \E s \in S : rank[s] = t
      BY <2>4 DEF Surjection
    <2>6. \A k \in 1 .. n : k - 1 \in places
      BY <1>1
    <2> QED
      BY <2>5, <2>6
  <1>6. DOMAIN order = 1 .. n
    BY Zenon DEF InOrder
  <1>7. \A k \in 1 .. n : order[k] \in S /\ rank[order[k]] = k - 1
    <2> TAKE k \in 1 .. n
    <2>1. order[k] = CHOOSE i \in S : rank[i] = k - 1
      BY Zenon DEF InOrder
    <2> HIDE DEF rank, order
    <2> QED
      BY <1>5, <2>1
  <1> HIDE DEF rank, order
  <1>8. \A i \in S : \E k \in 1 .. n : order[k] = i
    <2> TAKE i \in S
    <2>1. PICK r \in Nat : r = rank[i] /\ r + 1 <= n
      BY <1>2
    <2> HIDE DEF n
    <2>2. r + 1 \in 1 .. n /\ r + 1 - 1 = r
      BY <1>1, <2>1
    <2>3. order[r + 1] = i
      BY <1>4, <1>7, <2>1, <2>2
    <2> QED
      BY <2>2, <2>3
  <1>9. \A k, l \in 1 .. n : k < l => <<order[k], order[l]>> \in before
    <2> SUFFICES ASSUME NEW k \in 1 .. n, NEW l \in 1 .. n, k < l
                 PROVE  <<order[k], order[l]>> \in before
      OBVIOUS
    <2>1. rank[order[k]] < rank[order[l]]
      BY <1>1, <1>7
    <2>2. ~(rank[order[l]] < rank[order[k]]) /\ order[k] # order[l]
      BY <1>2, <1>7, <2>1
    <2> QED
      BY <1>3, <1>7, <2>2
  <1> QED
    BY <1>1, <1>6, <1>7, <1>8, <1>9 DEF order, Lists

\* Naturals in their own order.
LEMMA IncreasingLists ==
    ASSUME NEW S, IsFiniteSet(S), S \subseteq Nat
    PROVE  LET order == InOrder(S, {p \in S \X S : p[1] < p[2]})
           IN  /\ \A i \in S : \E k \in DOMAIN order : order[k] = i
               /\ \E m \in Nat : DOMAIN order = 1 .. m /\ \A k \in 1 .. m : order[k] \in S
  <1> DEFINE before == {p \in S \X S : p[1] < p[2]}
             order == InOrder(S, before)
             n == Cardinality(S)
  <1>1. \A i, j \in S : <<i, j>> \in before <=> i < j
    OBVIOUS
  <1> HIDE DEF before
  <1>2. \A i, j \in S : i \in Nat /\ j \in Nat
    OBVIOUS
  <1>3. /\ \A i \in S : <<i, i>> \notin before
        /\ \A i, j \in S : i # j => <<i, j>> \in before \/ <<j, i>> \in before
    BY <1>1, <1>2
  <1>4. \A i, j, k \in S : <<i, j>> \in before /\ <<j, k>> \in before => <<i, k>> \in before
    BY <1>1, <1>2
  <1>5. Orders(S, before)
    BY <1>3, <1>4 DEF Orders
  <1>6. Lists(S, before, order, n)
    BY <1>5, InOrderLists
  <1> HIDE DEF order, n
  <1>7. /\ \A i \in S : \E k \in DOMAIN order : order[k] = i
        /\ \E m \in Nat : DOMAIN order = 1 .. m /\ \A k \in 1 .. m : order[k] \in S
    BY <1>6 DEF Lists
  <1> QED
    BY <1>7 DEF order, before

\* A finite, non-empty set of naturals has a least and a greatest element.
LEMMA FiniteBounds ==
    ASSUME NEW S \in SUBSET Nat, IsFiniteSet(S), S # {}
    PROVE  /\ Min(S) \in S /\ Max(S) \in S
           /\ \A y \in S : Min(S) <= y /\ y <= Max(S)
  <1>1. Cardinality(S) \in Nat /\ ExistsBijection(1 .. Cardinality(S), S)
    BY FS_CardinalityType
  <1>2. PICK n, f : n \in Nat /\ f \in Bijection(1 .. n, S)
    BY <1>1, Fun_ExistsBij
  <1>3. n \in Nat /\ f \in [1 .. n -> Nat] /\ \A y \in S : \E i \in 1 .. n : f[i] = y
    BY <1>2 DEF Bijection, Injection, Surjection
  <1>4. PICK bound \in Nat : \A i \in 1 .. n : f[i] <= bound
    BY <1>3, ListIsBounded
  <1>5. \A y \in S : y <= bound
    BY <1>3, <1>4
  <1>6. Min(S) \in S /\ \A y \in S : Min(S) <= y
    BY MinOfNats
  <1>7. Max(S) \in S /\ \A y \in S : Max(S) >= y
    BY <1>5, MaxOfNats
  <1>8. Max(S) \in Nat
    BY <1>7
  <1> QED
    BY <1>6, <1>7, <1>8

-----------------------------------------------------------------------------
LEMMA BoxFields ==
    ASSUME NEW b \in Box
    PROVE  /\ b.x \in Nat /\ b.y \in Nat /\ b.w \in Nat /\ b.h \in Nat
           /\ b = [x |-> b.x, y |-> b.y, w |-> b.w, h |-> b.h]
  BY DEF Box

LEMMA EnclosingIsOrder ==
    /\ \A b \in Box : Regions!Encloses(b, b)
    /\ \A b, c \in Box : Regions!Encloses(b, c) /\ Regions!Encloses(c, b) => b = c
    /\ \A b, c, d \in Box : Regions!Encloses(b, c) /\ Regions!Encloses(c, d) => Regions!Encloses(b, d)
  <1>1. \A b \in Box : Regions!Encloses(b, b)
    BY DEF Regions!Encloses, Box
  <1>2. ASSUME NEW b \in Box, NEW c \in Box, Regions!Encloses(b, c), Regions!Encloses(c, b) PROVE b = c
    <2>1. b.x = c.x /\ b.y = c.y /\ b.w = c.w /\ b.h = c.h
      BY <1>2, BoxFields DEF Regions!Encloses
    <2> QED
      BY <2>1, BoxFields
  <1>3. ASSUME NEW b \in Box, NEW c \in Box, NEW d \in Box, Regions!Encloses(b, c), Regions!Encloses(c, d)
        PROVE  Regions!Encloses(b, d)
    BY <1>3, BoxFields DEF Regions!Encloses
  <1> QED
    BY <1>1, <1>2, <1>3

\* UnionBox of a finite set of boxes is the least box around them.
LEMMA UnionIsLeast ==
    ASSUME NEW S \in SUBSET Box, IsFiniteSet(S), S # {}
    PROVE  /\ UnionBox(S) \in Box
           /\ \A b \in S : Regions!Encloses(UnionBox(S), b)
           /\ \A c \in Box : (\A b \in S : Regions!Encloses(c, b)) => Regions!Encloses(c, UnionBox(S))
  <1> DEFINE xs == {b.x : b \in S}
             ys == {b.y : b \in S}
             rs == {b.x + b.w : b \in S}
             bs == {b.y + b.h : b \in S}
  <1>1. xs \subseteq Nat /\ ys \subseteq Nat /\ rs \subseteq Nat /\ bs \subseteq Nat
    BY BoxFields
  <1>2. xs # {} /\ ys # {} /\ rs # {} /\ bs # {}
    OBVIOUS
  <1>3. IsFiniteSet(xs) /\ IsFiniteSet(ys) /\ IsFiniteSet(rs) /\ IsFiniteSet(bs)
    <2>1. [b \in S |-> b.x] \in Surjection(S, xs) /\ [b \in S |-> b.y] \in Surjection(S, ys)
      BY DEF Surjection
    <2>2. [b \in S |-> b.x + b.w] \in Surjection(S, rs) /\ [b \in S |-> b.y + b.h] \in Surjection(S, bs)
      BY DEF Surjection
    <2> HIDE DEF xs, ys, rs, bs
    <2> QED
      BY <2>1, <2>2, FS_Surjection
  <1> DEFINE left == Min(xs)
             top == Min(ys)
             right == Max(rs)
             bottom == Max(bs)
             u == UnionBox(S)
  <1>4. u = [x |-> left, y |-> top, w |-> right - left, h |-> bottom - top]
    BY DEF UnionBox
  <1>5. \A b \in S : b.x \in xs /\ b.y \in ys /\ b.x + b.w \in rs /\ b.y + b.h \in bs
    OBVIOUS
  <1>6. PICK bl \in S, bt \in S, br \in S, bb \in S :
            /\ left = bl.x /\ top = bt.y /\ right = br.x + br.w /\ bottom = bb.y + bb.h
    <2>1. left \in xs /\ top \in ys /\ right \in rs /\ bottom \in bs
      <3> HIDE DEF xs, ys, rs, bs
      <3> QED
        BY <1>1, <1>2, <1>3, FiniteBounds
    <2> HIDE DEF left, top, right, bottom
    <2> QED
      BY <2>1
  <1> HIDE DEF xs, ys, rs, bs
  <1>7. \A b \in S : /\ left <= b.x /\ top <= b.y
                     /\ b.x + b.w <= right /\ b.y + b.h <= bottom
    BY <1>1, <1>2, <1>3, <1>5, FiniteBounds
  <1> HIDE DEF left, top, right, bottom, u
  <1>8. left \in Nat /\ top \in Nat /\ right \in Nat /\ bottom \in Nat
    BY <1>6, BoxFields
  <1>9. left <= right /\ top <= bottom
    <2>1. bl.x + bl.w <= right /\ bt.y + bt.h <= bottom
      BY <1>7
    <2> QED
      BY <1>6, <1>8, <2>1, BoxFields
  <1>10. right - left \in Nat /\ bottom - top \in Nat
    BY <1>8, <1>9
  <1>11. u \in Box /\ u.x = left /\ u.y = top /\ u.x + u.w = right /\ u.y + u.h = bottom
    BY <1>4, <1>8, <1>10 DEF Box
  <1>12. \A b \in S : Regions!Encloses(u, b)
    BY <1>7, <1>11 DEF Regions!Encloses
  <1>13. ASSUME NEW c \in Box, \A b \in S : Regions!Encloses(c, b) PROVE Regions!Encloses(c, u)
    BY <1>6, <1>11, <1>13, BoxFields DEF Regions!Encloses
  <1> QED
    BY <1>11, <1>12, <1>13 DEF u

-----------------------------------------------------------------------------
\* The stretches of speech that are long enough, and their times.
Long == {t \in Speech!Stretches : (t[2] - t[1]) * FrameMs >= MinDuration}
Times(t) == <<t[1] * FrameMs, t[2] * FrameMs>>

Entries(list) == {list[i] : i \in DOMAIN list}
InSequence(list) == \A i, j \in DOMAIN list : i < j => list[i][2] < list[j][1]

\* The open interval began at frame a, and it has been loud since.
OpenSince(a) ==
    /\ current_start = a * FrameMs
    /\ \A k \in a + 1 .. heard : loud[k]
    /\ a = 0 \/ ~loud[a]

\* In the loop, the intervals are the stretches that have ended, and one is
\* open while it is loud.
SpeechInv ==
    /\ Speech!TypeOK
    /\ Speech!StretchesFound
    /\ speech = "loop" =>
          /\ current_start = None => heard = 0 \/ ~loud[heard]
          /\ current_start # None => \E a \in 0 .. heard - 1 : OpenSince(a)
          /\ Entries(intervals) = {Times(t) : t \in {u \in Long : u[2] < heard}}
          /\ InSequence(intervals)

LEMMA FramesScale ==
    /\ FrameMs \in Nat \ {0} /\ MinDuration \in Nat \ {0}
    /\ \A a \in Nat : a * FrameMs \in Nat
    /\ \A a, b \in Nat : a < b => a * FrameMs < b * FrameMs
    /\ \A a, b \in Nat : (b - a) * FrameMs = b * FrameMs - a * FrameMs
  <1>1. FrameMs \in Nat \ {0} /\ MinDuration \in Nat \ {0}
    BY BoundsAreNat
  <1>2. \A a \in Nat : a * FrameMs \in Nat
    BY <1>1
  <1>3. \A a, b \in Nat : (b - a) * FrameMs = b * FrameMs - a * FrameMs
    BY <1>1
  <1>4. ASSUME NEW a \in Nat, NEW b \in Nat, a < b PROVE a * FrameMs < b * FrameMs
    <2>1. PICK d \in Nat : b = a + d + 1
      <3>1. b - a - 1 \in Nat /\ b = a + (b - a - 1) + 1
        BY <1>4
      <3> QED
        BY <3>1
    <2>2. b * FrameMs = a * FrameMs + d * FrameMs + FrameMs
      BY <1>1, <2>1
    <2>3. d * FrameMs \in Nat /\ a * FrameMs \in Nat
      BY <1>2
    <2> QED
      BY <1>1, <2>2, <2>3
  <1> QED
    BY <1>1, <1>2, <1>3, <1>4

LEMMA SpeechTyped ==
    ASSUME Speech!TypeOK
    PROVE  /\ Len(loud) \in Nat /\ DOMAIN loud = 1 .. Len(loud) /\ heard \in 0 .. Len(loud)
           /\ \A k \in 1 .. Len(loud) : loud[k] \in BOOLEAN
           /\ current_start \in Nat \cup {None}
           /\ intervals \in Seq(Nat \X Nat) /\ Len(intervals) \in Nat
           /\ DOMAIN intervals = 1 .. Len(intervals)
           /\ \A i \in DOMAIN intervals : intervals[i] \in Nat \X Nat
  <1>1. loud \in Seq(BOOLEAN) /\ intervals \in Seq(Nat \X Nat)
    BY DEF Speech!TypeOK
  <1>2. /\ Len(loud) \in Nat /\ DOMAIN loud = 1 .. Len(loud)
        /\ Len(intervals) \in Nat /\ DOMAIN intervals = 1 .. Len(intervals)
    BY <1>1, LenProperties
  <1>3. \A k \in 1 .. Len(loud) : loud[k] \in BOOLEAN
    BY <1>1, ElementOfSeq
  <1>4. \A k \in 1 .. Len(intervals) : intervals[k] \in Nat \X Nat
    BY <1>1, ElementOfSeq
  <1> QED
    BY <1>1, <1>2, <1>3, <1>4 DEF Speech!TypeOK

\* Each stretch has its bounds.
LEMMA StretchBounds ==
    ASSUME Speech!TypeOK, NEW t \in Speech!Stretches
    PROVE  /\ t[1] \in Nat /\ t[2] \in Nat /\ t[1] < t[2] /\ t[2] <= Len(loud)
           /\ t = <<t[1], t[2]>>
           /\ \A k \in t[1] + 1 .. t[2] : loud[k]
           /\ t[1] = 0 \/ ~loud[t[1]]
           /\ t[2] = Len(loud) \/ ~loud[t[2] + 1]
  BY SpeechTyped DEF Speech!Stretches

\* Before a quiet frame, and at the end of the track, what is appended makes the
\* intervals those of the stretches that end up to there.
LEMMA ClosedFinds ==
    ASSUME SpeechInv, speech = "loop", heard = Len(loud) \/ ~loud[heard + 1]
    PROVE  /\ Speech!Closed \in Seq(Nat \X Nat)
           /\ Entries(Speech!Closed) = {Times(t) : t \in {u \in Long : u[2] <= heard}}
           /\ InSequence(Speech!Closed)
  <1> DEFINE ended == {u \in Long : u[2] < heard}
             now == heard * FrameMs
  <1>1. Speech!TypeOK
    BY DEF SpeechInv
  <1>2. /\ Len(loud) \in Nat /\ heard \in Nat /\ heard <= Len(loud)
        /\ intervals \in Seq(Nat \X Nat) /\ Len(intervals) \in Nat
        /\ DOMAIN intervals = 1 .. Len(intervals)
    BY <1>1, SpeechTyped
  <1>3. /\ Entries(intervals) = {Times(t) : t \in ended} /\ InSequence(intervals)
        /\ current_start = None => heard = 0 \/ ~loud[heard]
        /\ current_start # None => \E a \in 0 .. heard - 1 : OpenSince(a)
    BY DEF SpeechInv
  <1>4. \A t \in Long : t[1] \in Nat /\ t[2] \in Nat /\ t[1] < t[2] /\ t[2] <= Len(loud)
    BY <1>1, StretchBounds DEF Long
  <1>5. CASE current_start = None
    <2>1. ASSUME NEW t \in Long, t[2] = heard PROVE FALSE
      <3>1. heard \in t[1] + 1 .. t[2]
        BY <1>2, <1>4, <2>1
      <3>2. loud[heard]
        BY <1>1, <3>1, StretchBounds DEF Long
      <3> QED
        BY <1>2, <1>3, <1>4, <1>5, <2>1, <3>2
    <2>2. {u \in Long : u[2] <= heard} = ended
      BY <1>2, <1>4, <2>1
    <2>3. Speech!Closed = intervals
      BY <1>5 DEF Speech!Closed
    <2> QED
      BY <1>2, <1>3, <2>2, <2>3
  <1>6. CASE current_start # None
    <2>1. PICK a \in 0 .. heard - 1 : OpenSince(a)
      BY <1>3, <1>6
    <2> DEFINE new == <<a, heard>>
    <2>2. a \in Nat /\ a < heard /\ current_start = a * FrameMs
      BY <1>2, <2>1 DEF OpenSince
    <2>3. new \in Speech!Stretches
      BY <1>2, <2>1, <2>2 DEF Speech!Stretches, OpenSince
    <2>4. \A t \in Speech!Stretches : t[2] = heard => t = new
      <3> SUFFICES ASSUME NEW t \in Speech!Stretches, t[2] = heard PROVE t[1] = a
        BY <1>1, StretchBounds
      <3>1. PICK b \in Nat : /\ b = t[1] /\ b < heard /\ (b = 0 \/ ~loud[b])
                             /\ \A k \in b + 1 .. heard : loud[k]
        BY <1>1, StretchBounds
      <3>2. a = 0 \/ ~loud[a]
        BY <2>1 DEF OpenSince
      <3>3. \A k \in a + 1 .. heard : loud[k]
        BY <2>1 DEF OpenSince
      <3>4. ~(b < a)
        <4> SUFFICES ASSUME b < a PROVE FALSE
          OBVIOUS
        <4>1. a \in b + 1 .. heard /\ a # 0
          BY <1>2, <2>2
        <4> QED
          BY <3>1, <3>2, <4>1
      <3>5. ~(a < b)
        <4> SUFFICES ASSUME a < b PROVE FALSE
          OBVIOUS
        <4>1. b \in a + 1 .. heard /\ b # 0
          BY <1>2, <2>2, <3>1
        <4> QED
          BY <3>1, <3>3, <4>1
      <3> QED
        BY <2>2, <3>1, <3>4, <3>5
    <2>5. Speech!Now - current_start >= MinDuration <=> (heard - a) * FrameMs >= MinDuration
      BY <1>2, <2>2, FramesScale DEF Speech!Now
    <2>6. Times(new) = <<current_start, Speech!Now>>
      BY <2>2 DEF Times, Speech!Now
    <2>7. new[1] = a /\ new[2] = heard
      OBVIOUS
    <2> HIDE DEF new
    <2>8. new \in Long <=> Speech!Now - current_start >= MinDuration
      BY <2>3, <2>5, <2>7 DEF Long
    <2>9. {u \in Long : u[2] <= heard} = IF new \in Long THEN ended \cup {new} ELSE ended
      <3>1. \A t \in Long : t[2] <= heard <=> t \in ended \/ t = new
        <4> TAKE t \in Long
        <4>1. t \in Speech!Stretches
          BY DEF Long
        <4>2. t[2] = heard => t = new
          BY <2>4, <4>1
        <4> QED
          BY <1>2, <1>4, <2>7, <4>2
      <3>2. new \in Long => new[2] <= heard
        BY <1>2, <2>7
      <3> QED
        BY <3>1, <3>2
    <2>10. CASE new \notin Long
      <3>1. Speech!Closed = intervals
        BY <2>8, <2>10 DEF Speech!Closed
      <3> QED
        BY <1>2, <1>3, <2>9, <2>10, <3>1
    <2>11. CASE new \in Long
      <3> DEFINE list == Append(intervals, Times(new))
                 last == Len(intervals) + 1
      <3>1. Speech!Closed = list
        BY <1>6, <2>6, <2>8, <2>11 DEF Speech!Closed
      <3>2. Times(new) \in Nat \X Nat /\ Times(new)[1] = a * FrameMs
        BY <1>2, <2>2, <2>7, FramesScale DEF Times
      <3>3. /\ list \in Seq(Nat \X Nat) /\ DOMAIN list = DOMAIN intervals \cup {last}
            /\ list[last] = Times(new) /\ last \notin DOMAIN intervals
            /\ \A i \in DOMAIN intervals : list[i] = intervals[i] /\ i < last
        BY <1>2, <3>2
      <3> HIDE DEF list, last
      <3>4. Entries(list) = Entries(intervals) \cup {Times(new)}
        BY <3>3 DEF Entries
      <3>5. Entries(list) = {Times(t) : t \in {u \in Long : u[2] <= heard}}
        BY <1>3, <2>9, <2>11, <3>4
      <3>6. \A i \in DOMAIN intervals : intervals[i][2] < a * FrameMs
        <4> TAKE i \in DOMAIN intervals
        <4>1. PICK t \in ended : intervals[i] = Times(t)
          BY <1>3 DEF Entries
        <4>2. /\ t \in Speech!Stretches /\ t[2] \in Nat /\ t[2] < heard
              /\ t[2] = Len(loud) \/ ~loud[t[2] + 1]
          BY <1>1, <1>4, StretchBounds DEF Long
        <4>3. t[2] < a
          <5> SUFFICES ASSUME ~(t[2] < a) PROVE FALSE
            OBVIOUS
          <5>1. t[2] + 1 \in a + 1 .. heard /\ t[2] # Len(loud)
            <6>1. PICK u \in Nat, h \in Nat, len \in Nat, b \in Nat :
                      u = t[2] /\ h = heard /\ len = Len(loud) /\ b = a /\ h <= len
              BY <1>2, <2>2, <4>2
            <6>2. u < h /\ ~(u < b)
              BY <4>2, <6>1
            <6> QED
              BY <6>1, <6>2
          <5> QED
            BY <2>1, <4>2, <5>1 DEF OpenSince
        <4>4. t[2] * FrameMs < a * FrameMs
          BY <2>2, <4>2, <4>3, FramesScale
        <4> QED
          BY <4>1, <4>4 DEF Times
      <3>7. InSequence(list)
        <4> SUFFICES ASSUME NEW i \in DOMAIN list, NEW j \in DOMAIN list, i < j
                     PROVE  list[i][2] < list[j][1]
          BY DEF InSequence
        <4>1. i \in DOMAIN intervals
          <5>1. CASE i = last
            BY <1>2, <3>3, <5>1 DEF last
          <5> QED
            BY <3>3, <5>1
        <4>2. CASE j = last
          BY <3>2, <3>3, <3>6, <4>1, <4>2
        <4>3. CASE j \in DOMAIN intervals
          BY <1>3, <3>3, <4>1, <4>3 DEF InSequence
        <4> QED
          BY <3>3, <4>2, <4>3
      <3> QED
        BY <3>1, <3>3, <3>5, <3>7
    <2> QED
      BY <2>10, <2>11
  <1> QED
    BY <1>5, <1>6

LEMMA LoadKeepsSpeech ==
    ASSUME NEW track \in Seq(BOOLEAN), Speech!Load(track)
    PROVE  SpeechInv'
  <1>1. /\ speech' = "loop" /\ loud' = track /\ heard' = 0 /\ current_start' = None /\ intervals' = <<>>
    BY DEF Speech!Load
  <1>2. Len(loud') \in Nat /\ loud' \in Seq(BOOLEAN)
    BY <1>1, LenProperties
  <1>3. <<>> \in Seq(Nat \X Nat)
    OBVIOUS
  <1>4. Speech!TypeOK'
    BY <1>1, <1>2, <1>3 DEF Speech!TypeOK
  <1>5. Speech!StretchesFound'
    BY <1>1 DEF Speech!StretchesFound
  <1>6. \A u \in Long' : ~(u[2] < heard')
    BY <1>1, <1>2 DEF Long, Speech!Stretches
  <1>7. Entries(intervals') = {} /\ InSequence(intervals')
    BY <1>1 DEF Entries, InSequence
  <1> QED
    BY <1>1, <1>4, <1>5, <1>6, <1>7 DEF SpeechInv

LEMMA LoudKeeps ==
    ASSUME SpeechInv, Speech!Loud
    PROVE  SpeechInv'
  <1>1. /\ speech = "loop" /\ speech' = speech /\ heard < Len(loud) /\ loud[heard + 1]
        /\ heard' = heard + 1 /\ loud' = loud /\ intervals' = intervals
        /\ current_start' = IF current_start = None THEN Speech!Now ELSE current_start
    BY DEF Speech!Loud, Speech!Hear
  <1>2. /\ Speech!TypeOK
        /\ current_start = None => heard = 0 \/ ~loud[heard]
        /\ current_start # None => \E a \in 0 .. heard - 1 : OpenSince(a)
        /\ Entries(intervals) = {Times(t) : t \in {u \in Long : u[2] < heard}}
        /\ InSequence(intervals)
    BY <1>1 DEF SpeechInv
  <1>3. Len(loud) \in Nat /\ heard \in Nat /\ current_start \in Nat \cup {None}
    BY <1>2, SpeechTyped
  <1>4. Speech!Now \in Nat /\ Speech!Now = heard * FrameMs
    BY <1>3, FramesScale DEF Speech!Now
  <1>5. current_start' \in Nat
    BY <1>1, <1>3, <1>4
  <1>6. Speech!TypeOK'
    BY <1>1, <1>2, <1>3, <1>5 DEF Speech!TypeOK
  <1>7. Speech!StretchesFound'
    BY <1>1 DEF Speech!StretchesFound
  <1>8. Long' = Long
    BY <1>1 DEF Long, Speech!Stretches
  <1>9. {u \in Long : u[2] < heard + 1} = {u \in Long : u[2] < heard}
    <2> SUFFICES ASSUME NEW u \in Long PROVE u[2] < heard + 1 <=> u[2] < heard
      OBVIOUS
    <2>1. PICK e \in Nat : e = u[2] /\ (e = Len(loud) \/ ~loud[e + 1])
      BY <1>2, StretchBounds DEF Long
    <2>2. e # heard
      BY <1>1, <1>3, <2>1
    <2> QED
      BY <1>3, <2>1, <2>2
  <1>10. \E a \in 0 .. heard : OpenSince(a)'
    <2>1. CASE current_start = None
      <3>1. PICK a \in 0 .. heard : a = heard
        BY <1>3
      <3>2. \A k \in a + 1 .. heard + 1 : loud[k]
        BY <1>1, <1>3, <3>1
      <3>3. OpenSince(a)'
        BY <1>1, <1>2, <1>4, <2>1, <3>1, <3>2 DEF OpenSince
      <3> QED
        BY <3>3
    <2>2. CASE current_start # None
      <3>1. PICK a \in 0 .. heard - 1 : OpenSince(a)
        BY <1>2, <2>2
      <3>2. a \in 0 .. heard
        BY <1>3
      <3>3. \A k \in a + 1 .. heard + 1 : loud[k]
        <4> TAKE k \in a + 1 .. heard + 1
        <4>1. k \in a + 1 .. heard \/ k = heard + 1
          BY <1>3, <3>2
        <4> QED
          BY <1>1, <3>1, <4>1 DEF OpenSince
      <3>4. OpenSince(a)'
        BY <1>1, <2>2, <3>1, <3>3 DEF OpenSince
      <3> QED
        BY <3>2, <3>4
    <2> QED
      BY <2>1, <2>2
  <1>11. current_start' # None
    BY <1>5, NoneIsNoTime
  <1>12. heard' - 1 = heard
    BY <1>1, <1>3
  <1>13. Entries(intervals') = {Times(t) : t \in {u \in Long' : u[2] < heard'}}
    BY <1>1, <1>2, <1>8, <1>9
  <1> QED
    BY <1>1, <1>2, <1>6, <1>7, <1>10, <1>11, <1>12, <1>13 DEF SpeechInv

LEMMA QuietKeeps ==
    ASSUME SpeechInv, Speech!Quiet
    PROVE  SpeechInv'
  <1>1. /\ speech = "loop" /\ speech' = speech /\ heard < Len(loud) /\ ~loud[heard + 1]
        /\ heard' = heard + 1 /\ loud' = loud /\ intervals' = Speech!Closed /\ current_start' = None
    BY DEF Speech!Quiet, Speech!Hear
  <1>2. Speech!TypeOK
    BY DEF SpeechInv
  <1>3. Len(loud) \in Nat /\ heard \in Nat
    BY <1>2, SpeechTyped
  <1>4. /\ Speech!Closed \in Seq(Nat \X Nat)
        /\ Entries(Speech!Closed) = {Times(t) : t \in {u \in Long : u[2] <= heard}}
        /\ InSequence(Speech!Closed)
    BY <1>1, ClosedFinds
  <1>5. Speech!TypeOK'
    BY <1>1, <1>2, <1>3, <1>4 DEF Speech!TypeOK
  <1>6. Speech!StretchesFound'
    BY <1>1 DEF Speech!StretchesFound
  <1>7. Long' = Long
    BY <1>1 DEF Long, Speech!Stretches
  <1>8. {u \in Long : u[2] < heard + 1} = {u \in Long : u[2] <= heard}
    <2> SUFFICES ASSUME NEW u \in Long PROVE u[2] < heard + 1 <=> u[2] <= heard
      OBVIOUS
    <2>1. u[2] \in Nat
      BY <1>2, StretchBounds DEF Long
    <2> QED
      BY <1>3, <2>1
  <1>9. Entries(intervals') = {Times(t) : t \in {u \in Long' : u[2] < heard'}}
    BY <1>1, <1>4, <1>7, <1>8
  <1>10. InSequence(intervals')
    BY <1>1, <1>4
  <1> QED
    BY <1>1, <1>5, <1>6, <1>9, <1>10 DEF SpeechInv

LEMMA FinishKeeps ==
    ASSUME SpeechInv, Speech!Finish
    PROVE  SpeechInv'
  <1>1. /\ speech = "loop" /\ speech' = "done" /\ heard = Len(loud)
        /\ UNCHANGED <<loud, heard, current_start>> /\ intervals' = Speech!Closed
    BY DEF Speech!Finish
  <1>2. Speech!TypeOK
    BY DEF SpeechInv
  <1>3. /\ Speech!Closed \in Seq(Nat \X Nat)
        /\ Entries(Speech!Closed) = {Times(t) : t \in {u \in Long : u[2] <= heard}}
        /\ InSequence(Speech!Closed)
    BY <1>1, ClosedFinds
  <1>4. Speech!TypeOK'
    BY <1>1, <1>2, <1>3 DEF Speech!TypeOK
  <1>5. {u \in Long : u[2] <= heard} = Long
    BY <1>1, <1>2, StretchBounds DEF Long
  <1>6. Entries(Speech!Closed) = {Times(t) : t \in Long}
    BY <1>3, <1>5
  <1>7. Speech!StretchesFound'
    <2>1. Long' = Long
      BY <1>1 DEF Long, Speech!Stretches
    <2>2. Entries(intervals') = {Times(t) : t \in Long'} /\ InSequence(intervals')
      BY <1>1, <1>3, <1>6, <2>1
    <2> QED
      BY <2>2 DEF Speech!StretchesFound, Long, Times, Entries, InSequence
  <1> QED
    BY <1>1, <1>4, <1>7 DEF SpeechInv

-----------------------------------------------------------------------------
\* A step of Detectors is for each of the three loops a step of its own, its
\* beginning with what the medium has, or none.
LEMMA LoopSteps ==
    ASSUME media \in Medias, [Next]_vars
    PROVE  /\ media' \in Medias
           /\ \/ UNCHANGED regionVars
              \/ frame < Len(media.frames) /\ Regions!Load(This.blobs)
              \/ Regions!Next
           /\ UNCHANGED speechVars \/ Speech!Load(media.track) \/ Speech!Next
           /\ UNCHANGED wordVars \/ Words!Load(media.words) \/ Words!Next
  <1> USE DEF Running, Runs, NextType, loops, regionVars, speechVars, wordVars
  <1>1. CASE SkipType \/ OpenType \/ NoDetector \/ Return
    BY <1>1 DEF SkipType, OpenType, NoDetector, Return
  <1>2. CASE FaceFrame \/ OcrFrame \/ MserFrame \/ FramesDone
    BY <1>2 DEF FaceFrame, OcrFrame, MserFrame, FramesDone
  <1>3. CASE MserLoad \/ MserStep
    BY <1>3 DEF MserLoad, MserStep
  <1>4. CASE NoAudio \/ VadLoad \/ VadStep \/ VadDone
    BY <1>4 DEF NoAudio, VadLoad, VadStep, VadDone
  <1>5. CASE WhisperLoad \/ WhisperStep \/ WhisperDone
    BY <1>5 DEF WhisperLoad, WhisperStep, WhisperDone
  <1>6. CASE DetectorRaises
    BY <1>6 DEF DetectorRaises
  <1>7. CASE UNCHANGED vars
    BY <1>7 DEF vars
  <1> QED
    BY <1>1, <1>2, <1>3, <1>4, <1>5, <1>6, <1>7 DEF Next

LEMMA MediaFields ==
    ASSUME media \in Medias
    PROVE  /\ media.track \in Seq(BOOLEAN)
           /\ media.words \in Seq([chars : Text, start : Nat, end : Nat])
           /\ media.frames \in Seq(Frame) /\ media.audio \in BOOLEAN
  <1>1. media \in Media
    BY MediasAreMedia
  <1> QED
    BY <1>1 DEF Media

LEMMA SpeechKeeps ==
    ASSUME media \in Medias, SpeechInv, [Next]_vars
    PROVE  SpeechInv'
  <1>1. media.track \in Seq(BOOLEAN)
    BY MediaFields
  <1>2. CASE UNCHANGED speechVars
    <2>1. UNCHANGED <<loud, heard, current_start, intervals, speech>>
      BY <1>2 DEF speechVars
    <2>2. Speech!TypeOK => Speech!TypeOK'
      BY <2>1 DEF Speech!TypeOK
    <2>3. Speech!Stretches' = Speech!Stretches
      BY <2>1 DEF Speech!Stretches
    <2>4. Speech!StretchesFound => Speech!StretchesFound'
      BY <2>1, <2>3 DEF Speech!StretchesFound
    <2>5. Long' = Long
      BY <2>3 DEF Long
    <2>6. \A a : OpenSince(a) => OpenSince(a)'
      BY <2>1 DEF OpenSince
    <2> QED
      BY <2>1, <2>2, <2>4, <2>5, <2>6 DEF SpeechInv
  <1>3. CASE Speech!Load(media.track)
    BY <1>1, <1>3, LoadKeepsSpeech
  <1>4. CASE Speech!Next
    BY <1>4, LoudKeeps, QuietKeeps, FinishKeeps DEF Speech!Next
  <1> QED
    BY <1>2, <1>3, <1>4, LoopSteps

LEMMA SpeechStart ==
    ASSUME Init
    PROVE  SpeechInv
  <1>1. /\ speech = "idle" /\ loud = <<>> /\ heard = 0 /\ current_start = None /\ intervals = <<>>
    BY DEF Init, Speech!Init
  <1>2. loud \in Seq(BOOLEAN) /\ intervals \in Seq(Nat \X Nat) /\ heard \in 0 .. Len(loud)
    BY <1>1
  <1>3. Speech!TypeOK
    BY <1>1, <1>2 DEF Speech!TypeOK
  <1> QED
    BY <1>1, <1>3 DEF SpeechInv, Speech!StretchesFound

-----------------------------------------------------------------------------
LEMMA Appended ==
    ASSUME NEW S, NEW s \in Seq(S), NEW x \in S
    PROVE  LET t == Append(s, x)
               n == Len(s) + 1
           IN  /\ Len(s) \in Nat /\ DOMAIN s = 1 .. Len(s)
               /\ t \in Seq(S) /\ Len(t) = n /\ DOMAIN t = DOMAIN s \cup {n} /\ t[n] = x
               /\ \A i \in DOMAIN s : t[i] = s[i] /\ i < n
  <1>1. Len(s) \in Nat /\ DOMAIN s = 1 .. Len(s)
    BY LenProperties
  <1>2. /\ Append(s, x) \in Seq(S) /\ Len(Append(s, x)) = Len(s) + 1
        /\ \A i \in 1 .. Len(s) : Append(s, x)[i] = s[i]
        /\ Append(s, x)[Len(s) + 1] = x
    BY AppendProperties
  <1>3. DOMAIN Append(s, x) = 1 .. Len(s) + 1
    BY <1>2, LenProperties
  <1>4. 1 .. Len(s) + 1 = 1 .. Len(s) \cup {Len(s) + 1} /\ \A i \in 1 .. Len(s) : i < Len(s) + 1
    BY <1>1
  <1> QED
    BY <1>1, <1>2, <1>3, <1>4

-----------------------------------------------------------------------------
Word == [chars : Text, start : Nat, end : Nat]
WordRange == [char_start : Nat, char_end : Nat, start : Nat, end : Nat]
Letter == (DOMAIN LowerCase) \X Nat

\* Character k belongs to a word whose times range r has.
SpellsWord(r, k) ==
    /\ text[k][2] \in 1 .. indexed
    /\ words[text[k][2]].start = ranges[r].start
    /\ words[text[k][2]].end = ranges[r].end

\* The ranges lie in the text, none is empty, each has nothing but characters of
\* words with its times, and every character of a word is in one of them.
WordsInv ==
    /\ words \in Seq(Word) /\ indexed \in 0 .. Len(words)
    /\ ranges \in Seq(WordRange)
    /\ text \in Seq(Letter) /\ pos = Len(text)
    /\ \A k \in 1 .. pos : text[k][2] \in 0 .. indexed
    /\ \A r \in DOMAIN ranges :
          /\ ranges[r].char_start < ranges[r].char_end /\ ranges[r].char_end <= pos
          /\ \A k \in ranges[r].char_start + 1 .. ranges[r].char_end : SpellsWord(r, k)
    /\ \A k \in 1 .. pos : text[k][2] # 0 =>
          \E r \in DOMAIN ranges : ranges[r].char_start < k /\ k <= ranges[r].char_end

LEMMA WordsTyped ==
    ASSUME WordsInv
    PROVE  /\ Len(words) \in Nat /\ DOMAIN words = 1 .. Len(words) /\ indexed \in Nat
           /\ \A w \in 1 .. Len(words) : words[w] \in Word
           /\ pos \in Nat /\ DOMAIN text = 1 .. pos
           /\ \A k \in 1 .. pos : text[k] \in Letter
           /\ Len(ranges) \in Nat /\ DOMAIN ranges = 1 .. Len(ranges)
           /\ \A r \in 1 .. Len(ranges) : ranges[r] \in WordRange
  <1>1. words \in Seq(Word) /\ ranges \in Seq(WordRange) /\ text \in Seq(Letter) /\ pos = Len(text)
        /\ indexed \in 0 .. Len(words)
    BY DEF WordsInv
  <1>2. /\ Len(words) \in Nat /\ DOMAIN words = 1 .. Len(words)
        /\ Len(ranges) \in Nat /\ DOMAIN ranges = 1 .. Len(ranges)
        /\ pos \in Nat /\ DOMAIN text = 1 .. pos
    BY <1>1, LenProperties
  <1>3. \A w \in 1 .. Len(words) : words[w] \in Word
    BY <1>1, ElementOfSeq
  <1>4. \A k \in 1 .. pos : text[k] \in Letter
    BY <1>1, ElementOfSeq
  <1>5. \A r \in 1 .. Len(ranges) : ranges[r] \in WordRange
    BY <1>1, ElementOfSeq
  <1> QED
    BY <1>1, <1>2, <1>3, <1>4, <1>5

\* The times a match gets are those of the words it says something of.
LEMMA TimesOfMatches ==
    ASSUME WordsInv
    PROVE  Words!TypeOK /\ Words!TimesAreTheWords
  <1>1. Words!TypeOK
    BY WordsTyped DEF WordsInv, Words!TypeOK, WordRange
  <1>2. ASSUME NEW s \in 0 .. Len(text), NEW e \in 0 .. Len(text), s < e
        PROVE  Words!TimeRange(s, e) =
                  IF Words!Said(s, e) = {} THEN NoTime
                  ELSE [start |-> Words!Min({words[w].start : w \in Words!Said(s, e)}),
                        end   |-> Words!Max({words[w].end : w \in Words!Said(s, e)})]
    <2> DEFINE met == {i \in DOMAIN ranges : ranges[i].char_start < e /\ s < ranges[i].char_end}
               said == Words!Said(s, e)
    <2>1. /\ pos = Len(text) /\ pos \in Nat /\ s \in Nat /\ e \in Nat /\ e <= pos
      BY <1>2, WordsTyped DEF WordsInv
    <2>2. Words!Min({e, Len(text)}) = e
      BY <2>1, MinOfTwo DEF Words!Min, Min
    <2>3. said = {text[k][2] : k \in s + 1 .. e} \ {0}
      BY <2>2 DEF Words!Said
    <2> HIDE DEF said
    <2>4. ASSUME NEW r \in met
          PROVE  \E w \in said : words[w].start = ranges[r].start /\ words[w].end = ranges[r].end
      <3>1. PICK a \in Nat, b \in Nat : a = ranges[r].char_start /\ b = ranges[r].char_end
        BY WordsTyped DEF WordRange
      <3>2. a < e /\ s < b /\ a < b /\ b <= pos /\ \A k \in a + 1 .. b : SpellsWord(r, k)
        BY <3>1 DEF WordsInv
      <3>3. \E k \in a + 1 .. b : k \in s + 1 .. e
        <4>1. CASE a <= s
          BY <1>2, <2>1, <3>1, <3>2, <4>1, s + 1 \in a + 1 .. b
        <4>2. CASE s < a
          BY <1>2, <2>1, <3>1, <3>2, <4>2, a + 1 \in a + 1 .. b
        <4> QED
          BY <2>1, <3>1, <4>1, <4>2
      <3>4. PICK k \in a + 1 .. b : k \in s + 1 .. e
        BY <3>3
      <3>5. SpellsWord(r, k)
        BY <3>2
      <3>6. text[k][2] \in said
        BY <2>3, <3>4, <3>5, WordsTyped DEF SpellsWord
      <3> QED
        BY <3>5, <3>6 DEF SpellsWord
    <2>5. ASSUME NEW w \in said
          PROVE  \E r \in met : words[w].start = ranges[r].start /\ words[w].end = ranges[r].end
      <3>1. PICK k \in s + 1 .. e : w = text[k][2] /\ w # 0
        BY <2>3
      <3>2. k \in 1 .. pos
        BY <2>1
      <3>3. PICK r \in DOMAIN ranges : ranges[r].char_start < k /\ k <= ranges[r].char_end
        BY <3>1, <3>2 DEF WordsInv
      <3>4. PICK a \in Nat, b \in Nat : a = ranges[r].char_start /\ b = ranges[r].char_end
        BY WordsTyped DEF WordRange
      <3>5. a < e /\ s < b /\ k \in a + 1 .. b
        BY <2>1, <3>1, <3>3, <3>4
      <3>6. r \in met
        BY <3>4, <3>5
      <3>7. SpellsWord(r, k)
        BY <3>4, <3>5 DEF WordsInv
      <3> QED
        BY <3>1, <3>6, <3>7 DEF SpellsWord
    <2> HIDE DEF met
    <2>6. {ranges[i].start : i \in met} = {words[w].start : w \in said}
      BY <2>4, <2>5
    <2>7. {ranges[i].end : i \in met} = {words[w].end : w \in said}
      BY <2>4, <2>5
    <2>8. met = {} <=> said = {}
      BY <2>4, <2>5
    <2>9. Words!TimeRange(s, e) =
             IF met = {} THEN NoTime
             ELSE [start |-> Words!Min({ranges[i].start : i \in met}),
                   end   |-> Words!Max({ranges[i].end : i \in met})]
      BY DEF Words!TimeRange, met
    <2> QED
      BY <2>6, <2>7, <2>8, <2>9 DEF said
  <1> QED
    BY <1>1, <1>2 DEF Words!TimesAreTheWords, WordsInv

LEMMA LoadKeepsWords ==
    ASSUME NEW recording \in Seq(Word), Words!Load(recording)
    PROVE  WordsInv'
  <1>1. words' = recording /\ indexed' = 0 /\ ranges' = <<>> /\ pos' = 0 /\ text' = <<>>
    BY DEF Words!Load
  <1>2. Len(words') \in Nat
    BY <1>1, LenProperties
  <1>3. ranges' \in Seq(WordRange) /\ text' \in Seq(Letter) /\ Len(text') = 0 /\ DOMAIN ranges' = {}
    BY <1>1
  <1>4. 1 .. pos' = {}
    BY <1>1
  <1> QED
    BY <1>1, <1>2, <1>3, <1>4 DEF WordsInv

LEMMA SkipKeeps ==
    ASSUME WordsInv, Words!SkipBlank
    PROVE  WordsInv'
  <1>1. /\ indexed < Len(words) /\ indexed' = indexed + 1
        /\ words' = words /\ ranges' = ranges /\ pos' = pos /\ text' = text
    BY DEF Words!SkipBlank, Words!IndexNext
  <1>2. Len(words) \in Nat /\ indexed \in Nat
    BY WordsTyped
  <1>3. 0 .. indexed \subseteq 0 .. indexed' /\ 1 .. indexed \subseteq 1 .. indexed'
        /\ indexed' \in 0 .. Len(words)
    BY <1>1, <1>2
  <1>4. \A r, k : SpellsWord(r, k) => SpellsWord(r, k)'
    BY <1>1, <1>3 DEF SpellsWord
  <1> QED
    BY <1>1, <1>3, <1>4 DEF WordsInv

LEMMA AddKeeps ==
    ASSUME WordsInv, Words!AddWord
    PROVE  WordsInv'
  <1> DEFINE word == words[indexed + 1]
             blank == IF ranges = <<>> THEN <<>> ELSE << <<Blank, 0>> >>
             piece == [k \in DOMAIN word.chars |-> <<word.chars[k], indexed + 1>>]
             new == [char_start |-> Words!CharStart, char_end |-> Words!CharStart + Len(word.chars),
                     start |-> word.start, end |-> word.end]
  <1>1. /\ indexed < Len(words) /\ indexed' = indexed + 1 /\ words' = words /\ word.chars # <<>>
        /\ text' = text \o blank \o piece
        /\ ranges' = Append(ranges, new)
        /\ pos' = Words!CharStart + Len(word.chars)
    BY DEF Words!AddWord, Words!IndexNext
  <1>2. /\ Len(words) \in Nat /\ indexed \in Nat /\ pos \in Nat /\ pos = Len(text)
        /\ text \in Seq(Letter) /\ words \in Seq(Word) /\ ranges \in Seq(WordRange)
    BY WordsTyped DEF WordsInv
  <1>3. word \in Word
    <2>1. indexed + 1 \in 1 .. Len(words)
      BY <1>1, <1>2
    <2> QED
      BY <2>1, WordsTyped
  <1>4. word.chars \in Text /\ word.start \in Nat /\ word.end \in Nat
    BY <1>3 DEF Word
  <1>5. PICK n \in Nat : n = Len(word.chars) /\ n # 0 /\ DOMAIN word.chars = 1 .. n
    BY <1>1, <1>4, LenProperties, EmptySeq DEF Text
  <1>6. PICK at \in Nat : /\ at = Words!CharStart /\ pos <= at /\ at <= pos + 1
                          /\ at = pos + Len(blank) /\ blank \in Seq(Letter)
    <2>1. CASE ranges = <<>>
      BY <1>2, <2>1 DEF Words!CharStart
    <2>2. CASE ranges # <<>>
      <3>1. <<Blank, 0>> \in Letter
        BY LowerCaseIsText DEF Letter
      <3>2. << <<Blank, 0>> >> \in Seq(Letter) /\ Len(<< <<Blank, 0>> >>) = 1
        BY <3>1
      <3> QED
        BY <1>2, <2>2, <3>2 DEF Words!CharStart
    <2> QED
      BY <2>1, <2>2
  <1>7. piece \in Seq(Letter) /\ Len(piece) = n /\ \A k \in 1 .. n : piece[k][2] = indexed + 1
    <2>1. \A k \in 1 .. n : word.chars[k] \in DOMAIN LowerCase
      BY <1>4, <1>5, ElementOfSeq DEF Text
    <2>2. piece \in [1 .. n -> Letter]
      BY <1>2, <1>5, <2>1 DEF Letter
    <2>3. piece \in Seq(Letter) /\ Len(piece) = n
      BY <2>2, SeqDef
    <2> QED
      BY <1>5, <2>3
  <1>8. /\ text' \in Seq(Letter) /\ Len(text') = at + n
        /\ \A k \in 1 .. pos : text'[k] = text[k]
        /\ \A k \in at + 1 .. at + n : text'[k][2] = indexed + 1
        /\ \A k \in pos + 1 .. at : text'[k][2] = 0
    <2> HIDE DEF piece, word
    <2>1. PICK before \in Seq(Letter) : before = text \o blank
      <3>1. text \in Seq(Letter) /\ blank \in Seq(Letter)
        BY <1>2, <1>6
      <3> HIDE DEF blank
      <3> QED
        BY <3>1, ConcatProperties
    <2>2. /\ Len(before) = at /\ \A k \in 1 .. pos : before[k] = text[k]
          /\ \A k \in pos + 1 .. at : before[k][2] = 0
      <3>1. Len(before) = at
        BY <1>2, <1>6, <2>1
      <3>2. \A k \in 1 .. pos : before[k] = text[k]
        BY <1>2, <1>6, <2>1
      <3>3. ASSUME NEW k \in pos + 1 .. at PROVE before[k][2] = 0
        <4>1. k = pos + 1 /\ at = pos + 1 /\ ranges # <<>>
          BY <1>2, <1>6
        <4>2. before[k] = blank[1]
          BY <1>2, <1>6, <2>1, <4>1
        <4> QED
          BY <4>1, <4>2
      <3> QED
        BY <3>1, <3>2, <3>3
    <2> HIDE DEF blank
    <2>3. PICK spelt \in Seq(Letter) : spelt = piece /\ Len(spelt) = n
      BY <1>7
    <2>4. text' = before \o spelt
      BY <1>1, <2>1, <2>3
    <2>5. /\ text' \in Seq(Letter) /\ Len(text') = at + n
          /\ \A k \in 1 .. at + n : text'[k] = IF k <= at THEN before[k] ELSE spelt[k - at]
      <3>1. Len(before) = at /\ Len(spelt) = n
        BY <2>2, <2>3
      <3>2. PICK whole : whole = before \o spelt
        OBVIOUS
      <3>3. /\ whole \in Seq(Letter) /\ Len(whole) = at + n
            /\ \A k \in 1 .. at + n : whole[k] = IF k <= at THEN before[k] ELSE spelt[k - at]
        BY ONLY <3>1, <3>2, before \in Seq(Letter), spelt \in Seq(Letter), ConcatProperties
      <3> QED
        BY <2>4, <3>2, <3>3
    <2>6. \A k \in at + 1 .. at + n : text'[k][2] = indexed + 1
      <3> TAKE k \in at + 1 .. at + n
      <3>1. k - at \in 1 .. n
        BY <1>5, <1>6
      <3>2. ~(k <= at) /\ k \in 1 .. at + n
        BY <1>5, <1>6
      <3> QED
        BY <1>7, <2>3, <2>5, <3>1, <3>2
    <2>7. pos \in Nat /\ at \in Nat /\ n \in Nat /\ pos <= at
      BY <1>2, <1>5, <1>6
    <2>8. \A k \in 1 .. pos : k \in 1 .. at + n /\ k <= at
      BY ONLY <2>7
    <2>9. \A k \in pos + 1 .. at : k \in 1 .. at + n /\ k <= at
      BY ONLY <2>7
    <2> QED
      BY <2>2, <2>5, <2>6, <2>8, <2>9
  <1>9. /\ new \in WordRange /\ new.char_start = at /\ new.char_end = at + n
        /\ new.start = word.start /\ new.end = word.end
    BY <1>4, <1>5, <1>6 DEF WordRange
  <1>10. /\ ranges' \in Seq(WordRange) /\ DOMAIN ranges' = DOMAIN ranges \cup {Len(ranges) + 1}
         /\ ranges'[Len(ranges) + 1] = new
         /\ \A r \in DOMAIN ranges : ranges'[r] = ranges[r]
    <2>1. PICK x \in WordRange : x = new
      BY <1>9
    <2>2. ranges' = Append(ranges, x)
      BY <1>1, <2>1
    <2> HIDE DEF new
    <2>3. PICK old \in Seq(WordRange) : old = ranges
      BY <1>2
    <2>4. /\ Append(old, x) \in Seq(WordRange) /\ Append(old, x)[Len(old) + 1] = x
          /\ DOMAIN Append(old, x) = DOMAIN old \cup {Len(old) + 1}
          /\ \A r \in DOMAIN old : Append(old, x)[r] = old[r]
      BY Appended
    <2> QED
      BY <2>1, <2>2, <2>3, <2>4
  <1> HIDE DEF new, piece, blank
  <1>11. pos' = at + n /\ pos' = Len(text')
    BY <1>1, <1>5, <1>6, <1>8
  <1>12. pos \in Nat /\ at \in Nat /\ n \in Nat /\ pos <= at /\ n # 0 /\ pos' = at + n
    BY <1>2, <1>5, <1>6, <1>11
  <1>13. 0 .. indexed \subseteq 0 .. indexed' /\ 1 .. indexed \subseteq 1 .. indexed'
         /\ {indexed + 1} \subseteq 1 .. indexed' /\ {0, indexed + 1} \subseteq 0 .. indexed'
         /\ indexed' \in 0 .. Len(words)
    BY <1>1, <1>2
  <1>14. \A k \in 1 .. pos' : k \in 1 .. pos \/ k \in pos + 1 .. at \/ k \in at + 1 .. at + n
    BY ONLY <1>12
  <1>15. \A k \in 1 .. pos' : text'[k][2] \in 0 .. indexed'
    <2> TAKE k \in 1 .. pos'
    <2>1. CASE k \in 1 .. pos
      BY <1>8, <1>13, <2>1 DEF WordsInv
    <2>2. CASE k \in pos + 1 .. at
      BY <1>8, <1>13, <2>2
    <2>3. CASE k \in at + 1 .. at + n
      BY <1>8, <1>13, <2>3
    <2> QED
      BY <1>14, <2>1, <2>2, <2>3
  <1>16. ASSUME NEW r \in DOMAIN ranges'
         PROVE  /\ ranges'[r].char_start < ranges'[r].char_end /\ ranges'[r].char_end <= pos'
                /\ \A k \in ranges'[r].char_start + 1 .. ranges'[r].char_end : SpellsWord(r, k)'
    <2>1. CASE r \in DOMAIN ranges
      <3>1. PICK a \in Nat, b \in Nat : /\ a = ranges[r].char_start /\ b = ranges[r].char_end
                                        /\ a < b /\ b <= pos
                                        /\ \A k \in a + 1 .. b : SpellsWord(r, k)
        BY <2>1, WordsTyped DEF WordsInv, WordRange
      <3>2. b <= pos'
        BY ONLY <1>12, <3>1, b \in Nat
      <3>3. \A k \in a + 1 .. b : SpellsWord(r, k)'
        <4> TAKE k \in a + 1 .. b
        <4>1. k \in 1 .. pos
          BY <1>2, <3>1
        <4>2. text'[k] = text[k]
          BY <1>8, <4>1
        <4>3. SpellsWord(r, k)
          BY <3>1
        <4> QED
          BY <1>1, <1>10, <1>13, <2>1, <4>2, <4>3 DEF SpellsWord
      <3> QED
        BY <1>10, <2>1, <3>1, <3>2, <3>3
    <2>2. CASE r = Len(ranges) + 1
      <3>1. ranges'[r] = new
        BY <1>10, <2>2
      <3>2. at < at + n /\ at + n <= pos'
        BY <1>5, <1>6, <1>11
      <3>3. \A k \in at + 1 .. at + n : SpellsWord(r, k)'
        BY <1>1, <1>8, <1>9, <1>13, <3>1 DEF SpellsWord
      <3> QED
        BY <1>9, <3>1, <3>2, <3>3
    <2> QED
      BY <1>10, <2>1, <2>2
  <1>17. ASSUME NEW k \in 1 .. pos', text'[k][2] # 0
         PROVE  \E r \in DOMAIN ranges' : ranges'[r].char_start < k /\ k <= ranges'[r].char_end
    <2>1. CASE k \in 1 .. pos
      <3>1. PICK r \in DOMAIN ranges : ranges[r].char_start < k /\ k <= ranges[r].char_end
        BY <1>8, <1>17, <2>1 DEF WordsInv
      <3> QED
        BY <1>10, <3>1
    <2>2. CASE k \in pos + 1 .. at
      BY <1>8, <1>17, <2>2
    <2>3. CASE k \in at + 1 .. at + n
      <3>1. at < k /\ k <= at + n
        BY <1>5, <1>6, <2>3
      <3> QED
        BY <1>9, <1>10, <3>1
    <2> QED
      BY <1>14, <2>1, <2>2, <2>3
  <1> QED
    BY <1>1, <1>2, <1>8, <1>10, <1>11, <1>13, <1>15, <1>16, <1>17 DEF WordsInv

LEMMA WordsKeep ==
    ASSUME media \in Medias, WordsInv, [Next]_vars
    PROVE  WordsInv'
  <1>1. media.words \in Seq(Word)
    BY MediaFields DEF Word
  <1>2. CASE UNCHANGED wordVars
    BY <1>2 DEF wordVars, WordsInv, SpellsWord
  <1>3. CASE Words!Load(media.words)
    BY <1>1, <1>3, LoadKeepsWords
  <1>4. CASE Words!Next
    BY <1>4, SkipKeeps, AddKeeps DEF Words!Next
  <1> QED
    BY <1>2, <1>3, <1>4, LoopSteps

LEMMA WordsStart ==
    ASSUME Init
    PROVE  WordsInv
  <1>1. words = <<>> /\ indexed = 0 /\ ranges = <<>> /\ pos = 0 /\ text = <<>>
    BY DEF Init, Words!Init
  <1>2. /\ words \in Seq(Word) /\ indexed \in 0 .. Len(words) /\ ranges \in Seq(WordRange)
        /\ text \in Seq(Letter) /\ pos = Len(text) /\ DOMAIN ranges = {}
    BY <1>1
  <1>3. 1 .. pos = {}
    BY <1>1
  <1> QED
    BY <1>1, <1>2, <1>3 DEF WordsInv

-----------------------------------------------------------------------------
\* The instance's operators are Ensemble's.
LEMMA SameOperators ==
    /\ Regions!Box = Box
    /\ \A S : Regions!UnionBox(S) = UnionBox(S)
    /\ \A S, before : Regions!InOrder(S, before) = InOrder(S, before)
    /\ \A b \in Box : Regions!Area(b) \in Nat
  <1>1. Regions!Box = Box
    BY DEF Regions!Box, Box
  <1>2. \A S : Regions!UnionBox(S) = UnionBox(S)
    BY Zenon DEF Regions!UnionBox, UnionBox, Regions!Min, Min, Regions!Max, Max
  <1>3. \A S, before : Regions!InOrder(S, before) = InOrder(S, before)
    <2>1. \A S : Regions!Cardinality(S) = Cardinality(S)
      BY Zenon DEF Regions!Cardinality, Cardinality
    <2>2. ASSUME NEW S, NEW before PROVE Regions!InOrder(S, before) = InOrder(S, before)
      <3> DEFINE here(k) == CHOOSE i \in S : Cardinality({j \in S : <<j, i>> \in before}) = k - 1
                 there(k) == CHOOSE i \in S : Regions!Cardinality({j \in S : <<j, i>> \in before}) = k - 1
      <3>1. \A k, i : Regions!Cardinality({j \in S : <<j, i>> \in before}) = k - 1
                      <=> Cardinality({j \in S : <<j, i>> \in before}) = k - 1
        BY <2>1
      <3>2. \A k : there(k) = here(k)
        BY <3>1
      <3>3. Regions!InOrder(S, before) = [k \in 1 .. Regions!Cardinality(S) |-> there(k)]
        BY Zenon DEF Regions!InOrder
      <3>4. InOrder(S, before) = [k \in 1 .. Cardinality(S) |-> here(k)]
        BY Zenon DEF InOrder
      <3> HIDE DEF here, there
      <3> QED
        BY <2>1, <3>2, <3>3, <3>4
    <2> QED
      BY <2>2
  <1>4. \A b \in Box : Regions!Area(b) \in Nat
    BY BoxFields DEF Regions!Area
  <1> QED
    BY <1>1, <1>2, <1>3, <1>4

\* The boxes MSER's list is made of, and the largest first.
Sorted(list) ==
    \A i, j \in DOMAIN list : i < j => Regions!Area(list[i]) >= Regions!Area(list[j])

LEMMA LargestAreFirst ==
    ASSUME NEW boxes \in Seq(Box)
    PROVE  LET sorted == Regions!LargestFirst(boxes)
           IN  /\ sorted \in Seq(Box) /\ Sorted(sorted)
               /\ \A i \in DOMAIN boxes : Regions!Plausible(boxes[i]) => boxes[i] \in Entries(sorted)
  <1> DEFINE plausible == {i \in DOMAIN boxes : Regions!Plausible(boxes[i])}
             area(i) == Regions!Area(boxes[i])
             before == {p \in plausible \X plausible :
                           \/ area(p[1]) > area(p[2])
                           \/ area(p[1]) = area(p[2]) /\ p[1] < p[2]}
             order == InOrder(plausible, before)
             list == [k \in DOMAIN order |-> boxes[order[k]]]
             n == Cardinality(plausible)
  <1>1. Regions!LargestFirst(boxes) = list
    BY SameOperators DEF Regions!LargestFirst
  <1>2. Len(boxes) \in Nat /\ DOMAIN boxes = 1 .. Len(boxes) /\ \A i \in DOMAIN boxes : boxes[i] \in Box
    BY LenProperties, ElementOfSeq
  <1>3. IsFiniteSet(plausible)
    <2>1. IsFiniteSet(1 .. Len(boxes))
      BY <1>2, FS_Interval
    <2>2. plausible \subseteq 1 .. Len(boxes)
      BY <1>2
    <2> QED
      BY <2>1, <2>2, FS_Subset
  <1>4. \A i \in plausible : i \in Nat /\ area(i) \in Nat /\ boxes[i] \in Box
    BY <1>2, SameOperators
  <1>5. \A i, j \in plausible : <<i, j>> \in before <=> area(i) > area(j) \/ (area(i) = area(j) /\ i < j)
    OBVIOUS
  <1> HIDE DEF plausible, area, before
  <1>6. \A i \in plausible : <<i, i>> \notin before
    BY <1>4, <1>5
  <1>7. \A i, j \in plausible : i # j => <<i, j>> \in before \/ <<j, i>> \in before
    BY <1>4, <1>5
  <1>8. \A i, j, k \in plausible : <<i, j>> \in before /\ <<j, k>> \in before => <<i, k>> \in before
    <2> TAKE i, j, k \in plausible
    <2>1. PICK a \in Nat, b \in Nat, c \in Nat : a = area(i) /\ b = area(j) /\ c = area(k)
      BY <1>4
    <2>2. i \in Nat /\ j \in Nat /\ k \in Nat
      BY <1>4
    <2> QED
      BY <1>5, <2>1, <2>2
  <1>9. /\ n \in Nat /\ DOMAIN order = 1 .. n /\ \A k \in 1 .. n : order[k] \in plausible
        /\ \A i \in plausible : \E k \in 1 .. n : order[k] = i
        /\ \A k, l \in 1 .. n : k < l => <<order[k], order[l]>> \in before
    <2>1. Orders(plausible, before)
      BY <1>6, <1>7, <1>8 DEF Orders
    <2>2. Lists(plausible, before, order, n)
      BY <1>3, <2>1, InOrderLists
    <2> HIDE DEF order, n
    <2> QED
      BY <2>2 DEF Lists
  <1> HIDE DEF order, n
  <1>10. DOMAIN list = 1 .. n /\ \A k \in 1 .. n : list[k] = boxes[order[k]] /\ list[k] \in Box
    BY <1>4, <1>9
  <1>11. list \in Seq(Box)
    <2>1. list \in [1 .. n -> Box]
      BY <1>9, <1>10
    <2> QED
      BY <1>9, <2>1, SeqDef
  <1>12. Sorted(list)
    <2> SUFFICES ASSUME NEW k \in 1 .. n, NEW l \in 1 .. n, k < l
                 PROVE  Regions!Area(list[k]) >= Regions!Area(list[l])
      BY <1>10 DEF Sorted
    <2>1. PICK i \in plausible, j \in plausible : i = order[k] /\ j = order[l] /\ <<i, j>> \in before
      BY <1>9
    <2>2. area(i) >= area(j)
      BY <1>4, <1>5, <2>1
    <2> QED
      BY <1>10, <2>1, <2>2 DEF area
  <1>13. \A i \in plausible : boxes[i] \in Entries(list)
    <2> TAKE i \in plausible
    <2>1. PICK k \in 1 .. n : order[k] = i
      BY <1>9
    <2> QED
      BY <1>10, <2>1 DEF Entries
  <1> QED
    BY <1>1, <1>11, <1>12, <1>13 DEF plausible

-----------------------------------------------------------------------------
\* Lines that keep a set of boxes: each box is in a line, and a line is the
\* least box around those in it.
Inside(boxes, line) == {b \in boxes : Regions!Encloses(line, b)}

Keeps(lines, boxes) ==
    /\ \A b \in boxes : \E line \in lines : Regions!Encloses(line, b)
    /\ \A line \in lines : line = UnionBox(Inside(boxes, line))

LEMMA BoxesKeepThemselves ==
    ASSUME NEW boxes \in SUBSET Box, IsFiniteSet(boxes)
    PROVE  Keeps(boxes, boxes)
  <1>1. \A b \in boxes : Regions!Encloses(b, b)
    BY EnclosingIsOrder
  <1>2. ASSUME NEW line \in boxes PROVE line = UnionBox(Inside(boxes, line))
    <2> DEFINE S == Inside(boxes, line)
               u == UnionBox(S)
    <2>1. S \in SUBSET Box /\ IsFiniteSet(S) /\ line \in S /\ \A b \in S : Regions!Encloses(line, b)
      BY <1>1, FS_Subset DEF Inside
    <2> HIDE DEF S
    <2>2. u \in Box /\ Regions!Encloses(u, line) /\ Regions!Encloses(line, u)
      BY <2>1, UnionIsLeast
    <2> HIDE DEF u
    <2>3. line = u
      BY <2>2, EnclosingIsOrder
    <2> QED
      BY <2>3 DEF u, S
  <1> QED
    BY <1>1, <1>2 DEF Keeps

LEMMA UnitingKeeps ==
    ASSUME NEW boxes \in SUBSET Box, IsFiniteSet(boxes),
           NEW old \in SUBSET Box, Keeps(old, boxes),
           NEW a \in old, NEW b \in old,
           NEW new, UnionBox({a, b}) \in new,
           new \subseteq old \cup {UnionBox({a, b})}, old \ {a, b} \subseteq new
    PROVE  Keeps(new, boxes)
  <1> DEFINE u == UnionBox({a, b})
  <1>1. /\ u \in Box /\ Regions!Encloses(u, a) /\ Regions!Encloses(u, b)
        /\ \A c \in Box : Regions!Encloses(c, a) /\ Regions!Encloses(c, b) => Regions!Encloses(c, u)
    <2>1. {a, b} \in SUBSET Box /\ IsFiniteSet({a, b}) /\ {a, b} # {}
      <3>1. IsFiniteSet({a}) /\ IsFiniteSet({a} \cup {b}) /\ {a, b} = {a} \cup {b}
        BY FS_Singleton, FS_AddElement
      <3> QED
        BY <3>1
    <2> QED
      BY <2>1, UnionIsLeast
  <1>2. u \in new /\ new \subseteq old \cup {u} /\ old \ {a, b} \subseteq new
    OBVIOUS
  <1> HIDE DEF u
  <1>3. ASSUME NEW c \in boxes PROVE \E line \in new : Regions!Encloses(line, c)
    <2>1. PICK line \in old : Regions!Encloses(line, c)
      BY DEF Keeps
    <2>2. CASE line = a \/ line = b
      <3>1. Regions!Encloses(u, c)
        BY <1>1, <2>1, <2>2, EnclosingIsOrder
      <3> QED
        BY <1>2, <3>1
    <2> QED
      BY <1>2, <2>1, <2>2
  <1>4. \A line \in old : Inside(boxes, line) # {} /\ line = UnionBox(Inside(boxes, line))
    <2> TAKE line \in old
    <2>1. line = UnionBox(Inside(boxes, line)) /\ line # NoBox
      BY NoBoxIsNoBox DEF Keeps
    <2> QED
      BY <2>1 DEF UnionBox
  <1>5. u = UnionBox(Inside(boxes, u))
    <2> DEFINE S == Inside(boxes, u)
               v == UnionBox(S)
    <2>1. ASSUME NEW line \in old, Regions!Encloses(u, line)
          PROVE  Inside(boxes, line) \subseteq S
      BY <1>1, <2>1, EnclosingIsOrder DEF Inside
    <2>2. S \in SUBSET Box /\ IsFiniteSet(S) /\ \A c \in S : Regions!Encloses(u, c)
      BY FS_Subset DEF Inside
    <2>3. S # {}
      BY <1>1, <1>4, <2>1
    <2> HIDE DEF S
    <2>4. /\ v \in Box /\ \A c \in S : Regions!Encloses(v, c)
          /\ Regions!Encloses(u, v)
      BY <1>1, <2>2, <2>3, UnionIsLeast
    <2> HIDE DEF v
    <2>5. ASSUME NEW line \in old, Inside(boxes, line) \subseteq S
          PROVE  Regions!Encloses(v, line)
      <3> DEFINE T == Inside(boxes, line)
      <3>1. T \in SUBSET Box /\ IsFiniteSet(T) /\ T # {} /\ line = UnionBox(T)
        BY <1>4, FS_Subset DEF Inside
      <3>2. \A c \in T : Regions!Encloses(v, c)
        BY <2>4, <2>5
      <3> HIDE DEF T
      <3> QED
        BY <2>4, <3>1, <3>2, UnionIsLeast
    <2>6. Regions!Encloses(v, u)
      BY <1>1, <2>1, <2>4, <2>5
    <2>7. u = v
      BY <1>1, <2>4, <2>6, EnclosingIsOrder
    <2> QED
      BY <2>7 DEF v, S
  <1> QED
    BY <1>2, <1>3, <1>4, <1>5 DEF Keeps

-----------------------------------------------------------------------------
LEMMA EntriesAreFinite ==
    ASSUME NEW S, NEW s \in Seq(S)
    PROVE  IsFiniteSet(Entries(s)) /\ Entries(s) \in SUBSET S
  <1>1. Len(s) \in Nat /\ DOMAIN s = 1 .. Len(s) /\ \A i \in 1 .. Len(s) : s[i] \in S
    BY LenProperties, ElementOfSeq
  <1>2. IsFiniteSet(1 .. Len(s))
    BY <1>1, FS_Interval
  <1>3. s \in Surjection(1 .. Len(s), Entries(s))
    BY <1>1 DEF Surjection, Entries
  <1> QED
    BY <1>1, <1>2, <1>3, FS_Surjection DEF Entries

LEMMA RegionsTyped ==
    ASSUME Regions!TypeOK
    PROVE  /\ kept \in Seq(Box) /\ current \in Seq(Box) /\ result \in Seq(Box)
           /\ Len(kept) \in Nat /\ Len(current) \in Nat /\ Len(result) \in Nat
           /\ DOMAIN current = 1 .. Len(current) /\ DOMAIN result = 1 .. Len(result)
           /\ \A k \in 1 .. Len(current) : current[k] \in Box
           /\ \A i \in 1 .. Len(result) : result[i] \in Box
           /\ handled \in Nat /\ handled <= Len(current)
           /\ passes \in Nat /\ merged \in BOOLEAN
  <1>1. /\ kept \in Seq(Box) /\ current \in Seq(Box) /\ result \in Seq(Box)
        /\ handled \in 0 .. Len(current) /\ passes \in 0 .. MergePasses /\ merged \in BOOLEAN
    BY SameOperators DEF Regions!TypeOK
  <1>2. Len(kept) \in Nat /\ Len(current) \in Nat /\ Len(result) \in Nat
    BY <1>1, LenProperties
  <1>3. DOMAIN current = 1 .. Len(current) /\ DOMAIN result = 1 .. Len(result)
    BY <1>1, LenProperties
  <1>4. \A k \in 1 .. Len(current) : current[k] \in Box
    BY <1>1, ElementOfSeq
  <1>5. \A i \in 1 .. Len(result) : result[i] \in Box
    BY <1>1, ElementOfSeq
  <1> QED
    BY <1>1, <1>2, <1>3, <1>4, <1>5

\* No two boxes of a list should be merged.
Apart(list) == \A i, j \in DOMAIN list : i < j => ~Regions!ShouldMerge(list[i], list[j])

\* Each pass but the last has made the list shorter; in the middle of one, the
\* list it builds is shorter than what it has handled as soon as it has merged.
RegionsInv ==
    /\ Regions!TypeOK
    /\ stage = "suppress" =>
          /\ Sorted(current) /\ passes = 0 /\ ~merged
          /\ \A i \in DOMAIN result : \E k \in 1 .. handled : result[i] = current[k]
    /\ stage = "merge" =>
          /\ passes < MergePasses /\ Len(current) + passes <= Len(kept)
          /\ merged => Len(result) < handled
          /\ ~merged => Len(result) = handled /\ Apart(result)
    /\ Regions!Clustered
    /\ stage \in {"merge", "done"} => Keeps(Regions!Lines, Entries(kept))
    /\ Regions!Converged

LEMMA LoadKeepsRegions ==
    ASSUME NEW boxes \in Seq(Box), Regions!Load(boxes)
    PROVE  RegionsInv'
  <1>1. /\ stage' = "suppress" /\ current' = Regions!LargestFirst(boxes)
        /\ handled' = 0 /\ result' = <<>> /\ kept' = <<>> /\ merged' = FALSE /\ passes' = 0
    BY DEF Regions!Load
  <1>2. current' \in Seq(Box) /\ Sorted(current')
    BY <1>1, LargestAreFirst
  <1>3. Len(current') \in Nat /\ MergePasses \in Nat /\ <<>> \in Seq(Box) /\ DOMAIN <<>> = {}
    BY <1>2, LenProperties, BoundsAreNat
  <1>4. Regions!TypeOK'
    <2>1. kept' \in Seq(Box) /\ current' \in Seq(Box) /\ result' \in Seq(Box)
      BY <1>1, <1>2, <1>3
    <2>2. handled' \in 0 .. Len(current') /\ passes' \in 0 .. MergePasses
      BY <1>1, <1>3
    <2> QED
      BY <1>1, <2>1, <2>2, SameOperators DEF Regions!TypeOK
  <1>5. Regions!Clustered' /\ Regions!Converged'
    BY <1>1, <1>3 DEF Regions!Clustered, Regions!Converged
  <1> QED
    BY <1>1, <1>2, <1>3, <1>4, <1>5 DEF RegionsInv

LEMMA KeepKeeps ==
    ASSUME RegionsInv, Regions!Keep
    PROVE  RegionsInv'
  <1> DEFINE new == Len(result) + 1
             box == current[handled + 1]
  <1>1. /\ stage = "suppress" /\ stage' = stage /\ handled < Len(current) /\ handled' = handled + 1
        /\ result' = Append(result, box) /\ \A i \in DOMAIN result : ~Regions!Similar(box, result[i])
        /\ UNCHANGED <<kept, current, passes, merged>>
    BY DEF Regions!Keep, Regions!Handle, Regions!Box1
  <1>2. Regions!TypeOK
    BY DEF RegionsInv
  <1>3. /\ Len(current) \in Nat /\ handled \in Nat /\ box \in Box /\ result \in Seq(Box)
        /\ handled + 1 \in 1 .. handled + 1
    BY <1>1, <1>2, RegionsTyped
  <1>4. /\ result' \in Seq(Box) /\ DOMAIN result' = DOMAIN result \cup {new} /\ result'[new] = box
        /\ \A i \in DOMAIN result : result'[i] = result[i] /\ i < new
    <2> HIDE DEF box
    <2> QED
      BY <1>1, <1>3, Appended
  <1>5. /\ \A i, j \in DOMAIN result : i < j => ~Regions!Similar(result[j], result[i])
        /\ \A k \in 1 .. handled : \E i \in DOMAIN result :
              \/ result[i] = current[k]
              \/ Regions!Similar(current[k], result[i]) /\ Regions!Area(result[i]) >= Regions!Area(current[k])
        /\ Sorted(current) /\ passes = 0 /\ ~merged
        /\ \A i \in DOMAIN result : \E k \in 1 .. handled : result[i] = current[k]
    BY <1>1 DEF RegionsInv, Regions!Clustered
  <1>6. Regions!TypeOK'
    BY <1>1, <1>2, <1>3, <1>4, SameOperators DEF Regions!TypeOK
  <1>7. new \in Nat /\ DOMAIN result \subseteq Nat
    BY <1>2, RegionsTyped
  <1> HIDE DEF new
  <1>8. \A i, j \in DOMAIN result' : i < j => ~Regions!Similar(result'[j], result'[i])
    <2> SUFFICES ASSUME NEW i \in DOMAIN result', NEW j \in DOMAIN result', i < j
                 PROVE  ~Regions!Similar(result'[j], result'[i])
      OBVIOUS
    <2>1. i \in DOMAIN result
      BY <1>4, <1>7
    <2>2. CASE j = new
      BY <1>1, <1>4, <2>1, <2>2
    <2>3. CASE j \in DOMAIN result
      BY <1>4, <1>5, <2>1, <2>3
    <2> QED
      BY <1>4, <2>2, <2>3
  <1>9. \A k \in 1 .. handled + 1 : k \in 1 .. handled \/ k = handled + 1
    BY <1>3
  <1>10. ASSUME NEW k \in 1 .. handled + 1
         PROVE  \E i \in DOMAIN result' :
                   \/ result'[i] = current[k]
                   \/ /\ Regions!Similar(current[k], result'[i])
                      /\ Regions!Area(result'[i]) >= Regions!Area(current[k])
    <2>1. CASE k \in 1 .. handled
      BY <1>4, <1>5, <2>1
    <2>2. CASE k = handled + 1
      BY <1>4, <2>2
    <2> QED
      BY <1>9, <2>1, <2>2
  <1>11. Regions!Clustered'
    BY <1>1, <1>8, <1>10 DEF Regions!Clustered
  <1>12. \A i \in DOMAIN result' : \E k \in 1 .. handled + 1 : result'[i] = current[k]
    <2>1. \A k \in 1 .. handled : k \in 1 .. handled + 1
      BY <1>3
    <2> QED
      BY <1>3, <1>4, <1>5, <2>1
  <1>13. Regions!Converged'
    BY <1>1 DEF Regions!Converged
  <1> QED
    BY <1>1, <1>5, <1>6, <1>11, <1>12, <1>13 DEF RegionsInv

LEMMA SuppressKeeps ==
    ASSUME RegionsInv, Regions!Suppress
    PROVE  RegionsInv'
  <1> DEFINE box == current[handled + 1]
  <1>1. /\ stage = "suppress" /\ stage' = stage /\ handled < Len(current) /\ handled' = handled + 1
        /\ \E i \in DOMAIN result : Regions!Similar(box, result[i])
        /\ UNCHANGED <<result, kept, current, passes, merged>>
    BY DEF Regions!Suppress, Regions!Handle, Regions!Box1
  <1>2. Regions!TypeOK
    BY DEF RegionsInv
  <1>3. Len(current) \in Nat /\ handled \in Nat /\ DOMAIN current = 1 .. Len(current)
    BY <1>2, RegionsTyped
  <1>4. /\ \A i, j \in DOMAIN result : i < j => ~Regions!Similar(result[j], result[i])
        /\ \A k \in 1 .. handled : \E i \in DOMAIN result :
              \/ result[i] = current[k]
              \/ Regions!Similar(current[k], result[i]) /\ Regions!Area(result[i]) >= Regions!Area(current[k])
        /\ Sorted(current) /\ passes = 0 /\ ~merged
        /\ \A i \in DOMAIN result : \E k \in 1 .. handled : result[i] = current[k]
    BY <1>1 DEF RegionsInv, Regions!Clustered
  <1>5. Regions!TypeOK'
    BY <1>1, <1>2, <1>3 DEF Regions!TypeOK
  <1>6. PICK i \in DOMAIN result : Regions!Similar(box, result[i])
    BY <1>1
  <1>7. PICK l \in 1 .. handled : result[i] = current[l]
    BY <1>4
  <1>8. Regions!Area(result[i]) >= Regions!Area(box)
    <2>1. l \in 1 .. Len(current) /\ handled + 1 \in 1 .. Len(current) /\ l < handled + 1
      BY <1>1, <1>3
    <2> QED
      BY <1>3, <1>4, <1>7, <2>1 DEF Sorted
  <1>9. \A k \in 1 .. handled + 1 : k \in 1 .. handled \/ k = handled + 1
    BY <1>3
  <1>10. Regions!Clustered'
    BY <1>1, <1>4, <1>6, <1>8, <1>9 DEF Regions!Clustered
  <1>11. \A k \in 1 .. handled : k \in 1 .. handled + 1
    BY <1>3
  <1>12. Regions!Converged'
    BY <1>1 DEF Regions!Converged
  <1> QED
    BY <1>1, <1>4, <1>5, <1>10, <1>11, <1>12 DEF RegionsInv

LEMMA StartMergeKeeps ==
    ASSUME RegionsInv, Regions!StartMerge
    PROVE  RegionsInv'
  <1>1. /\ stage = "suppress" /\ stage' = "merge" /\ kept' = result /\ current' = result
        /\ handled' = 0 /\ result' = <<>> /\ UNCHANGED <<merged, passes>>
    BY DEF Regions!StartMerge
  <1>2. Regions!TypeOK /\ passes = 0 /\ ~merged
    BY <1>1 DEF RegionsInv
  <1>3. result \in Seq(Box) /\ Len(result) \in Nat /\ DOMAIN result = 1 .. Len(result) /\ merged \in BOOLEAN
    BY <1>2, RegionsTyped
  <1>4. MergePasses \in Nat \ {0} /\ <<>> \in Seq(Box) /\ DOMAIN <<>> = {} /\ Len(<<>>) = 0
    BY BoundsAreNat
  <1>5. Regions!TypeOK'
    BY <1>1, <1>2, <1>3, <1>4, SameOperators DEF Regions!TypeOK
  <1>6. Regions!Clustered' /\ Regions!Converged'
    BY <1>1 DEF Regions!Clustered, Regions!Converged
  <1>7. Keeps(Entries(result), Entries(result))
    BY <1>3, EntriesAreFinite, BoxesKeepThemselves
  <1>8. Regions!Lines' = Entries(result)
    BY <1>1, <1>3, <1>4 DEF Regions!Lines, Entries
  <1>9. Keeps(Regions!Lines', Entries(kept'))
    BY <1>1, <1>7, <1>8
  <1>10. passes < MergePasses /\ Len(result) + passes <= Len(result)
    BY <1>2, <1>3, <1>4
  <1>11. Apart(<<>>)
    BY DEF Apart
  <1> QED
    BY <1>1, <1>2, <1>4, <1>5, <1>6, <1>9, <1>10, <1>11 DEF RegionsInv

LEMMA UniteKeeps ==
    ASSUME RegionsInv, Regions!Unite
    PROVE  RegionsInv'
  <1> DEFINE box == current[handled + 1]
             old == Regions!Lines
             boxes == Entries(kept)
  <1>1. PICK i \in DOMAIN result : result' = [result EXCEPT ![i] = Regions!Around(@, box)]
    BY DEF Regions!Unite, Regions!Box1
  <1>2. /\ stage = "merge" /\ stage' = stage /\ handled < Len(current) /\ handled' = handled + 1
        /\ merged' = TRUE /\ UNCHANGED <<kept, current, passes>>
    BY DEF Regions!Unite, Regions!Handle
  <1> DEFINE u == UnionBox({result[i], box})
  <1>3. Regions!TypeOK /\ Keeps(old, boxes)
    BY <1>2 DEF RegionsInv
  <1>4. /\ Len(current) \in Nat /\ handled \in Nat /\ Len(result) \in Nat
        /\ DOMAIN result = 1 .. Len(result) /\ result \in Seq(Box) /\ kept \in Seq(Box)
        /\ \A j \in DOMAIN result : result[j] \in Box
        /\ \A k \in 1 .. Len(current) : current[k] \in Box
    BY <1>3, RegionsTyped
  <1>5. handled + 1 \in handled + 1 .. Len(current) /\ handled + 1 \in 1 .. Len(current)
    BY <1>2, <1>4
  <1>6. result[i] \in Box /\ box \in Box
    BY <1>4, <1>5
  <1>7. u \in Box
    <2>1. {result[i], box} = {result[i]} \cup {box} /\ {result[i], box} \in SUBSET Box
      BY <1>6
    <2>2. IsFiniteSet({result[i]} \cup {box})
      BY FS_Singleton, FS_AddElement
    <2> QED
      BY <2>1, <2>2, UnionIsLeast
  <1>8. result' = [result EXCEPT ![i] = u]
    BY <1>1, SameOperators DEF Regions!Around
  <1> HIDE DEF u
  <1>9. /\ result' \in Seq(Box) /\ Len(result') = Len(result) /\ DOMAIN result' = DOMAIN result
        /\ result'[i] = u /\ \A j \in DOMAIN result : j # i => result'[j] = result[j]
    <2>1. PICK n \in Nat : n = Len(result)
      BY <1>4
    <2>2. result' \in [1 .. n -> Box]
      BY <1>4, <1>7, <1>8, <2>1
    <2>3. result' \in Seq(Box) /\ Len(result') = n
      BY <2>1, <2>2, SeqDef
    <2> QED
      BY <1>4, <1>8, <2>1, <2>3
  <1>10. Regions!TypeOK'
    <2>1. handled' \in 0 .. Len(current)
      BY <1>2, <1>4
    <2> QED
      BY <1>2, <1>3, <1>9, <2>1, SameOperators DEF Regions!TypeOK
  <1>11. old = Entries(result) \cup {current[k] : k \in handled + 1 .. Len(current)}
    BY DEF Regions!Lines, Entries
  <1>12. Regions!Lines' = Entries(result') \cup {current[k] : k \in handled + 1 + 1 .. Len(current)}
    BY <1>2 DEF Regions!Lines, Entries
  <1>13. Entries(result') \subseteq Entries(result) \cup {u} /\ u \in Entries(result')
         /\ Entries(result) \ {result[i]} \subseteq Entries(result')
    BY <1>9 DEF Entries
  <1>14. handled + 1 .. Len(current) = (handled + 1 + 1 .. Len(current)) \cup {handled + 1}
    BY <1>2, <1>4
  <1>15. /\ result[i] \in old /\ box \in old /\ old \in SUBSET Box
         /\ boxes \in SUBSET Box /\ IsFiniteSet(boxes)
    <2>1. result[i] \in old /\ box \in old
      BY <1>5, <1>11 DEF Entries
    <2>2. \A k \in handled + 1 .. Len(current) : k \in 1 .. Len(current)
      BY <1>4
    <2>3. old \in SUBSET Box
      BY <1>4, <1>11, <2>2 DEF Entries
    <2> QED
      BY <1>4, <2>1, <2>3, EntriesAreFinite
  <1>16. /\ u \in Regions!Lines' /\ Regions!Lines' \subseteq old \cup {u}
         /\ old \ {result[i], box} \subseteq Regions!Lines'
    BY <1>11, <1>12, <1>13, <1>14
  <1>17. Keeps(Regions!Lines', boxes)
    <2> HIDE DEF old, boxes, box
    <2> QED
      BY <1>3, <1>15, <1>16, UnitingKeeps DEF u
  <1>18. Keeps(Regions!Lines', Entries(kept'))
    BY <1>2, <1>17
  <1>19. /\ passes < MergePasses /\ Len(current) + passes <= Len(kept)
         /\ Len(result) < handled + 1
    <2>1. /\ passes < MergePasses /\ Len(current) + passes <= Len(kept)
          /\ merged => Len(result) < handled
          /\ ~merged => Len(result) = handled
      BY <1>2 DEF RegionsInv
    <2>2. Len(result) < handled \/ Len(result) = handled
      BY <2>1
    <2>3. Len(result) \in Nat /\ handled \in Nat
      BY <1>4
    <2>4. Len(result) < handled + 1
      BY ONLY <2>2, <2>3
    <2> QED
      BY <2>1, <2>4
  <1>20. Regions!Clustered' /\ Regions!Converged'
    BY <1>2 DEF Regions!Clustered, Regions!Converged
  <1> QED
    BY <1>2, <1>9, <1>10, <1>18, <1>19, <1>20 DEF RegionsInv

LEMMA PlaceKeeps ==
    ASSUME RegionsInv, Regions!Place
    PROVE  RegionsInv'
  <1> DEFINE box == current[handled + 1]
             new == Len(result) + 1
  <1>1. /\ stage = "merge" /\ stage' = stage /\ handled < Len(current) /\ handled' = handled + 1
        /\ result' = Append(result, box) /\ \A i \in DOMAIN result : ~Regions!ShouldMerge(result[i], box)
        /\ UNCHANGED <<kept, current, passes, merged>>
    BY DEF Regions!Place, Regions!Handle, Regions!Box1
  <1>2. /\ Regions!TypeOK /\ Keeps(Regions!Lines, Entries(kept))
        /\ passes < MergePasses /\ Len(current) + passes <= Len(kept)
        /\ merged => Len(result) < handled
        /\ ~merged => Len(result) = handled /\ Apart(result)
    BY <1>1 DEF RegionsInv
  <1>3. /\ Len(current) \in Nat /\ handled \in Nat /\ Len(result) \in Nat
        /\ box \in Box /\ result \in Seq(Box) /\ DOMAIN result = 1 .. Len(result)
    BY <1>1, <1>2, RegionsTyped
  <1>4. /\ result' \in Seq(Box) /\ DOMAIN result' = DOMAIN result \cup {new} /\ result'[new] = box
        /\ Len(result') = new
        /\ \A i \in DOMAIN result : result'[i] = result[i] /\ i < new
    <2> HIDE DEF box
    <2> QED
      BY <1>1, <1>3, Appended
  <1>5. new = Len(result) + 1 /\ new \in Nat
    BY <1>3
  <1> HIDE DEF new
  <1>6. Regions!TypeOK'
    <2>1. handled' \in 0 .. Len(current)
      BY <1>1, <1>3
    <2> QED
      BY <1>1, <1>2, <1>4, <2>1, SameOperators DEF Regions!TypeOK
  <1>7. Regions!Lines' = Regions!Lines
    <2>1. Regions!Lines = Entries(result) \cup {current[k] : k \in handled + 1 .. Len(current)}
      BY DEF Regions!Lines, Entries
    <2>2. Regions!Lines' = Entries(result') \cup {current[k] : k \in handled + 1 + 1 .. Len(current)}
      BY <1>1 DEF Regions!Lines, Entries
    <2>3. handled + 1 .. Len(current) = (handled + 1 + 1 .. Len(current)) \cup {handled + 1}
      BY <1>1, <1>3
    <2>4. Entries(result') = Entries(result) \cup {box}
      BY <1>4 DEF Entries
    <2> QED
      BY <2>1, <2>2, <2>3, <2>4
  <1>8. Keeps(Regions!Lines', Entries(kept'))
    BY <1>1, <1>2, <1>7
  <1>9. ASSUME Apart(result) PROVE Apart(result')
    <2> SUFFICES ASSUME NEW i \in DOMAIN result', NEW j \in DOMAIN result', i < j
                 PROVE  ~Regions!ShouldMerge(result'[i], result'[j])
      BY DEF Apart
    <2>1. i \in DOMAIN result
      BY <1>3, <1>4, <1>5
    <2>2. CASE j = new
      BY <1>1, <1>4, <2>1, <2>2
    <2>3. CASE j \in DOMAIN result
      BY <1>4, <1>9, <2>1, <2>3 DEF Apart
    <2> QED
      BY <1>4, <2>2, <2>3
  <1>10. /\ merged => Len(result') < handled + 1
         /\ ~merged => Len(result') = handled + 1 /\ Apart(result')
    <2>1. Len(result') = Len(result) + 1
      BY <1>4, <1>5
    <2>2. merged => Len(result') < handled + 1
      BY <1>2, <1>3, <2>1
    <2>3. ~merged => Len(result') = handled + 1
      BY <1>2, <2>1
    <2>4. ~merged => Apart(result')
      BY <1>2, <1>9
    <2> QED
      BY <2>2, <2>3, <2>4
  <1>11. Regions!Clustered' /\ Regions!Converged'
    BY <1>1 DEF Regions!Clustered, Regions!Converged
  <1> QED
    BY <1>1, <1>2, <1>6, <1>8, <1>10, <1>11 DEF RegionsInv

LEMMA EndPassKeeps ==
    ASSUME RegionsInv, Regions!EndPass
    PROVE  RegionsInv'
  <1>1. /\ stage = "merge" /\ handled = Len(current) /\ current' = result /\ result' = <<>>
        /\ handled' = 0 /\ merged' = FALSE /\ passes' = passes + 1 /\ kept' = kept
        /\ stage' = IF ~merged \/ passes + 1 = MergePasses THEN "done" ELSE "merge"
    BY DEF Regions!EndPass, Regions!Last
  <1>2. /\ Regions!TypeOK /\ Keeps(Regions!Lines, Entries(kept))
        /\ passes < MergePasses /\ Len(current) + passes <= Len(kept)
        /\ merged => Len(result) < handled
        /\ ~merged => Len(result) = handled /\ Apart(result)
    BY <1>1 DEF RegionsInv
  <1>3. /\ Len(current) \in Nat /\ handled \in Nat /\ Len(result) \in Nat /\ Len(kept) \in Nat
        /\ passes \in Nat /\ result \in Seq(Box) /\ DOMAIN result = 1 .. Len(result) /\ merged \in BOOLEAN
    BY <1>2, RegionsTyped
  <1>4. MergePasses \in Nat \ {0} /\ <<>> \in Seq(Box) /\ DOMAIN <<>> = {} /\ Len(<<>>) = 0
    BY BoundsAreNat
  <1>5. Regions!TypeOK'
    <2>1. handled' \in 0 .. Len(current')
      BY <1>1, <1>3
    <2>2. passes \in Nat /\ MergePasses \in Nat /\ passes < MergePasses
      BY <1>2, <1>3, <1>4
    <2>3. passes + 1 \in 0 .. MergePasses
      BY ONLY <2>2
    <2> QED
      BY <1>1, <1>2, <1>3, <1>4, <2>1, <2>3, SameOperators DEF Regions!TypeOK
  <1>6. Regions!Lines' = Regions!Lines
    <2>1. Regions!Lines = {result[i] : i \in DOMAIN result}
      <3>1. handled + 1 .. Len(current) = {}
        BY <1>1, <1>3
      <3> QED
        BY <3>1 DEF Regions!Lines
    <2>2. Regions!Lines' = {result[k] : k \in 1 .. Len(result)}
      <3>1. 0 + 1 = 1
        OBVIOUS
      <3> QED
        BY <1>1, <1>4, <3>1 DEF Regions!Lines
    <2> QED
      BY <1>3, <2>1, <2>2
  <1>7. Keeps(Regions!Lines', Entries(kept'))
    BY <1>1, <1>2, <1>6
  <1>8. Apart(<<>>)
    BY DEF Apart
  <1>9. ASSUME stage' = "merge"
        PROVE  passes' < MergePasses /\ Len(current') + passes' <= Len(kept')
    <2>1. merged /\ passes + 1 # MergePasses
      BY <1>1, <1>9
    <2> QED
      BY <1>1, <1>2, <1>3, <1>4, <2>1
  <1>10. Regions!Converged'
    <2> SUFFICES ASSUME stage' = "done", Len(kept) <= MergePasses + 1,
                        NEW i \in DOMAIN result, NEW j \in DOMAIN result, i < j
                 PROVE  ~Regions!ShouldMerge(result[i], result[j])
      BY <1>1 DEF Regions!Converged
    <2>1. CASE ~merged
      BY <1>2, <2>1 DEF Apart
    <2>2. CASE merged
      <3>1. passes + 1 = MergePasses
        BY <1>1, <2>2
      <3>2. Len(result) + 1 <= Len(current)
        BY <1>1, <1>2, <1>3, <2>2
      <3>3. PICK r \in Nat, c \in Nat, k \in Nat, p \in Nat, m \in Nat :
                r = Len(result) /\ c = Len(current) /\ k = Len(kept) /\ p = passes /\ m = MergePasses
        BY <1>3, <1>4
      <3>4. p + 1 = m /\ r + 1 <= c /\ c + p <= k /\ k <= m + 1
        BY <1>2, <3>1, <3>2, <3>3
      <3>5. r <= 1
        BY <3>4
      <3> QED
        BY <1>3, <3>3, <3>5
    <2> QED
      BY <2>1, <2>2
  <1>11. Regions!Clustered'
    BY <1>1 DEF Regions!Clustered
  <1>12. stage' # "suppress"
    BY <1>1
  <1> QED
    BY <1>1, <1>4, <1>5, <1>7, <1>8, <1>9, <1>10, <1>11, <1>12 DEF RegionsInv

LEMMA RegionsKeep ==
    ASSUME media \in Medias, frame \in Nat, RegionsInv, [Next]_vars
    PROVE  RegionsInv'
  <1>1. CASE UNCHANGED regionVars
    <2>1. UNCHANGED <<stage, kept, current, handled, result, merged, passes>>
      BY <1>1 DEF regionVars
    <2>2. Regions!TypeOK => Regions!TypeOK'
      BY <2>1 DEF Regions!TypeOK
    <2>3. Regions!Clustered => Regions!Clustered'
      BY <2>1 DEF Regions!Clustered
    <2>4. Regions!Converged => Regions!Converged'
      BY <2>1 DEF Regions!Converged
    <2>5. Regions!Lines' = Regions!Lines
      BY <2>1 DEF Regions!Lines
    <2> QED
      BY <2>1, <2>2, <2>3, <2>4, <2>5 DEF RegionsInv
  <1>2. CASE frame < Len(media.frames) /\ Regions!Load(This.blobs)
    <2>1. media.frames \in Seq(Frame)
      BY MediaFields
    <2>2. frame + 1 \in 1 .. Len(media.frames)
      BY <1>2, <2>1, LenProperties
    <2>3. This \in Frame
      BY <2>1, <2>2, ElementOfSeq DEF This
    <2>4. This.blobs \in Seq(Box)
      BY <2>3 DEF Frame
    <2> QED
      BY <1>2, <2>4, LoadKeepsRegions
  <1>3. CASE Regions!Next
    BY <1>3, KeepKeeps, SuppressKeeps, StartMergeKeeps, UniteKeeps, PlaceKeeps, EndPassKeeps
       DEF Regions!Next
  <1> QED
    BY <1>1, <1>2, <1>3, LoopSteps

LEMMA RegionsStart ==
    ASSUME Init
    PROVE  RegionsInv
  <1>1. /\ stage = "idle" /\ kept = <<>> /\ current = <<>> /\ handled = 0 /\ result = <<>>
        /\ merged = FALSE /\ passes = 0
    BY DEF Init, Regions!Init
  <1>2. <<>> \in Seq(Box) /\ Len(<<>>) = 0 /\ 0 \in 0 .. Len(<<>>) /\ 0 \in 0 .. MergePasses
    BY BoundsAreNat
  <1>3. Regions!TypeOK
    BY <1>1, <1>2, SameOperators DEF Regions!TypeOK
  <1> QED
    BY <1>1, <1>3 DEF RegionsInv, Regions!Clustered, Regions!Converged

-----------------------------------------------------------------------------
\* The entries of two lists in one.
LEMMA ConcatEntries ==
    ASSUME NEW S, NEW a \in Seq(S), NEW b \in Seq(S)
    PROVE  a \o b \in Seq(S) /\ Entries(a \o b) = Entries(a) \cup Entries(b)
  <1> DEFINE c == a \o b
  <1>1. PICK m \in Nat, n \in Nat : m = Len(a) /\ n = Len(b) /\ DOMAIN a = 1 .. m /\ DOMAIN b = 1 .. n
    BY LenProperties
  <1>2. /\ c \in Seq(S) /\ Len(c) = m + n
        /\ \A i \in 1 .. m + n : c[i] = IF i <= m THEN a[i] ELSE b[i - m]
    BY <1>1, ConcatProperties
  <1>3. DOMAIN c = 1 .. m + n
    BY <1>2, LenProperties
  <1> HIDE DEF c
  <1>4. \A i \in 1 .. m : i \in 1 .. m + n /\ c[i] = a[i]
    BY <1>2
  <1>5. \A i \in 1 .. n : i + m \in 1 .. m + n /\ c[i + m] = b[i]
    <2> TAKE i \in 1 .. n
    <2>1. i + m \in 1 .. m + n /\ ~(i + m <= m) /\ i + m - m = i
      OBVIOUS
    <2> QED
      BY <1>2, <2>1
  <1>6. \A i \in 1 .. m + n : i \in 1 .. m \/ (i - m \in 1 .. n /\ c[i] = b[i - m])
    BY <1>2
  <1>7. Entries(c) \subseteq Entries(a) \cup Entries(b)
    <2>1. ASSUME NEW i \in 1 .. m + n PROVE c[i] \in Entries(a) \/ c[i] \in Entries(b)
      <3>1. CASE i \in 1 .. m
        BY <1>1, <1>4, <3>1 DEF Entries
      <3>2. CASE i - m \in 1 .. n /\ c[i] = b[i - m]
        BY <1>1, <3>2 DEF Entries
      <3> QED
        BY <1>6, <3>1, <3>2
    <2> QED
      BY <1>3, <2>1 DEF Entries
  <1>8. Entries(a) \subseteq Entries(c)
    BY <1>1, <1>3, <1>4 DEF Entries
  <1>9. Entries(b) \subseteq Entries(c)
    BY <1>1, <1>3, <1>5 DEF Entries
  <1> QED
    BY <1>2, <1>7, <1>8, <1>9 DEF c

\* The first i lists in one, given the first i - 1 in one.
Joined(lists, f, i) == IF i = 1 THEN lists[i] ELSE f[i - 1] \o lists[i]

\* The recursion in FlattenSeq has a solution.
LEMMA JoinsExist ==
    ASSUME NEW lists, NEW n \in Nat
    PROVE  \E f : f = [i \in 1 .. n |-> Joined(lists, f, i)]
  <1> DEFINE Joins(f, m) == f = [i \in 1 .. m |-> Joined(lists, f, i)]
             bad == {m \in 0 .. n : \A f : ~Joins(f, m)}
  <1>1. SUFFICES ASSUME bad # {} PROVE FALSE
    <2>1. n \in 0 .. n /\ n \notin bad
      BY <1>1
    <2>2. \E f : Joins(f, n)
      BY <2>1
    <2> QED
      BY <2>2
  <1>2. PICK m \in bad : \A k \in bad : m <= k
    <2>1. bad \in SUBSET Nat
      OBVIOUS
    <2> HIDE DEF bad
    <2> QED
      BY <1>1, <2>1, MinOfNats
  <1>3. m \in 0 .. n /\ m \in Nat /\ \A f : ~Joins(f, m)
    OBVIOUS
  <1>4. m # 0
    <2> DEFINE none == [i \in 1 .. 0 |-> i]
    <2>1. none = [i \in 1 .. 0 |-> Joined(lists, none, i)]
      <3>1. \A i : i \notin 1 .. 0
        OBVIOUS
      <3> QED
        BY <3>1
    <2> QED
      BY <1>3, <2>1
  <1>5. m - 1 \in 0 .. n /\ m - 1 \notin bad
    <2>1. m - 1 \in 0 .. n
      BY <1>3, <1>4
    <2> HIDE DEF bad
    <2> QED
      BY <1>2, <1>3, <2>1
  <1>6. PICK f : Joins(f, m - 1)
    BY <1>5
  <1> DEFINE g == [i \in 1 .. m |-> IF i = m THEN Joined(lists, f, m) ELSE f[i]]
  <1>7. \A i \in 1 .. m : i # 1 => i - 1 \in 1 .. m /\ i - 1 # m /\ g[i - 1] = f[i - 1]
    BY <1>3
  <1>8. \A i \in 1 .. m : Joined(lists, f, i) = Joined(lists, g, i)
    <2> HIDE DEF g
    <2> QED
      BY <1>7 DEF Joined
  <1>9. \A i \in 1 .. m : g[i] = Joined(lists, g, i)
    <2> TAKE i \in 1 .. m
    <2>1. CASE i = m
      <3>1. g[i] = Joined(lists, f, i)
        BY <2>1
      <3> QED
        BY <3>1, <1>8
    <2>2. CASE i # m
      <3>1. i \in 1 .. m - 1 /\ g[i] = f[i]
        BY <1>3, <2>2
      <3>2. f[i] = Joined(lists, f, i)
        BY <1>6, <3>1
      <3> QED
        BY <1>8, <3>1, <3>2
    <2> QED
      BY <2>1, <2>2
  <1>10. Joins(g, m)
    <2>1. g = [i \in 1 .. m |-> g[i]]
      OBVIOUS
    <2> HIDE DEF g
    <2> QED
      BY <1>9, <2>1
  <1> QED
    BY <1>3, <1>10

\* The lists put together one by one.
Flattens(F, lists, n) == F[0] = <<>> /\ \A i \in 1 .. n : F[i] = F[i - 1] \o lists[i]

\* Flattening puts them together, one by one.
LEMMA FlatSteps ==
    ASSUME NEW S, NEW lists \in Seq(Seq(S)), NEW n \in Nat, n = Len(lists)
    PROVE  \E F \in [0 .. n -> Seq(S)] :
              Flattens(F, lists, n) /\ Match!FlattenSeq(lists) = F[n]
  <1>1. \A i \in 1 .. n : lists[i] \in Seq(S)
    BY LenProperties, ElementOfSeq
  <1>2. CASE n = 0
    <2>1. lists = <<>>
      BY <1>2, EmptySeq
    <2>2. Match!FlattenSeq(lists) = <<>>
      BY <1>2, <2>1 DEF Match!FlattenSeq
    <2>3. [i \in 0 .. n |-> <<>>] \in [0 .. n -> Seq(S)] /\ 0 \in 0 .. n /\ n \in 0 .. n
      OBVIOUS
    <2>4. Flattens([i \in 0 .. n |-> <<>>], lists, n)
      BY <1>2, <2>3 DEF Flattens
    <2> QED
      BY <2>2, <2>3, <2>4
  <1>3. CASE n # 0
    <2> DEFINE flat == CHOOSE f : f = [i \in 1 .. Len(lists) |-> Joined(lists, f, i)]
               F == [i \in 0 .. n |-> IF i = 0 THEN <<>> ELSE flat[i]]
    <2>1. Match!FlattenSeq(lists) = flat[n]
      BY n = Len(lists), <1>3, Zenon DEF Match!FlattenSeq, Joined
    <2>2. flat = [i \in 1 .. n |-> Joined(lists, flat, i)]
      <3>1. PICK f : f = [i \in 1 .. n |-> Joined(lists, f, i)]
        BY JoinsExist
      <3> QED
        BY <3>1
    <2> HIDE DEF flat
    <2>3. F[0] = <<>> /\ n \in 0 .. n /\ F[n] = flat[n] /\ DOMAIN F = 0 .. n
      BY <1>3
    <2>4. \A i \in 1 .. n : i \in 0 .. n /\ i - 1 \in 0 .. n /\ F[i] = Joined(lists, flat, i)
      <3> TAKE i \in 1 .. n
      <3>1. i \in 0 .. n /\ i - 1 \in 0 .. n /\ F[i] = flat[i]
        OBVIOUS
      <3>2. flat[i] = Joined(lists, flat, i)
        BY <2>2
      <3> QED
        BY <3>1, <3>2
    <2>5. \A i \in 1 .. n : i # 1 => F[i - 1] = flat[i - 1]
      BY <2>4
    <2> HIDE DEF F
    <2>6. \A i \in 1 .. n : F[i] = F[i - 1] \o lists[i]
      <3> TAKE i \in 1 .. n
      <3>1. CASE i = 1
        <4>1. F[i - 1] = <<>> /\ F[i] = lists[i]
          BY <2>3, <2>4, <3>1 DEF Joined
        <4> QED
          BY <1>1, <4>1, ConcatEmptySeq
      <3>2. CASE i # 1
        BY <2>4, <2>5, <3>2 DEF Joined
      <3> QED
        BY <3>1, <3>2
    <2> DEFINE bad == {i \in 0 .. n : F[i] \notin Seq(S)}
    <2>7. bad = {}
      <3> SUFFICES ASSUME bad # {} PROVE FALSE
        OBVIOUS
      <3>1. PICK m \in bad : \A k \in bad : m <= k
        <4>1. bad \in SUBSET Nat
          OBVIOUS
        <4> HIDE DEF bad
        <4> QED
          BY <4>1, MinOfNats
      <3>2. m \in 0 .. n /\ F[m] \notin Seq(S)
        OBVIOUS
      <3>3. m # 0
        BY <2>3, <3>2
      <3>4. m \in 1 .. n /\ m - 1 \in 0 .. n /\ ~(m <= m - 1)
        BY <3>2, <3>3
      <3>5. F[m - 1] \in Seq(S)
        BY <3>1, <3>4
      <3>6. F[m - 1] \o lists[m] \in Seq(S)
        BY <1>1, <3>4, <3>5, ConcatProperties
      <3> QED
        BY <2>6, <3>2, <3>4, <3>6
    <2>8. F \in [0 .. n -> Seq(S)]
      <3>1. F = [i \in 0 .. n |-> F[i]]
        BY DEF F
      <3> QED
        BY <2>7, <3>1
    <2> QED
      BY <2>1, <2>3, <2>6, <2>8 DEF Flattens
  <1> QED
    BY <1>2, <1>3

\* A list of lists flattened is a list.
LEMMA FlatIsList ==
    ASSUME NEW S, NEW lists \in Seq(Seq(S))
    PROVE  Match!FlattenSeq(lists) \in Seq(S)
  <1>1. PICK n \in Nat : n = Len(lists) /\ n \in 0 .. n
    BY LenProperties
  <1> QED
    BY <1>1, FlatSteps

JoinsAssociate(S) == \A s, t, u \in Seq(S) : (s \o t) \o u = s \o (t \o u)

LEMMA ThreeJoin == \A S : JoinsAssociate(S)
  BY ONLY ConcatAssociative, Zenon DEF JoinsAssociate

\* Whatever puts them together one by one is what flattening does.
LEMMA FlatIs ==
    ASSUME NEW S, NEW lists \in Seq(Seq(S)), NEW n \in Nat, n = Len(lists),
           NEW G, Flattens(G, lists, n)
    PROVE  Match!FlattenSeq(lists) = G[n]
  <1>1. PICK F \in [0 .. n -> Seq(S)] : Flattens(F, lists, n) /\ Match!FlattenSeq(lists) = F[n]
    BY FlatSteps
  <1> DEFINE bad == {i \in 0 .. n : F[i] # G[i]}
  <1>2. bad = {}
    <2> SUFFICES ASSUME bad # {} PROVE FALSE
      OBVIOUS
    <2>1. PICK m \in bad : \A k \in bad : m <= k
      <3>1. bad \in SUBSET Nat
        OBVIOUS
      <3> HIDE DEF bad
      <3> QED
        BY <3>1, MinOfNats
    <2>2. m \in 0 .. n /\ F[m] # G[m]
      OBVIOUS
    <2>3. m # 0
      BY <1>1, <2>2 DEF Flattens
    <2>4. m \in 1 .. n /\ m - 1 \in 0 .. n /\ ~(m <= m - 1)
      BY <2>2, <2>3
    <2>5. F[m - 1] = G[m - 1]
      BY <2>1, <2>4
    <2> QED
      BY <1>1, <2>2, <2>4, <2>5 DEF Flattens
  <1>3. n \in 0 .. n
    OBVIOUS
  <1> QED
    BY <1>1, <1>2, <1>3

\* Flattening two lists of lists one behind the other.
LEMMA FlatJoins ==
    ASSUME NEW S, NEW a \in Seq(Seq(S)), NEW b \in Seq(Seq(S))
    PROVE  Match!FlattenSeq(a \o b) = Match!FlattenSeq(a) \o Match!FlattenSeq(b)
  <1>1. PICK m \in Nat, n \in Nat : m = Len(a) /\ n = Len(b)
    BY LenProperties
  <1>2. PICK A \in [0 .. m -> Seq(S)] : Flattens(A, a, m) /\ Match!FlattenSeq(a) = A[m]
    BY <1>1, FlatSteps
  <1>3. PICK B \in [0 .. n -> Seq(S)] : Flattens(B, b, n) /\ Match!FlattenSeq(b) = B[n]
    BY <1>1, FlatSteps
  <1> DEFINE c == a \o b
             C == [i \in 0 .. m + n |-> IF i <= m THEN A[i] ELSE A[m] \o B[i - m]]
  <1>4. /\ c \in Seq(Seq(S)) /\ Len(c) = m + n
        /\ \A i \in 1 .. m + n : c[i] = IF i <= m THEN a[i] ELSE b[i - m]
    BY <1>1, ConcatProperties
  <1> HIDE DEF c
  <1>5. /\ A[0] = <<>> /\ \A i \in 1 .. m : A[i] = A[i - 1] \o a[i]
        /\ B[0] = <<>> /\ \A i \in 1 .. n : B[i] = B[i - 1] \o b[i]
    BY <1>2, <1>3 DEF Flattens
  <1>6. A[m] \in Seq(S) /\ \A i \in 0 .. n : B[i] \in Seq(S)
    BY <1>2, <1>3
  <1>7. \A i \in 0 .. m : i \in 0 .. m + n /\ C[i] = A[i]
    OBVIOUS
  <1>8. \A i \in 1 .. n : i + m \in 0 .. m + n /\ C[i + m] = A[m] \o B[i]
    <2> TAKE i \in 1 .. n
    <2>1. i + m \in 0 .. m + n /\ ~(i + m <= m) /\ i + m - m = i
      OBVIOUS
    <2> QED
      BY <2>1
  <1>9. C[m] = A[m] \o B[0]
    <2>1. C[m] = A[m]
      BY <1>7
    <2> QED
      BY <1>5, <1>6, <2>1, ConcatEmptySeq
  <1>10. C[m + n] = A[m] \o B[n]
    <2>1. CASE n = 0
      BY <1>9, <2>1
    <2>2. CASE n # 0
      <3>1. n \in 1 .. n /\ n + m = m + n
        BY <2>2
      <3> QED
        BY <1>8, <3>1
    <2> QED
      BY <2>1, <2>2
  <1> HIDE DEF C
  <1>11. \A i \in 1 .. m + n : C[i] = C[i - 1] \o c[i]
    <2> TAKE i \in 1 .. m + n
    <2>1. CASE i <= m
      <3>1. i \in 1 .. m /\ i \in 0 .. m /\ i - 1 \in 0 .. m
        BY <2>1
      <3> QED
        BY <1>4, <1>5, <1>7, <2>1, <3>1
    <2>2. CASE ~(i <= m)
      <3>1. PICK j \in 1 .. n : j = i - m /\ i = j + m
        <4>1. i - m \in 1 .. n /\ i = i - m + m
          BY <2>2
        <4> QED
          BY <4>1
      <3>2. j - 1 \in 0 .. n /\ i - 1 = j - 1 + m /\ (j - 1 = 0 \/ j - 1 \in 1 .. n) /\ j \in 0 .. n
        BY <3>1
      <3>3. C[i - 1] = A[m] \o B[j - 1]
        <4>1. CASE j - 1 = 0
          <5>1. i - 1 = m
            BY <3>2, <4>1
          <5> QED
            BY <1>9, <4>1, <5>1
        <4>2. CASE j - 1 \in 1 .. n
          BY <1>8, <3>2, <4>2
        <4> QED
          BY <3>2, <4>1, <4>2
      <3>4. c[i] = b[j] /\ C[i] = A[m] \o B[j] /\ B[j] = B[j - 1] \o b[j]
        BY <1>4, <1>5, <1>8, <2>2, <3>1
      <3>5. b[j] \in Seq(S)
        BY <1>1, <3>1, ElementOfSeq
      <3>6. A[m] \o (B[j - 1] \o b[j]) = (A[m] \o B[j - 1]) \o b[j]
        <4>1. PICK x \in Seq(S), y \in Seq(S), z \in Seq(S) : x = A[m] /\ y = B[j - 1] /\ z = b[j]
          BY <1>6, <3>2, <3>5
        <4>2. JoinsAssociate(S)
          BY ThreeJoin
        <4>3. (x \o y) \o z = x \o (y \o z)
          BY ONLY <4>2, x \in Seq(S), y \in Seq(S), z \in Seq(S), Zenon DEF JoinsAssociate
        <4> QED
          BY <4>1, <4>3
      <3> QED
        BY <3>3, <3>4, <3>6
    <2> QED
      BY <2>1, <2>2
  <1>12. C[0] = <<>>
    BY <1>5, <1>7
  <1>13. Flattens(C, c, m + n)
    BY <1>11, <1>12 DEF Flattens
  <1>14. Match!FlattenSeq(c) = C[m + n]
    <2>1. m + n \in Nat
      OBVIOUS
    <2> QED
      BY <1>4, <1>13, <2>1, FlatIs
  <1> QED
    BY <1>2, <1>3, <1>10, <1>14 DEF c

\* Flattening loses no entry of a list.
LEMMA FlatHasAll ==
    ASSUME NEW S, NEW lists \in Seq(Seq(S)), NEW k \in DOMAIN lists
    PROVE  Entries(lists[k]) \subseteq Entries(Match!FlattenSeq(lists))
  <1>1. PICK n \in Nat : n = Len(lists) /\ DOMAIN lists = 1 .. n /\ \A i \in 1 .. n : lists[i] \in Seq(S)
    BY LenProperties, ElementOfSeq
  <1>2. PICK F \in [0 .. n -> Seq(S)] : Flattens(F, lists, n) /\ Match!FlattenSeq(lists) = F[n]
    BY <1>1, FlatSteps
  <1>3. \A i \in 1 .. n : Entries(F[i]) = Entries(F[i - 1]) \cup Entries(lists[i])
    <2> TAKE i \in 1 .. n
    <2>1. F[i] = F[i - 1] \o lists[i]
      BY <1>2 DEF Flattens
    <2>2. i - 1 \in 0 .. n
      OBVIOUS
    <2>3. F[i - 1] \in Seq(S) /\ lists[i] \in Seq(S)
      BY <1>1, <1>2, <2>2
    <2> QED
      BY <2>1, <2>3, ConcatEntries
  <1> DEFINE bad == {i \in k .. n : ~(Entries(lists[k]) \subseteq Entries(F[i]))}
  <1>4. bad = {}
    <2> SUFFICES ASSUME bad # {} PROVE FALSE
      OBVIOUS
    <2>1. k \in 1 .. n
      BY <1>1
    <2>2. PICK m \in bad : \A j \in bad : m <= j
      <3>1. bad \in SUBSET Nat
        BY <2>1
      <3> HIDE DEF bad
      <3> QED
        BY <3>1, MinOfNats
    <2>3. m \in k .. n /\ ~(Entries(lists[k]) \subseteq Entries(F[m]))
      OBVIOUS
    <2>4. m # k
      BY <1>3, <2>1, <2>3
    <2>5. m - 1 \in k .. n /\ ~(m <= m - 1) /\ m \in 1 .. n
      BY <2>1, <2>3, <2>4
    <2>6. Entries(lists[k]) \subseteq Entries(F[m - 1])
      BY <2>2, <2>5
    <2> QED
      BY <1>3, <2>3, <2>5, <2>6
  <1>5. n \in k .. n
    BY <1>1
  <1> QED
    BY <1>2, <1>4, <1>5

-----------------------------------------------------------------------------
\* The places from k on, and what is found from there, given what is found later.
Places(str, needle, k) == {i \in k .. Len(str) - Len(needle) : Match!OccursAt(needle, str, i)}

Onward(str, needle, f, k) ==
    LET next == Places(str, needle, k)
    IN  IF next = {} THEN <<>> ELSE <<Match!Min(next)>> \o f[Match!Min(next) + Len(needle)]

\* The search goes on behind what was found.
LEMMA NextPlace ==
    ASSUME NEW str, NEW needle, Len(str) \in Nat, Len(needle) \in Nat \ {0},
           NEW k \in Nat, Places(str, needle, k) # {}
    PROVE  LET i == Match!Min(Places(str, needle, k))
           IN  /\ i \in Places(str, needle, k) /\ i \in Nat
               /\ i + Len(needle) \in k + 1 .. Len(str)
  <1> DEFINE next == Places(str, needle, k)
  <1>1. PICK n \in Nat, m \in Nat \ {0} : n = Len(str) /\ m = Len(needle)
    OBVIOUS
  <1>2. next \subseteq Nat /\ next \subseteq k .. n - m
    BY <1>1 DEF Places
  <1> HIDE DEF next
  <1>3. Match!Min(next) \in next
    BY <1>2, MinOfNats DEF Match!Min, Min, next
  <1>4. Match!Min(next) \in k .. n - m
    BY <1>2, <1>3
  <1>5. Match!Min(next) + m \in k + 1 .. n
    <2> DEFINE i == Match!Min(next)
    <2>1. i \in k .. n - m
      BY <1>4
    <2> HIDE DEF i
    <2>2. i + m \in k + 1 .. n
      BY <1>1, <2>1
    <2> QED
      BY <2>2 DEF i
  <1> QED
    BY <1>1, <1>2, <1>3, <1>5 DEF next

\* The recursion in Finds has a solution: it goes from the end to the start.
LEMMA SearchesExist ==
    ASSUME NEW str, NEW needle, NEW n \in Nat, n = Len(str), Len(needle) \in Nat \ {0}
    PROVE  \E f : f = [k \in 0 .. n |-> Onward(str, needle, f, k)]
  <1> DEFINE Searches(f, a) == f = [k \in a .. n |-> Onward(str, needle, f, k)]
             bad == {m \in 0 .. n + 1 : \A f : ~Searches(f, n + 1 - m)}
  <1>1. SUFFICES ASSUME bad # {} PROVE FALSE
    <2>1. n + 1 \in 0 .. n + 1 /\ n + 1 - (n + 1) = 0
      OBVIOUS
    <2>2. n + 1 \notin bad
      BY <1>1
    <2>3. \E f : Searches(f, n + 1 - (n + 1))
      BY <2>1, <2>2
    <2> QED
      BY <2>1, <2>3
  <1>2. PICK m \in bad : \A k \in bad : m <= k
    <2>1. bad \in SUBSET Nat
      OBVIOUS
    <2> HIDE DEF bad
    <2> QED
      BY <1>1, <2>1, MinOfNats
  <1>3. m \in 0 .. n + 1 /\ m \in Nat /\ \A f : ~Searches(f, n + 1 - m)
    OBVIOUS
  <1>4. m # 0
    <2> SUFFICES ASSUME m = 0 PROVE FALSE
      OBVIOUS
    <2> DEFINE none == [i \in n + 1 .. n |-> i]
    <2>1. none = [i \in n + 1 .. n |-> Onward(str, needle, none, i)]
      <3>1. \A i : i \notin n + 1 .. n
        OBVIOUS
      <3> QED
        BY <3>1
    <2>2. n + 1 - m = n + 1
      OBVIOUS
    <2>3. Searches(none, n + 1 - m)
      BY <2>1, <2>2
    <2> QED
      BY <1>3, <2>3
  <1>5. m - 1 \in 0 .. n + 1 /\ m - 1 \notin bad
    <2>1. m - 1 \in 0 .. n + 1
      BY <1>3, <1>4
    <2> HIDE DEF bad
    <2> QED
      BY <1>2, <1>3, <2>1
  <1>6. PICK a \in Nat : a = n + 1 - m /\ a <= n /\ n + 1 - (m - 1) = a + 1
    <2>1. m \in 1 .. n + 1
      BY <1>3, <1>4
    <2>2. n + 1 - m \in Nat /\ n + 1 - m <= n /\ n + 1 - (m - 1) = n + 1 - m + 1
      BY ONLY n \in Nat, <2>1
    <2> QED
      BY <2>2
  <1>7. PICK f : Searches(f, a + 1)
    <2>1. \E f : Searches(f, n + 1 - (m - 1))
      BY <1>5
    <2> QED
      BY <1>6, <2>1
  <1> DEFINE g == [k \in a .. n |-> IF k = a THEN Onward(str, needle, f, a) ELSE f[k]]
  <1>8. \A k \in a + 1 .. n : k \in a .. n /\ k # a /\ g[k] = f[k]
    BY <1>6
  <1>9. \A k \in a .. n : Onward(str, needle, f, k) = Onward(str, needle, g, k)
    <2> TAKE k \in a .. n
    <2>1. CASE Places(str, needle, k) = {}
      BY <2>1 DEF Onward
    <2>2. CASE Places(str, needle, k) # {}
      <3> DEFINE j == Match!Min(Places(str, needle, k)) + Len(needle)
      <3>1. k \in Nat /\ j \in k + 1 .. n
        BY <1>6, <2>2, NextPlace
      <3> HIDE DEF j, g
      <3>2. j \in a + 1 .. n
        BY <1>6, <3>1
      <3>3. g[j] = f[j]
        BY <1>8, <3>2
      <3> QED
        BY <3>3 DEF Onward, j
    <2> QED
      BY <2>1, <2>2
  <1>10. \A k \in a .. n : g[k] = Onward(str, needle, g, k)
    <2> TAKE k \in a .. n
    <2>1. CASE k = a
      <3>1. g[k] = Onward(str, needle, f, k)
        BY <2>1
      <3> QED
        BY <3>1, <1>9
    <2>2. CASE k # a
      <3>1. k \in a + 1 .. n /\ g[k] = f[k]
        BY <1>6, <2>2
      <3>2. f[k] = Onward(str, needle, f, k)
        BY <1>7, <3>1
      <3> QED
        BY <1>9, <3>1, <3>2
    <2> QED
      BY <2>1, <2>2
  <1>11. Searches(g, a)
    <2>1. g = [k \in a .. n |-> g[k]]
      OBVIOUS
    <2> HIDE DEF g
    <2> QED
      BY <1>10, <2>1
  <1> QED
    BY <1>3, <1>6, <1>11

\* What is found from each place on is a list of places where the needle occurs.
LEMMA SearchSteps ==
    ASSUME NEW str, NEW needle, NEW n \in Nat, n = Len(str), Len(needle) \in Nat \ {0}
    PROVE  \E from : /\ Match!Finds(str, needle) = from[0]
                     /\ \A k \in 0 .. n :
                           /\ from[k] \in Seq({i \in Nat : Match!OccursAt(needle, str, i)})
                           /\ from[k] = Onward(str, needle, from, k)
  <1> DEFINE P == {i \in Nat : Match!OccursAt(needle, str, i)}
             from == CHOOSE f : f = [k \in 0 .. Len(str) |-> Onward(str, needle, f, k)]
  <1>1. Match!Finds(str, needle) = from[0]
    BY Zenon DEF Match!Finds, Onward, Places
  <1>2. from = [k \in 0 .. n |-> Onward(str, needle, from, k)]
    <2>1. PICK f : f = [k \in 0 .. n |-> Onward(str, needle, f, k)]
      BY SearchesExist
    <2> QED
      BY <2>1
  <1> HIDE DEF from
  <1> DEFINE bad == {k \in 0 .. n : from[k] \notin Seq(P)}
  <1>3. SUFFICES ASSUME bad # {} PROVE FALSE
    BY <1>1, <1>2
  <1>4. PICK k \in bad : \A j \in bad : j <= k
    <2>1. bad \subseteq 0 .. n
      OBVIOUS
    <2> HIDE DEF bad
    <2>2. IsFiniteSet(0 .. n) /\ n \in Nat
      BY FS_Interval
    <2>3. IsFiniteSet(bad)
      BY <2>1, <2>2, FS_Subset
    <2>4. bad \in SUBSET Nat
      BY <2>1
    <2> QED
      BY <1>3, <2>3, <2>4, FiniteBounds
  <1>5. k \in 0 .. n /\ k \in Nat /\ from[k] \notin Seq(P) /\ from[k] = Onward(str, needle, from, k)
    BY <1>2
  <1> DEFINE next == Places(str, needle, k)
             i == Match!Min(next)
  <1>6. next # {}
    <2> SUFFICES ASSUME next = {} PROVE FALSE
      OBVIOUS
    <2>1. from[k] = <<>>
      BY <1>5 DEF Onward
    <2>2. <<>> \in Seq(P)
      OBVIOUS
    <2> QED
      BY <1>5, <2>1, <2>2
  <1>7. i \in next /\ i \in Nat /\ i + Len(needle) \in k + 1 .. n
    BY <1>5, <1>6, NextPlace
  <1>8. i \in P
    BY <1>7 DEF Places
  <1>9. from[k] = <<i>> \o from[i + Len(needle)]
    BY <1>5, <1>6 DEF Onward
  <1> HIDE DEF i, P
  <1>10. from[i + Len(needle)] \in Seq(P)
    <2>1. i + Len(needle) \in 0 .. n /\ ~(i + Len(needle) <= k)
      BY <1>5, <1>7
    <2>2. i + Len(needle) \notin bad
      <3> HIDE DEF bad
      <3> QED
        BY <1>4, <2>1
    <2> QED
      BY <2>1, <2>2
  <1>11. <<i>> \in Seq(P)
    BY <1>8
  <1>12. <<i>> \o from[i + Len(needle)] \in Seq(P)
    <2>1. PICK rest \in Seq(P) : rest = from[i + Len(needle)]
      BY <1>10
    <2>2. PICK first \in Seq(P) : first = <<i>>
      BY <1>11
    <2>3. first \o rest \in Seq(P)
      BY ConcatProperties
    <2> QED
      BY <2>1, <2>2, <2>3
  <1> QED
    BY <1>5, <1>9, <1>12

\* What is found is a list of places where the needle occurs.
LEMMA FindsArePlaces ==
    ASSUME NEW str, NEW needle, Len(str) \in Nat, Len(needle) \in Nat \ {0}
    PROVE  Match!Finds(str, needle) \in Seq({i \in Nat : Match!OccursAt(needle, str, i)})
  <1>1. PICK n \in Nat : n = Len(str) /\ 0 \in 0 .. n
    OBVIOUS
  <1> QED
    BY <1>1, SearchSteps

-----------------------------------------------------------------------------
Stretch == [start : Nat, end : Nat]

LEMMA LowerIsText ==
    ASSUME NEW str \in Text
    PROVE  Match!Lower(str) \in Text
  <1>1. LowerCase \in [DOMAIN LowerCase -> Seq(DOMAIN LowerCase)] /\ str \in Seq(DOMAIN LowerCase)
    BY LowerCaseIsText DEF Text
  <1>2. PICK n \in Nat : DOMAIN str = 1 .. n /\ \A i \in 1 .. n : str[i] \in DOMAIN LowerCase
    BY <1>1, LenProperties, ElementOfSeq
  <1>3. [i \in DOMAIN str |-> LowerCase[str[i]]] \in [1 .. n -> Seq(DOMAIN LowerCase)]
    BY <1>1, <1>2
  <1>4. [i \in DOMAIN str |-> LowerCase[str[i]]] \in Seq(Seq(DOMAIN LowerCase))
    BY <1>3, SeqDef
  <1> QED
    BY <1>4, FlatIsList DEF Match!Lower, Text

\* The matches of a keyword, and of each keyword.
MatchesOf(str, kw) ==
    IF Match!Lower(kw) = <<>> THEN <<>>
    ELSE LET found == Match!Finds(Match!Lower(str), Match!Lower(kw))
         IN  [n \in DOMAIN found |-> [start |-> found[n], end |-> found[n] + Len(kw)]]

ListsOf(str) == [k \in DOMAIN Keywords |-> MatchesOf(str, Keywords[k])]

LEMMA KeywordLists ==
    ASSUME NEW str \in Text
    PROVE  /\ ListsOf(str) \in Seq(Seq(Stretch))
           /\ Match!KeywordMatches(str, Keywords) = Match!FlattenSeq(ListsOf(str))
  <1>1. ASSUME NEW kw \in Text PROVE MatchesOf(str, kw) \in Seq(Stretch)
    <2>1. CASE Match!Lower(kw) = <<>>
      BY <2>1 DEF MatchesOf
    <2>2. CASE Match!Lower(kw) # <<>>
      <3>1. Match!Lower(str) \in Text /\ Match!Lower(kw) \in Text
        BY LowerIsText
      <3>2. Len(Match!Lower(str)) \in Nat /\ Len(Match!Lower(kw)) \in Nat \ {0} /\ Len(kw) \in Nat
        BY <2>2, <3>1, LenProperties, EmptySeq DEF Text
      <3> DEFINE found == Match!Finds(Match!Lower(str), Match!Lower(kw))
      <3>3. PICK P \in SUBSET Nat : found \in Seq(P)
        BY <3>2, FindsArePlaces
      <3> HIDE DEF found
      <3>4. PICK n \in Nat : DOMAIN found = 1 .. n /\ \A i \in 1 .. n : found[i] \in Nat
        BY <3>3, LenProperties, ElementOfSeq
      <3> DEFINE list == [i \in DOMAIN found |-> [start |-> found[i], end |-> found[i] + Len(kw)]]
      <3>5. \A i \in 1 .. n : [start |-> found[i], end |-> found[i] + Len(kw)] \in Stretch
        BY <3>2, <3>4 DEF Stretch
      <3>6. list \in [1 .. n -> Stretch]
        BY <3>4, <3>5
      <3>7. list \in Seq(Stretch)
        BY <3>6, SeqDef
      <3> QED
        BY <2>2, <3>7 DEF found, MatchesOf
    <2> QED
      BY <2>1, <2>2
  <1>2. PICK n \in Nat : DOMAIN Keywords = 1 .. n /\ \A k \in 1 .. n : Keywords[k] \in Text
    BY KeywordsAreTexts, LenProperties, ElementOfSeq
  <1>3. ListsOf(str) \in [1 .. n -> Seq(Stretch)]
    BY <1>1, <1>2 DEF ListsOf
  <1>4. ListsOf(str) \in Seq(Seq(Stretch))
    BY <1>3, SeqDef
  <1>5. Match!KeywordMatches(str, Keywords) = Match!FlattenSeq(ListsOf(str))
    BY Zenon DEF Match!KeywordMatches, ListsOf, MatchesOf
  <1> QED
    BY <1>4, <1>5

LEMMA KeywordMatchesAreList ==
    ASSUME NEW str \in Text
    PROVE  Match!KeywordMatches(str, Keywords) \in Seq(Stretch)
  BY KeywordLists, FlatIsList

\* Whatever the patterns meet, the matches in a text are a list of ranges.
LEMMA FoundIsList ==
    ASSUME NEW str \in Text, NEW found \in Found(str)
    PROVE  found \in Seq(Stretch)
  <1> DEFINE keywords == Match!KeywordMatches(str, Keywords)
             places == {[start |-> p[1], end |-> p[2]] :
                          p \in {q \in (0 .. Len(str)) \X (0 .. Len(str)) : q[1] < q[2]}}
  <1>1. keywords \in Seq(Stretch)
    BY KeywordMatchesAreList
  <1>2. places \subseteq Stretch
    <2>1. Len(str) \in Nat
      BY LenProperties DEF Text
    <2> QED
      BY <2>1 DEF Stretch
  <1>3. \/ found = <<>>
        \/ \E n \in 0 .. MaxMatches : \E patterns \in [1 .. n -> places] : found = patterns \o keywords
    BY Zenon DEF Found
  <1> HIDE DEF keywords, places
  <1>4. ASSUME NEW n \in 0 .. MaxMatches, NEW patterns \in [1 .. n -> places]
        PROVE  patterns \o keywords \in Seq(Stretch)
    <2>1. n \in Nat /\ patterns \in [1 .. n -> Stretch]
      BY <1>2
    <2>2. patterns \in Seq(Stretch)
      BY <2>1, SeqDef
    <2> QED
      BY <1>1, <2>2, ConcatProperties
  <1>5. <<>> \in Seq(Stretch)
    OBVIOUS
  <1> QED
    BY <1>3, <1>4, <1>5

\* A match has a range of time, or none.
LEMMA TimeRangeTyped ==
    ASSUME WordsInv, NEW s, NEW e, Words!TimeRange(s, e) # NoTime
    PROVE  Words!TimeRange(s, e) \in Stretch
  <1> DEFINE met == {i \in DOMAIN ranges : ranges[i].char_start < e /\ s < ranges[i].char_end}
             starts == {ranges[i].start : i \in met}
             ends == {ranges[i].end : i \in met}
  <1>1. met # {} /\ Words!TimeRange(s, e) = [start |-> Words!Min(starts), end |-> Words!Max(ends)]
    BY DEF Words!TimeRange
  <1>2. met \subseteq 1 .. Len(ranges) /\ Len(ranges) \in Nat
        /\ \A i \in met : ranges[i].start \in Nat /\ ranges[i].end \in Nat
    BY WordsTyped DEF WordRange
  <1>3. IsFiniteSet(met)
    BY <1>2, FS_Interval, FS_Subset
  <1> HIDE DEF met
  <1>4. starts \in SUBSET Nat /\ ends \in SUBSET Nat /\ starts # {} /\ ends # {}
    BY <1>1, <1>2
  <1>5. IsFiniteSet(ends)
    <2>1. [i \in met |-> ranges[i].end] \in Surjection(met, ends)
      BY DEF Surjection
    <2> HIDE DEF ends
    <2> QED
      BY <1>3, <2>1, FS_Surjection
  <1> HIDE DEF starts, ends
  <1>6. Min(starts) \in Nat /\ Max(ends) \in Nat
    BY <1>4, <1>5, MinOfNats, FiniteBounds
  <1>7. Words!Min(starts) = Min(starts) /\ Words!Max(ends) = Max(ends)
    BY Zenon DEF Words!Min, Min, Words!Max, Max
  <1> QED
    BY <1>1, <1>6, <1>7 DEF Stretch

\* The boxes a match is placed on are some of those read.
LEMMA MatchedBoxesTyped ==
    ASSUME NEW str, NEW m, NEW read \in Seq([chars : Text, box : Box])
    PROVE  IsFiniteSet(Match!MatchedBoxes(str, m, read)) /\ Match!MatchedBoxes(str, m, read) \in SUBSET Box
  <1> DEFINE B == Match!MatchedBoxes(str, m, read)
             all == [i \in DOMAIN read |-> read[i].box]
  <1>1. PICK n \in Nat : DOMAIN read = 1 .. n /\ \A i \in 1 .. n : read[i] \in [chars : Text, box : Box]
    BY LenProperties, ElementOfSeq
  <1>2. \A i \in 1 .. n : read[i].box \in Box
    BY <1>1
  <1>3. all \in Seq(Box)
    <2>1. all \in [1 .. n -> Box]
      BY <1>1, <1>2
    <2> QED
      BY <2>1, SeqDef
  <1>4. B \subseteq Entries(all)
    BY DEF Match!MatchedBoxes, Entries
  <1> QED
    BY <1>3, <1>4, EntriesAreFinite, FS_Subset

\* The words a match lines up with have a box around them, if there are any.
LEMMA MatchedBoxTyped ==
    ASSUME NEW str, NEW m, NEW read \in Seq([chars : Text, box : Box])
    PROVE  UnionBox(Match!MatchedBoxes(str, m, read)) \in Box \cup {NoBox}
  <1>1. PICK B \in SUBSET Box : IsFiniteSet(B) /\ B = Match!MatchedBoxes(str, m, read)
    BY MatchedBoxesTyped
  <1>2. CASE B = {}
    BY <1>1, <1>2 DEF UnionBox
  <1>3. CASE B # {}
    BY <1>1, <1>3, UnionIsLeast
  <1> QED
    BY <1>2, <1>3

-----------------------------------------------------------------------------
\* A needle of as many characters occurs where each of them is the same.
LEMMA OccursIsSame ==
    ASSUME NEW S, NEW str \in Seq(S), NEW needle \in Seq(S), NEW i \in Nat,
           i + Len(needle) <= Len(str)
    PROVE  Match!OccursAt(needle, str, i) <=> \A k \in 1 .. Len(needle) : str[i + k] = needle[k]
  <1>1. PICK m \in Nat, n \in Nat : m = Len(needle) /\ n = Len(str)
    BY LenProperties
  <1>2. \A j \in i + 1 .. i + m : str[j] \in S
    <2>1. \A j \in i + 1 .. i + m : j \in 1 .. n
      BY <1>1
    <2> QED
      BY <1>1, <2>1, ElementOfSeq
  <1> DEFINE part == SubSeq(str, i + 1, i + m)
  <1>3. /\ part \in Seq(S)
        /\ Len(part) = IF i + 1 <= i + m THEN (i + m) - (i + 1) + 1 ELSE 0
        /\ \A k \in 1 .. (i + m) - (i + 1) + 1 : part[k] = str[(i + 1) + k - 1]
    <2>1. i + 1 \in Int /\ i + m \in Int
      OBVIOUS
    <2> QED
      BY <1>2, <2>1, SubSeqProperties
  <1> HIDE DEF part
  <1>4. Len(part) = m /\ \A k \in 1 .. m : part[k] = str[i + k]
    <2>1. Len(part) = m
      BY <1>3
    <2>2. ASSUME NEW k \in 1 .. m PROVE part[k] = str[i + k]
      <3>1. (i + m) - (i + 1) + 1 = m /\ (i + 1) + k - 1 = i + k
        OBVIOUS
      <3> QED
        BY <1>3, <3>1
    <2> QED
      BY <2>1, <2>2
  <1>5. Match!OccursAt(needle, str, i) <=> part = needle
    BY <1>1 DEF Match!OccursAt, part
  <1>6. part = needle <=> \A k \in 1 .. m : part[k] = needle[k]
    BY <1>1, <1>3, <1>4, SeqEqual
  <1> QED
    BY <1>1, <1>4, <1>5, <1>6

\* What stands between two others occurs behind the first.
LEMMA MiddleOccurs ==
    ASSUME NEW S, NEW a \in Seq(S), NEW b \in Seq(S), NEW c \in Seq(S)
    PROVE  Match!HasText((a \o b) \o c, b)
  <1>1. PICK m \in Nat, n \in Nat, l \in Nat : m = Len(a) /\ n = Len(b) /\ l = Len(c)
    BY LenProperties
  <1>2. \A s, t \in Seq(S) :
            /\ s \o t \in Seq(S) /\ Len(s \o t) = Len(s) + Len(t)
            /\ \A i \in 1 .. Len(s) + Len(t) :
                  (s \o t)[i] = IF i <= Len(s) THEN s[i] ELSE t[i - Len(s)]
    BY Zenon, ConcatProperties
  <1> DEFINE ab == a \o b
             all == (a \o b) \o c
  <1>3. /\ ab \in Seq(S) /\ Len(ab) = m + n
        /\ \A i \in 1 .. m + n : ab[i] = IF i <= m THEN a[i] ELSE b[i - m]
    BY <1>1, <1>2
  <1>4. /\ all \in Seq(S) /\ Len(all) = m + n + l
        /\ \A i \in 1 .. m + n + l : all[i] = IF i <= m + n THEN ab[i] ELSE c[i - (m + n)]
    BY <1>1, <1>2, <1>3
  <1> HIDE DEF ab, all
  <1>5. ASSUME NEW k \in 1 .. n PROVE all[m + k] = b[k]
    <2>1. m + k \in 1 .. m + n /\ m + k \in 1 .. m + n + l /\ m + k <= m + n /\ ~(m + k <= m) /\ m + k - m = k
      OBVIOUS
    <2>2. all[m + k] = ab[m + k]
      BY <1>4, <2>1
    <2>3. ab[m + k] = b[k]
      BY <1>3, <2>1
    <2> QED
      BY <2>2, <2>3
  <1>6. m \in 0 .. Len(all) - Len(b) /\ m + Len(b) <= Len(all)
    BY <1>1, <1>4
  <1>7. Match!OccursAt(b, all, m)
    BY <1>1, <1>4, <1>5, <1>6, OccursIsSame
  <1> QED
    BY <1>6, <1>7 DEF Match!HasText, all

-----------------------------------------------------------------------------
LEMMA TextFields ==
    ASSUME NEW t \in Text
    PROVE  /\ Len(t) \in Nat /\ DOMAIN t = 1 .. Len(t) /\ t \in Seq(DOMAIN LowerCase)
           /\ \A k \in 1 .. Len(t) : t[k] \in DOMAIN LowerCase /\ LowerCase[t[k]] \in Text
  <1>1. LowerCase \in [DOMAIN LowerCase -> Text] /\ t \in Seq(DOMAIN LowerCase)
    BY LowerCaseIsText DEF Text
  <1>2. Len(t) \in Nat /\ DOMAIN t = 1 .. Len(t) /\ \A k \in 1 .. Len(t) : t[k] \in DOMAIN LowerCase
    BY <1>1, LenProperties, ElementOfSeq
  <1> QED
    BY <1>1, <1>2

\* Each character in lower case.
Lowers(t) == [i \in DOMAIN t |-> LowerCase[t[i]]]

LEMMA LowersTyped ==
    ASSUME NEW t \in Text
    PROVE  /\ Lowers(t) \in Seq(Text) /\ Len(Lowers(t)) = Len(t)
           /\ \A k \in 1 .. Len(t) : Lowers(t)[k] = LowerCase[t[k]]
           /\ Match!Lower(t) = Match!FlattenSeq(Lowers(t))
  <1>1. PICK n \in Nat : n = Len(t) /\ DOMAIN t = 1 .. n /\ \A k \in 1 .. n : LowerCase[t[k]] \in Text
    BY TextFields
  <1>2. Lowers(t) \in [1 .. n -> Text]
    BY <1>1 DEF Lowers
  <1>3. Lowers(t) \in Seq(Text) /\ DOMAIN Lowers(t) = 1 .. n
    BY <1>2, SeqDef
  <1>4. Len(Lowers(t)) = n
    BY <1>2
  <1> QED
    BY <1>1, <1>3, <1>4 DEF Lowers, Match!Lower

\* Only the characters count, one by one.
LEMMA SameInLower ==
    ASSUME NEW s \in Text, NEW t \in Text, Len(s) = Len(t),
           \A k \in 1 .. Len(s) : LowerCase[s[k]] = LowerCase[t[k]]
    PROVE  Match!Lower(s) = Match!Lower(t)
  <1>1. /\ Lowers(s) \in Seq(Text) /\ Len(Lowers(s)) = Len(s)
        /\ \A k \in 1 .. Len(s) : Lowers(s)[k] = LowerCase[s[k]]
        /\ Match!Lower(s) = Match!FlattenSeq(Lowers(s))
    BY LowersTyped
  <1>2. /\ Lowers(t) \in Seq(Text) /\ Len(Lowers(t)) = Len(t)
        /\ \A k \in 1 .. Len(t) : Lowers(t)[k] = LowerCase[t[k]]
        /\ Match!Lower(t) = Match!FlattenSeq(Lowers(t))
    BY LowersTyped
  <1>3. \A k \in 1 .. Len(Lowers(s)) : Lowers(s)[k] = Lowers(t)[k]
    BY <1>1, <1>2
  <1>4. Lowers(s) = Lowers(t)
    BY <1>1, <1>2, <1>3, SeqEqual
  <1> QED
    BY <1>1, <1>2, <1>4

LEMMA LowerJoins ==
    ASSUME NEW s \in Text, NEW t \in Text
    PROVE  s \o t \in Text /\ Match!Lower(s \o t) = Match!Lower(s) \o Match!Lower(t)
  <1>1. PICK m \in Nat, n \in Nat : m = Len(s) /\ n = Len(t)
    BY TextFields
  <1> DEFINE st == s \o t
             both == Lowers(s) \o Lowers(t)
  <1>2. /\ st \in Text /\ Len(st) = m + n
        /\ \A i \in 1 .. m + n : st[i] = IF i <= m THEN s[i] ELSE t[i - m]
    BY <1>1, ConcatProperties DEF Text
  <1>3. /\ Lowers(s) \in Seq(Text) /\ Len(Lowers(s)) = m
        /\ Lowers(t) \in Seq(Text) /\ Len(Lowers(t)) = n
    BY <1>1, LowersTyped
  <1>4. /\ both \in Seq(Text) /\ Len(both) = m + n
        /\ \A i \in 1 .. m + n : both[i] = IF i <= m THEN Lowers(s)[i] ELSE Lowers(t)[i - m]
    BY <1>3, ConcatProperties
  <1> HIDE DEF st, both
  <1>5. Lowers(st) \in Seq(Text) /\ Len(Lowers(st)) = m + n
        /\ \A i \in 1 .. m + n : Lowers(st)[i] = LowerCase[st[i]]
    BY <1>2, LowersTyped
  <1>6. /\ \A i \in 1 .. m : Lowers(s)[i] = LowerCase[s[i]]
        /\ \A i \in 1 .. n : Lowers(t)[i] = LowerCase[t[i]]
    BY <1>1, LowersTyped
  <1>7. ASSUME NEW i \in 1 .. m + n PROVE Lowers(st)[i] = both[i]
    <2>1. CASE i <= m
      <3>1. i \in 1 .. m
        BY <2>1
      <3> QED
        BY <1>2, <1>4, <1>5, <1>6, <2>1, <3>1
    <2>2. CASE ~(i <= m)
      <3>1. i - m \in 1 .. n
        BY <2>2
      <3> QED
        BY <1>2, <1>4, <1>5, <1>6, <2>2, <3>1
    <2> QED
      BY <2>1, <2>2
  <1>8. Lowers(st) = both
    BY <1>4, <1>5, <1>7, SeqEqual
  <1>9. Match!FlattenSeq(both) = Match!FlattenSeq(Lowers(s)) \o Match!FlattenSeq(Lowers(t))
    BY <1>3, FlatJoins DEF both, Text
  <1>10. /\ Match!Lower(st) = Match!FlattenSeq(Lowers(st))
         /\ Match!Lower(s) = Match!FlattenSeq(Lowers(s)) /\ Match!Lower(t) = Match!FlattenSeq(Lowers(t))
    BY <1>2, LowersTyped
  <1> QED
    BY <1>2, <1>8, <1>9, <1>10 DEF st

\* A part of a text is a text.
LEMMA PartIsText ==
    ASSUME NEW t \in Text, NEW i \in Nat, NEW j \in Nat, i <= j, j <= Len(t)
    PROVE  /\ SubSeq(t, i + 1, j) \in Text /\ Len(SubSeq(t, i + 1, j)) = j - i
           /\ \A k \in 1 .. j - i : SubSeq(t, i + 1, j)[k] = t[i + k]
  <1>1. PICK n \in Nat : n = Len(t) /\ \A k \in 1 .. n : t[k] \in DOMAIN LowerCase
    BY TextFields
  <1>2. \A k \in i + 1 .. j : t[k] \in DOMAIN LowerCase
    BY <1>1
  <1> DEFINE part == SubSeq(t, i + 1, j)
  <1>3. /\ part \in Seq(DOMAIN LowerCase)
        /\ Len(part) = IF i + 1 <= j THEN j - (i + 1) + 1 ELSE 0
        /\ \A k \in 1 .. j - (i + 1) + 1 : part[k] = t[(i + 1) + k - 1]
    <2>1. i + 1 \in Int /\ j \in Int
      OBVIOUS
    <2> QED
      BY <1>2, <2>1, SubSeqProperties
  <1> HIDE DEF part
  <1>4. Len(part) = j - i
    BY <1>3
  <1>5. ASSUME NEW k \in 1 .. j - i PROVE part[k] = t[i + k]
    <2>1. j - (i + 1) + 1 = j - i /\ (i + 1) + k - 1 = i + k
      OBVIOUS
    <2> QED
      BY <1>3, <2>1
  <1> QED
    BY <1>3, <1>4, <1>5 DEF part, Text

\* What stands in a text stands in it in lower case too, wherever that is.
LEMMA SameIsFound ==
    ASSUME NEW x \in Text, NEW y \in Text, NEW d \in Nat, Match!SameAt(x, y, d)
    PROVE  Match!HasText(Match!Lower(y), Match!Lower(x))
  <1>1. PICK m \in Nat, n \in Nat : m = Len(x) /\ n = Len(y) /\ DOMAIN x = 1 .. m
    BY TextFields
  <1>2. d + m <= n /\ \A k \in 1 .. m : LowerCase[y[d + k]] = LowerCase[x[k]]
    BY <1>1 DEF Match!SameAt
  <1> DEFINE a == SubSeq(y, 1, d)
             b == SubSeq(y, d + 1, d + m)
             c == SubSeq(y, d + m + 1, n)
  <1>3. a \in Text
    <2>1. a = SubSeq(y, 0 + 1, d)
      OBVIOUS
    <2>2. 0 \in Nat /\ 0 <= d /\ d <= n
      BY <1>2
    <2> HIDE DEF a
    <2> QED
      BY <1>1, <2>1, <2>2, PartIsText
  <1>4. b \in Text /\ Len(b) = m /\ \A k \in 1 .. m : b[k] = y[d + k]
    <2>1. d + m \in Nat /\ d <= d + m /\ d + m <= n /\ d + m - d = m
      BY <1>2
    <2> HIDE DEF b
    <2>2. /\ SubSeq(y, d + 1, d + m) \in Text /\ Len(SubSeq(y, d + 1, d + m)) = d + m - d
          /\ \A k \in 1 .. d + m - d : SubSeq(y, d + 1, d + m)[k] = y[d + k]
      BY <1>1, <2>1, PartIsText
    <2> QED
      BY <2>1, <2>2 DEF b
  <1>5. c \in Text
    <2>1. d + m \in Nat /\ d + m <= n
      BY <1>2
    <2>2. PICK i \in Nat : i = d + m /\ i <= n
      BY <2>1
    <2>3. SubSeq(y, i + 1, n) \in Text
      BY <1>1, <2>2, PartIsText
    <2> QED
      BY <2>2, <2>3
  <1>6. y = (a \o b) \o c
    <2>1. y \in Seq(DOMAIN LowerCase)
      BY DEF Text
    <2>2. a \o b = SubSeq(y, 1, d + m)
      <3>1. 1 \in 1 .. Len(y) + 1 /\ d \in 1 - 1 .. Len(y) /\ d + m \in d .. Len(y)
        BY <1>1, <1>2
      <3> QED
        BY <2>1, <3>1, ConcatAdjacentSubSeq
    <2>3. SubSeq(y, 1, d + m) \o SubSeq(y, d + m + 1, n) = SubSeq(y, 1, n)
      <3>1. 1 \in 1 .. Len(y) + 1 /\ d + m \in 1 - 1 .. Len(y) /\ n \in d + m .. Len(y)
        BY <1>1, <1>2
      <3> QED
        BY <2>1, <3>1, ConcatAdjacentSubSeq
    <2>4. SubSeq(y, 1, n) = y
      BY <1>1, <2>1, SubSeqFull
    <2> QED
      BY <2>2, <2>3, <2>4
  <1> HIDE DEF a, b, c
  <1>7. Match!Lower(b) = Match!Lower(x)
    BY <1>1, <1>2, <1>4, SameInLower
  <1>8. \A s, t \in Text : s \o t \in Text /\ Match!Lower(s \o t) = Match!Lower(s) \o Match!Lower(t)
    BY Zenon, LowerJoins
  <1>9. Match!Lower(y) = (Match!Lower(a) \o Match!Lower(x)) \o Match!Lower(c)
    <2>1. a \o b \in Text /\ Match!Lower(a \o b) = Match!Lower(a) \o Match!Lower(x)
      BY <1>3, <1>4, <1>7, <1>8
    <2> QED
      BY <1>5, <1>6, <1>8, <2>1
  <1>10. Match!Lower(a) \in Text /\ Match!Lower(x) \in Text /\ Match!Lower(c) \in Text
    BY <1>3, <1>5, LowerIsText
  <1> QED
    BY <1>9, <1>10, MiddleOccurs DEF Text

\* As far as each character has one in lower case, that is where it stands.
LEMMA LowerStraight ==
    ASSUME NEW t \in Text, NEW m \in Nat, m <= Len(t), Match!Straight(t, m)
    PROVE  /\ Len(Match!Lower(t)) >= m /\ (m = Len(t) => Len(Match!Lower(t)) = m)
           /\ \A k \in 1 .. m : Match!Lower(t)[k] = LowerCase[t[k]][1]
  <1>1. PICK n \in Nat : n = Len(t) /\ \A k \in 1 .. n : LowerCase[t[k]] \in Text
    BY TextFields
  <1>2. /\ Lowers(t) \in Seq(Text) /\ Len(Lowers(t)) = n
        /\ \A k \in 1 .. n : Lowers(t)[k] = LowerCase[t[k]]
        /\ Match!Lower(t) = Match!FlattenSeq(Lowers(t))
    BY <1>1, LowersTyped
  <1>3. PICK F \in [0 .. n -> Text] : Flattens(F, Lowers(t), n) /\ Match!Lower(t) = F[n]
    <2>1. Lowers(t) \in Seq(Seq(DOMAIN LowerCase))
      BY <1>2 DEF Text
    <2> QED
      <3>1. n = Len(Lowers(t))
        BY <1>2
      <3>2. PICK F \in [0 .. n -> Seq(DOMAIN LowerCase)] :
                Flattens(F, Lowers(t), n) /\ Match!FlattenSeq(Lowers(t)) = F[n]
        BY <2>1, <3>1, FlatSteps
      <3>3. F \in [0 .. n -> Text]
        BY DEF Text
      <3> QED
        BY <1>2, <3>2, <3>3
  <1>4. F[0] = <<>> /\ \A i \in 1 .. n : F[i] = F[i - 1] \o LowerCase[t[i]]
    BY <1>2, <1>3 DEF Flattens
  <1>5. \A i \in 0 .. n : F[i] \in Text /\ Len(F[i]) \in Nat
    BY <1>3, TextFields
  <1>6. \A k \in 1 .. m : Len(LowerCase[t[k]]) = 1
    BY DEF Match!Straight
  <1> DEFINE Up(i) == /\ IF i <= m THEN Len(F[i]) = i ELSE Len(F[i]) >= m
                      /\ \A k \in 1 .. m : k <= i => F[i][k] = LowerCase[t[k]][1]
             bad == {i \in 0 .. n : ~Up(i)}
  <1>7. bad = {}
    <2> SUFFICES ASSUME bad # {} PROVE FALSE
      OBVIOUS
    <2>1. PICK i \in bad : \A k \in bad : i <= k
      <3>1. bad \in SUBSET Nat
        OBVIOUS
      <3> HIDE DEF bad
      <3> QED
        BY <3>1, MinOfNats
    <2>2. i \in 0 .. n /\ ~Up(i)
      OBVIOUS
    <2>3. i # 0
      <3>1. Up(0)
        <4>1. Len(F[0]) = 0 /\ 0 <= m /\ \A k \in 1 .. m : ~(k <= 0)
          BY <1>4
        <4> QED
          BY <4>1
      <3> QED
        BY <2>2, <3>1
    <2>4. i \in 1 .. n /\ i - 1 \in 0 .. n /\ ~(i <= i - 1)
      BY <2>2, <2>3
    <2>5. Up(i - 1)
      BY <2>1, <2>4
    <2>6. PICK a \in Text, c \in Text : a = F[i - 1] /\ c = LowerCase[t[i]]
      BY <1>1, <1>5, <2>4
    <2>7. PICK l \in Nat, j \in Nat : l = Len(a) /\ j = Len(c)
      BY TextFields
    <2>8. /\ Len(a \o c) = l + j
          /\ \A k \in 1 .. l + j : (a \o c)[k] = IF k <= l THEN a[k] ELSE c[k - l]
      BY <2>7, ConcatProperties DEF Text
    <2>9. F[i] = a \o c
      BY <1>4, <2>4, <2>6
    <2>10. /\ IF i - 1 <= m THEN l = i - 1 ELSE l >= m
           /\ \A k \in 1 .. m : k <= i - 1 => a[k] = LowerCase[t[k]][1]
      BY <2>5, <2>6, <2>7
    <2>11. i <= m => j = 1
      BY <1>6, <2>4, <2>6, <2>7
    <2>12. IF i <= m THEN l + j = i ELSE l + j >= m
      BY <2>4, <2>10, <2>11
    <2>13. ASSUME NEW k \in 1 .. m, k <= i PROVE (a \o c)[k] = LowerCase[t[k]][1]
      <3>1. CASE k <= i - 1
        <4>1. k <= l /\ k \in 1 .. l + j
          BY <2>4, <2>10, <3>1
        <4> QED
          BY <2>8, <2>10, <3>1, <4>1
      <3>2. CASE k = i
        <4>1. l = i - 1 /\ j = 1 /\ k \in 1 .. l + j /\ ~(k <= l) /\ k - l = 1
          BY <2>4, <2>10, <2>11, <2>13, <3>2
        <4>2. (a \o c)[k] = c[1]
          BY <2>8, <4>1
        <4> QED
          BY <2>6, <3>2, <4>2
      <3> QED
        <4>1. k <= i - 1 \/ k = i
          BY <2>4, <2>13
        <4> QED
          BY <3>1, <3>2, <4>1
    <2>14. Up(i)
      BY <2>8, <2>9, <2>12, <2>13
    <2> QED
      BY <2>2, <2>14
  <1>8. n \in 0 .. n /\ n \notin bad
    BY <1>7
  <1>9. Up(n)
    BY <1>8
  <1>10. m <= n /\ \A k \in 1 .. m : k <= n
    BY <1>1
  <1> QED
    BY <1>1, <1>3, <1>5, <1>9, <1>10

\* A keyword whose characters have one in lower case each is in lower case as
\* long as it is.
LEMMA StraightKeyword ==
    ASSUME NEW kw \in Text, Match!Straight(kw, Len(kw))
    PROVE  /\ Len(Match!Lower(kw)) = Len(kw)
           /\ \A k \in 1 .. Len(kw) : Match!Lower(kw)[k] = LowerCase[kw[k]][1]
  <1>1. PICK n \in Nat : n = Len(kw)
    BY TextFields
  <1> QED
    BY <1>1, LowerStraight

\* A text of one character is told by it.
LEMMA OneCharacter ==
    ASSUME NEW c \in Text, NEW d \in Text, Len(c) = 1, Len(d) = 1, c[1] = d[1]
    PROVE  c = d
  <1>1. \A i \in 1 .. Len(c) : c[i] = d[i]
    OBVIOUS
  <1> QED
    BY <1>1, SeqEqual DEF Text

\* Up to a place where the keyword stands, its places in lower case are its
\* places.
LEMMA SamePlaces ==
    ASSUME NEW kw \in Text, NEW str \in Text, NEW i \in Nat,
           Match!SameAt(kw, str, i), Match!Straight(str, i), Match!Straight(kw, Len(kw))
    PROVE  /\ i + Len(kw) <= Len(Match!Lower(str))
           /\ \A j \in 0 .. i : Match!OccursAt(Match!Lower(kw), Match!Lower(str), j)
                                  <=> Match!SameAt(kw, str, j)
  <1>1. PICK n \in Nat, m \in Nat : /\ n = Len(kw) /\ m = Len(str)
                                    /\ DOMAIN kw = 1 .. n /\ DOMAIN str = 1 .. m
                                    /\ \A k \in 1 .. n : LowerCase[kw[k]] \in Text
                                    /\ \A k \in 1 .. m : LowerCase[str[k]] \in Text
    BY TextFields
  <1>2. i + n <= m /\ \A k \in 1 .. n : LowerCase[str[i + k]] = LowerCase[kw[k]]
    BY <1>1 DEF Match!SameAt
  <1>3. /\ \A k \in 1 .. n : Len(LowerCase[kw[k]]) = 1
        /\ \A k \in 1 .. i : Len(LowerCase[str[k]]) = 1
    BY <1>1 DEF Match!Straight
  <1>4. \A k \in 1 .. i + n : Len(LowerCase[str[k]]) = 1
    <2> TAKE k \in 1 .. i + n
    <2>1. CASE k <= i
      BY <1>3, <2>1
    <2>2. CASE ~(k <= i)
      <3>1. PICK l \in 1 .. n : k = i + l
        <4>1. k - i \in 1 .. n /\ k = i + (k - i)
          BY <2>2
        <4> QED
          BY <4>1
      <3> QED
        BY <1>2, <1>3, <3>1
    <2> QED
      BY <2>1, <2>2
  <1>5. Match!Straight(str, i + n) /\ i + n \in Nat
    BY <1>4 DEF Match!Straight
  <1>6. PICK s \in Text, w \in Text : s = Match!Lower(str) /\ w = Match!Lower(kw)
    BY LowerIsText
  <1>7. /\ Len(s) >= i + n
        /\ \A k \in 1 .. i + n : s[k] = LowerCase[str[k]][1]
    BY <1>1, <1>2, <1>5, <1>6, LowerStraight
  <1>8. /\ Len(w) = n
        /\ \A k \in 1 .. n : w[k] = LowerCase[kw[k]][1]
    BY <1>1, <1>6, StraightKeyword
  <1>9. Len(s) \in Nat
    BY TextFields
  <1>10. ASSUME NEW j \in 0 .. i PROVE Match!OccursAt(w, s, j) <=> Match!SameAt(kw, str, j)
    <2>1. j \in Nat /\ j + Len(w) <= Len(s) /\ j + n <= m
      BY <1>2, <1>7, <1>8, <1>9
    <2>2. Match!OccursAt(w, s, j) <=> \A k \in 1 .. n : s[j + k] = w[k]
      <3>1. s \in Seq(DOMAIN LowerCase) /\ w \in Seq(DOMAIN LowerCase)
        BY DEF Text
      <3> QED
        <4>1. Match!OccursAt(w, s, j) <=> \A k \in 1 .. Len(w) : s[j + k] = w[k]
          BY <2>1, <3>1, OccursIsSame
        <4> QED
          BY <1>8, <4>1
    <2>3. ASSUME NEW k \in 1 .. n
          PROVE  s[j + k] = w[k] <=> LowerCase[str[j + k]] = LowerCase[kw[k]]
      <3>1. j + k \in 1 .. i + n /\ j + k \in 1 .. m
        BY <1>2
      <3>2. PICK c \in Text, d \in Text : c = LowerCase[str[j + k]] /\ d = LowerCase[kw[k]]
        BY <1>1, <3>1
      <3>3. Len(c) = 1 /\ Len(d) = 1 /\ s[j + k] = c[1] /\ w[k] = d[1]
        BY <1>3, <1>4, <1>7, <1>8, <3>1, <3>2
      <3> QED
        BY <3>2, <3>3, OneCharacter
    <2> QED
      BY <1>1, <2>1, <2>2, <2>3 DEF Match!SameAt
  <1> QED
    BY <1>1, <1>6, <1>7, <1>9, <1>10

-----------------------------------------------------------------------------
\* A search finds each place that no earlier one overlaps.
LEMMA FindsComplete ==
    ASSUME NEW str, NEW needle, NEW n \in Nat, n = Len(str), NEW l \in Nat \ {0}, l = Len(needle),
           NEW o \in 0 .. n - l, Match!OccursAt(needle, str, o),
           \A j \in 0 .. o - 1 : Match!OccursAt(needle, str, j) => j + l <= o
    PROVE  o \in Entries(Match!Finds(str, needle))
  <1> DEFINE P == {i \in Nat : Match!OccursAt(needle, str, i)}
  <1>1. PICK from : /\ Match!Finds(str, needle) = from[0]
                    /\ \A k \in 0 .. n : from[k] \in Seq(P) /\ from[k] = Onward(str, needle, from, k)
    BY SearchSteps
  <1> HIDE DEF P
  <1> DEFINE bad == {k \in 0 .. o : o \notin Entries(from[k])}
  <1>2. SUFFICES ASSUME bad # {} PROVE FALSE
    <2>1. 0 \in 0 .. o
      OBVIOUS
    <2> QED
      BY <1>1, <1>2, <2>1
  <1>3. PICK k \in bad : \A j \in bad : j <= k
    <2>1. bad \subseteq 0 .. o /\ o \in Nat
      OBVIOUS
    <2> HIDE DEF bad
    <2>2. IsFiniteSet(0 .. o)
      BY <2>1, FS_Interval
    <2>3. IsFiniteSet(bad)
      BY <2>1, <2>2, FS_Subset
    <2>4. bad \in SUBSET Nat
      BY <2>1
    <2> QED
      BY <1>2, <2>3, <2>4, FiniteBounds
  <1>4. k \in 0 .. o /\ k \in 0 .. n /\ k \in Nat /\ o \notin Entries(from[k])
    OBVIOUS
  <1>5. o \in Places(str, needle, k)
    BY <1>4 DEF Places
  <1>6. PICK i : i = Match!Min(Places(str, needle, k))
    OBVIOUS
  <1>7. i \in Places(str, needle, k) /\ i \in Nat /\ i + l \in k + 1 .. n
    BY <1>4, <1>5, <1>6, NextPlace
  <1>8. i <= o
    <2>1. Places(str, needle, k) \in SUBSET Nat
      BY <1>4 DEF Places
    <2>2. Match!Min(Places(str, needle, k)) = Min(Places(str, needle, k))
      BY Zenon DEF Match!Min, Min
    <2> QED
      BY <1>5, <1>6, <2>1, <2>2, MinOfNats
  <1>9. from[k] = <<i>> \o from[i + l]
    BY <1>1, <1>4, <1>5, <1>6 DEF Onward
  <1>10. i + l \in 0 .. n /\ from[i + l] \in Seq(P) /\ i \in P
    <2>1. i + l \in 0 .. n
      BY <1>4, <1>7
    <2> QED
      BY <1>1, <1>7, <2>1 DEF P, Places
  <1>11. Entries(from[k]) = Entries(<<i>>) \cup Entries(from[i + l])
    <2>1. PICK first \in Seq(P), rest \in Seq(P) : first = <<i>> /\ rest = from[i + l]
      <3>1. <<i>> \in Seq(P)
        BY <1>10
      <3> QED
        BY <1>10, <3>1
    <2>2. Entries(first \o rest) = Entries(first) \cup Entries(rest)
      BY ConcatEntries
    <2> QED
      BY <1>9, <2>1, <2>2
  <1>12. i \in Entries(<<i>>)
    BY DEF Entries
  <1>13. i < o
    BY <1>4, <1>7, <1>8, <1>11, <1>12
  <1>14. i + l <= o
    BY <1>7, <1>13 DEF Places
  <1>15. i + l \in 0 .. o /\ ~(i + l <= k)
    BY <1>4, <1>7, <1>14
  <1>16. o \in Entries(from[i + l])
    BY <1>3, <1>15
  <1> QED
    BY <1>4, <1>11, <1>16

-----------------------------------------------------------------------------
\* What is left of a text without the blanks around it.
LEMMA StripParts ==
    ASSUME NEW t \in Text
    PROVE  \/ Match!Strip(t) = <<>> /\ \A k \in 1 .. Len(t) : t[k] \in Blanks
           \/ \E a \in 1 .. Len(t), b \in 1 .. Len(t) :
                 /\ a <= b /\ t[a] \notin Blanks /\ t[b] \notin Blanks
                 /\ \A k \in 1 .. Len(t) : t[k] \notin Blanks => a <= k /\ k <= b
                 /\ Match!Strip(t) \in Text /\ Len(Match!Strip(t)) = b - a + 1
                 /\ \A k \in 1 .. b - a + 1 : Match!Strip(t)[k] = t[a - 1 + k]
  <1> DEFINE said == {i \in DOMAIN t : t[i] \notin Blanks}
  <1>1. PICK n \in Nat : n = Len(t) /\ DOMAIN t = 1 .. n
    BY TextFields
  <1>2. said \in SUBSET Nat /\ IsFiniteSet(said) /\ said \subseteq 1 .. n
        /\ \A k \in 1 .. n : k \in said <=> t[k] \notin Blanks
    <2>1. said \subseteq 1 .. n /\ \A k \in 1 .. n : k \in said <=> t[k] \notin Blanks
      BY <1>1
    <2> HIDE DEF said
    <2>2. said \in SUBSET Nat
      BY <2>1
    <2>3. IsFiniteSet(1 .. n)
      BY FS_Interval
    <2> QED
      BY <2>1, <2>2, <2>3, FS_Subset
  <1>3. Match!Strip(t) = IF said = {} THEN <<>> ELSE SubSeq(t, Min(said), Max(said))
    <2>1. Match!Strip(t) = IF said = {} THEN <<>> ELSE SubSeq(t, Match!Min(said), Match!Max(said))
      BY Zenon DEF Match!Strip
    <2>2. Match!Min(said) = Min(said) /\ Match!Max(said) = Max(said)
      BY Zenon DEF Match!Min, Min, Match!Max, Max
    <2> QED
      BY <2>1, <2>2
  <1> HIDE DEF said
  <1>4. CASE said = {}
    BY <1>1, <1>2, <1>3, <1>4
  <1>5. CASE said # {}
    <2>1. PICK a \in said, b \in said : a = Min(said) /\ b = Max(said) /\ \A k \in said : a <= k /\ k <= b
      BY <1>2, <1>5, FiniteBounds
    <2>2. a \in 1 .. n /\ b \in 1 .. n /\ a <= b
      BY <1>2, <2>1
    <2>3. PICK i \in Nat : i = a - 1 /\ a = i + 1 /\ i <= b /\ b <= n
      <3>1. a - 1 \in Nat /\ a = a - 1 + 1 /\ a - 1 <= b /\ b <= n
        BY <2>2
      <3> QED
        BY <3>1
    <2>4. Match!Strip(t) = SubSeq(t, i + 1, b)
      BY <1>3, <1>5, <2>1, <2>3
    <2>5. /\ Match!Strip(t) \in Text /\ Len(Match!Strip(t)) = b - i
          /\ \A k \in 1 .. b - i : Match!Strip(t)[k] = t[i + k]
      <3>1. b \in Nat /\ b <= Len(t)
        BY <1>1, <2>2
      <3> QED
        BY <2>3, <2>4, <3>1, PartIsText
    <2>6. b - i = b - a + 1
      BY <2>2, <2>3
    <2>7. t[a] \notin Blanks /\ t[b] \notin Blanks
          /\ \A k \in 1 .. n : t[k] \notin Blanks => a <= k /\ k <= b
      BY <1>2, <2>1, <2>2
    <2>8. Len(Match!Strip(t)) = b - a + 1 /\ \A k \in 1 .. b - a + 1 : Match!Strip(t)[k] = t[a - 1 + k]
      BY <2>3, <2>5, <2>6
    <2> QED
      BY <1>1, <2>2, <2>5, <2>7, <2>8
  <1> QED
    BY <1>4, <1>5

LEMMA StripIsText ==
    ASSUME NEW t \in Text
    PROVE  Match!Strip(t) \in Text
  <1>1. <<>> \in Text
    BY DEF Text
  <1> QED
    BY <1>1, StripParts

\* What stands in a text stands in what is left of it, without its own blanks.
LEMMA StripStands ==
    ASSUME NEW x \in Text, NEW y \in Text, NEW d \in Nat, Match!SameAt(x, y, d), Match!Strip(x) # <<>>
    PROVE  /\ \E e \in Nat : Match!SameAt(Match!Strip(x), Match!Strip(y), e)
           /\ Match!Strip(y) # <<>>
  <1>1. PICK m \in Nat, n \in Nat : /\ m = Len(x) /\ n = Len(y) /\ DOMAIN x = 1 .. m /\ DOMAIN y = 1 .. n
                                    /\ \A k \in 1 .. m : x[k] \in DOMAIN LowerCase
                                    /\ \A k \in 1 .. n : y[k] \in DOMAIN LowerCase
    BY TextFields
  <1>2. d + m <= n /\ \A k \in 1 .. m : LowerCase[y[d + k]] = LowerCase[x[k]]
    BY <1>1 DEF Match!SameAt
  <1>3. PICK a \in 1 .. m, b \in 1 .. m :
            /\ a <= b /\ x[a] \notin Blanks /\ x[b] \notin Blanks
            /\ Match!Strip(x) \in Text /\ Len(Match!Strip(x)) = b - a + 1
            /\ \A k \in 1 .. b - a + 1 : Match!Strip(x)[k] = x[a - 1 + k]
    BY <1>1, StripParts
  <1>4. ASSUME NEW k \in 1 .. m, x[k] \notin Blanks PROVE d + k \in 1 .. n /\ y[d + k] \notin Blanks
    <2>1. d + k \in 1 .. n
      BY <1>2
    <2> QED
      BY <1>1, <1>2, <1>4, <2>1, BlanksStayBlank
  <1>5. d + a \in 1 .. n /\ y[d + a] \notin Blanks /\ d + b \in 1 .. n /\ y[d + b] \notin Blanks
    BY <1>3, <1>4
  <1>6. PICK A \in 1 .. n, B \in 1 .. n :
            /\ A <= B
            /\ \A k \in 1 .. n : y[k] \notin Blanks => A <= k /\ k <= B
            /\ Match!Strip(y) \in Text /\ Len(Match!Strip(y)) = B - A + 1
            /\ \A k \in 1 .. B - A + 1 : Match!Strip(y)[k] = y[A - 1 + k]
    BY <1>1, <1>5, StripParts
  <1>7. A <= d + a /\ d + b <= B
    BY <1>5, <1>6
  <1>8. PICK s \in Text, t \in Text : s = Match!Strip(x) /\ t = Match!Strip(y)
    BY <1>3, <1>6
  <1>9. PICK e \in Nat : e = d + a - A
    <2>1. d + a - A \in Nat
      BY <1>7
    <2> QED
      BY <2>1
  <1>10. e + Len(s) <= Len(t) /\ DOMAIN s = 1 .. b - a + 1
    <2>1. Len(s) = b - a + 1 /\ Len(t) = B - A + 1 /\ DOMAIN s = 1 .. Len(s)
      BY <1>3, <1>6, <1>8, TextFields
    <2> QED
      BY <1>7, <1>9, <2>1
  <1>11. ASSUME NEW k \in 1 .. b - a + 1 PROVE LowerCase[t[e + k]] = LowerCase[s[k]]
    <2>1. a - 1 + k \in 1 .. m /\ e + k \in 1 .. B - A + 1 /\ A - 1 + (e + k) = d + (a - 1 + k)
      BY <1>7, <1>9
    <2>2. s[k] = x[a - 1 + k] /\ t[e + k] = y[A - 1 + (e + k)]
      BY <1>3, <1>6, <1>8, <2>1
    <2> QED
      BY <1>2, <2>1, <2>2
  <1>12. Match!SameAt(s, t, e)
    BY <1>10, <1>11 DEF Match!SameAt
  <1>13. t # <<>>
    <2>1. Len(t) = B - A + 1 /\ Len(t) # 0
      BY <1>6, <1>8
    <2> QED
      BY <2>1
  <1> QED
    BY <1>8, <1>12, <1>13

\* Characters with one in lower case each are not lost in lower case.
LEMMA StraightRemains ==
    ASSUME NEW t \in Text, t # <<>>, \A k \in 1 .. Len(t) : Len(LowerCase[t[k]]) = 1
    PROVE  Match!Lower(t) # <<>>
  <1>1. Match!Straight(t, Len(t)) /\ Len(t) \in Nat /\ Len(t) # 0
    BY TextFields, EmptySeq DEF Match!Straight, Text
  <1>2. Len(Match!Lower(t)) # 0
    BY <1>1, StraightKeyword
  <1> QED
    BY <1>2

LEMMA TextIsPart ==
    ASSUME NEW needle \in Text, NEW t \in Text, Match!HasText(t, needle), needle # <<>>
    PROVE  t # <<>>
  <1>1. PICK o \in 0 .. Len(t) - Len(needle) : TRUE
    BY DEF Match!HasText
  <1>2. Len(t) \in Nat /\ Len(needle) \in Nat /\ Len(needle) # 0
    BY TextFields, EmptySeq DEF Text
  <1>3. Len(t) # 0
    BY <1>1, <1>2
  <1> QED
    BY <1>3

-----------------------------------------------------------------------------
\* What is known of a place where a keyword stands.
LEMMA StandsFields ==
    ASSUME NEW kw \in Text, NEW str \in Text, NEW i \in Match!Stands(kw, str)
    PROVE  /\ i \in Nat /\ Len(kw) \in Nat \ {0} /\ DOMAIN kw = 1 .. Len(kw)
           /\ i + Len(kw) <= Len(str) /\ Len(str) \in Nat
           /\ Match!Strip(kw) # <<>> /\ Match!SameAt(kw, str, i)
           /\ \A k \in 1 .. Len(kw) : LowerCase[str[i + k]] = LowerCase[kw[k]] /\ Len(LowerCase[kw[k]]) = 1
           /\ Match!Straight(str, i) /\ Match!Straight(kw, Len(kw))
           /\ \A j \in 0 .. i - 1 : Match!SameAt(kw, str, j) => j + Len(kw) <= i
  <1>1. Len(kw) \in Nat /\ DOMAIN kw = 1 .. Len(kw) /\ Len(str) \in Nat
    BY TextFields
  <1>2. /\ i \in 0 .. Len(str) /\ Match!StandsAt(kw, str, i)
        /\ Match!Straight(str, i) /\ Match!Straight(kw, Len(kw))
        /\ \A j \in 0 .. i - 1 : Match!StandsAt(kw, str, j) => j + Len(kw) <= i
    BY Zenon DEF Match!Stands
  <1>3. Match!Strip(kw) # <<>> /\ Match!SameAt(kw, str, i)
        /\ \A j \in 0 .. i - 1 : Match!SameAt(kw, str, j) => j + Len(kw) <= i
    BY <1>2 DEF Match!StandsAt
  <1>4. Len(kw) # 0
    <2>1. \E a \in 1 .. Len(kw) : TRUE
      BY <1>3, StripParts
    <2> QED
      BY <1>1, <2>1
  <1>5. /\ i + Len(kw) <= Len(str)
        /\ \A k \in 1 .. Len(kw) : LowerCase[str[i + k]] = LowerCase[kw[k]]
    BY <1>1, <1>3 DEF Match!SameAt
  <1>6. \A k \in 1 .. Len(kw) : Len(LowerCase[kw[k]]) = 1
    BY <1>2 DEF Match!Straight
  <1>7. i \in Nat
    BY <1>1, <1>2
  <1> QED
    BY <1>1, <1>2, <1>3, <1>4, <1>5, <1>6, <1>7

\* A keyword that stands in a text is found there, whatever the patterns meet.
LEMMA KeywordIsFound ==
    ASSUME NEW kw \in Range(Keywords), NEW str \in Text, NEW i \in Match!Stands(kw, str),
           NEW found \in Found(str)
    PROVE  kw \in Text /\ [start |-> i, end |-> i + Len(kw)] \in Entries(found)
  <1>1. PICK q \in DOMAIN Keywords : kw = Keywords[q]
    BY DEF Range
  <1>2. kw \in Text
    BY <1>1, KeywordsAreTexts, LenProperties, ElementOfSeq
  <1>3. PICK n \in Nat \ {0} : n = Len(kw)
    BY <1>2, StandsFields
  <1>4. /\ i \in Nat /\ i + n <= Len(str) /\ Match!Strip(kw) # <<>> /\ Match!SameAt(kw, str, i)
        /\ Match!Straight(str, i) /\ Match!Straight(kw, n)
        /\ \A j \in 0 .. i - 1 : Match!SameAt(kw, str, j) => j + n <= i
    BY <1>2, <1>3, StandsFields
  <1>5. PICK s \in Text, w \in Text : s = Match!Lower(str) /\ w = Match!Lower(kw)
    BY <1>2, LowerIsText
  <1>6. Len(w) = n /\ Len(s) \in Nat /\ i + n <= Len(s)
        /\ \A j \in 0 .. i : Match!OccursAt(w, s, j) <=> Match!SameAt(kw, str, j)
    <2>1. Len(w) = n
      BY <1>2, <1>3, <1>4, <1>5, StraightKeyword
    <2> QED
      BY <1>2, <1>3, <1>4, <1>5, <2>1, SamePlaces, TextFields
  <1>7. i \in Entries(Match!Finds(s, w))
    <2>1. i \in 0 .. Len(s) - n /\ i \in 0 .. i /\ \A j \in 0 .. i - 1 : j \in 0 .. i
      BY <1>4, <1>6
    <2>2. Match!OccursAt(w, s, i) /\ \A j \in 0 .. i - 1 : Match!OccursAt(w, s, j) => j + n <= i
      BY <1>4, <1>6, <2>1
    <2> QED
      BY <1>6, <2>1, <2>2, FindsComplete
  <1>8. [start |-> i, end |-> i + n] \in Entries(MatchesOf(str, kw))
    <2>1. w # <<>>
      BY <1>6
    <2> DEFINE finds == Match!Finds(s, w)
    <2>2. PICK p \in DOMAIN finds : finds[p] = i
      BY <1>7 DEF Entries
    <2>3. MatchesOf(str, kw) = [p_1 \in DOMAIN finds |-> [start |-> finds[p_1], end |-> finds[p_1] + n]]
      BY <1>3, <1>5, <2>1 DEF MatchesOf
    <2> HIDE DEF finds
    <2> QED
      BY <2>2, <2>3 DEF Entries
  <1>9. [start |-> i, end |-> i + n] \in Entries(Match!KeywordMatches(str, Keywords))
    <2>1. ListsOf(str) \in Seq(Seq(Stretch)) /\ q \in DOMAIN ListsOf(str) /\ ListsOf(str)[q] = MatchesOf(str, kw)
      BY <1>1, KeywordLists DEF ListsOf
    <2>2. Entries(MatchesOf(str, kw)) \subseteq Entries(Match!FlattenSeq(ListsOf(str)))
      BY <2>1, FlatHasAll
    <2> QED
      BY <1>8, <2>2, KeywordLists
  <1>10. Match!Strip(str) # <<>>
    BY <1>2, <1>4, StripStands
  <1> DEFINE keywords == Match!KeywordMatches(str, Keywords)
             places == {[start |-> p[1], end |-> p[2]] :
                          p \in {q_1 \in (0 .. Len(str)) \X (0 .. Len(str)) : q_1[1] < q_1[2]}}
  <1>11. PICK l \in 0 .. MaxMatches : \E patterns \in [1 .. l -> places] : found = patterns \o keywords
    BY <1>10, Zenon DEF Found
  <1>14. PICK patterns \in [1 .. l -> places] : found = patterns \o keywords
    BY <1>11
  <1>12. patterns \in Seq(Stretch) /\ keywords \in Seq(Stretch)
    <2>1. places \subseteq Stretch
      <3>1. Len(str) \in Nat
        BY TextFields
      <3> QED
        BY <3>1 DEF Stretch
    <2> HIDE DEF places, keywords
    <2>2. l \in Nat /\ patterns \in [1 .. l -> Stretch]
      BY <2>1
    <2>3. patterns \in Seq(Stretch)
      BY <2>2, SeqDef
    <2> QED
      BY <2>3, KeywordMatchesAreList DEF keywords
  <1> HIDE DEF keywords, places
  <1>13. Entries(found) = Entries(patterns) \cup Entries(keywords)
    BY <1>12, <1>14, ConcatEntries
  <1> QED
    BY <1>2, <1>3, <1>9, <1>13 DEF keywords

\* What stands in a keyword, or a keyword in it, lines up with what matched the
\* keyword, in lower case and without the blanks around either.
LEMMA ConcernedLinesUp ==
    ASSUME NEW kw \in Text, NEW str \in Text, NEW i \in Match!Stands(kw, str),
           NEW word \in Text, Match!Concerns(kw, word),
           NEW part \in Text, Len(part) = Len(kw), \A k \in 1 .. Len(kw) : part[k] = str[i + k]
    PROVE  LET needle == Match!Lower(Match!Strip(part))
               w == Match!Lower(Match!Strip(word))
           IN  needle # <<>> /\ w # <<>> /\ (Match!HasText(needle, w) \/ Match!HasText(w, needle))
  <1>1. PICK n \in Nat, l \in Nat : /\ n = Len(kw) /\ DOMAIN kw = 1 .. n /\ DOMAIN part = 1 .. n
                                    /\ l = Len(word) /\ DOMAIN word = 1 .. l
    BY TextFields
  <1>2. /\ i \in Nat /\ Match!Strip(kw) # <<>>
        /\ \A k \in 1 .. n : LowerCase[part[k]] = LowerCase[kw[k]] /\ Len(LowerCase[kw[k]]) = 1
    <2>1. /\ i \in Nat /\ Match!Strip(kw) # <<>>
          /\ \A k \in 1 .. Len(kw) : /\ LowerCase[str[i + k]] = LowerCase[kw[k]]
                                      /\ Len(LowerCase[kw[k]]) = 1
      BY StandsFields
    <2>2. \A k \in 1 .. Len(kw) : part[k] = str[i + k]
      OBVIOUS
    <2> QED
      BY <1>1, <2>1, <2>2
  <1>3. Match!SameAt(kw, part, 0)
    BY <1>1, <1>2 DEF Match!SameAt
  <1>4. Match!Strip(part) # <<>>
    BY <1>2, <1>3, StripStands
  <1>5. PICK p \in Text, s \in Text : p = Match!Strip(part) /\ s = Match!Strip(word)
    BY StripIsText
  <1>6. ASSUME NEW t \in Text, \A k \in 1 .. Len(t) : Len(LowerCase[t[k]]) = 1, Match!Strip(t) # <<>>
        PROVE  Match!Lower(Match!Strip(t)) # <<>>
    <2>1. PICK a \in 1 .. Len(t), b \in 1 .. Len(t) :
              /\ a <= b /\ Match!Strip(t) \in Text /\ Len(Match!Strip(t)) = b - a + 1
              /\ \A k \in 1 .. b - a + 1 : Match!Strip(t)[k] = t[a - 1 + k]
      BY <1>6, StripParts
    <2>2. Len(t) \in Nat
      BY TextFields
    <2>3. \A k \in 1 .. b - a + 1 : a - 1 + k \in 1 .. Len(t)
      BY <2>1, <2>2
    <2>4. \A k \in 1 .. Len(Match!Strip(t)) : Len(LowerCase[Match!Strip(t)[k]]) = 1
      BY <1>6, <2>1, <2>3
    <2> QED
      BY <1>6, <2>1, <2>4, StraightRemains
  <1>7. Match!Lower(p) # <<>>
    <2>1. \A k \in 1 .. Len(part) : Len(LowerCase[part[k]]) = 1
      BY <1>1, <1>2
    <2> QED
      BY <1>4, <1>5, <1>6, <2>1
  <1>8. CASE \E j \in 0 .. Len(word) : Match!StandsAt(kw, word, j)
    <2>1. PICK j \in Nat : Match!SameAt(kw, word, j)
      BY <1>1, <1>8 DEF Match!StandsAt
    <2>2. Match!SameAt(part, word, j)
      BY <1>1, <1>2, <2>1 DEF Match!SameAt
    <2>3. PICK e \in Nat : Match!SameAt(p, s, e)
      BY <1>4, <1>5, <2>2, StripStands
    <2>4. Match!HasText(Match!Lower(s), Match!Lower(p))
      BY <2>3, SameIsFound
    <2>5. Match!Lower(s) # <<>>
      BY <1>7, <2>4, LowerIsText, TextIsPart
    <2> QED
      BY <1>5, <1>7, <2>4, <2>5
  <1>9. CASE \E j \in 0 .. Len(kw) : Match!StandsAt(word, kw, j)
    <2>1. PICK j \in Nat : Match!SameAt(word, kw, j) /\ s # <<>>
      BY <1>1, <1>5, <1>9 DEF Match!StandsAt
    <2>2. j + l <= n /\ \A k \in 1 .. l : LowerCase[kw[j + k]] = LowerCase[word[k]]
      BY <1>1, <2>1 DEF Match!SameAt
    <2>3. \A k \in 1 .. l : j + k \in 1 .. n
      BY <2>2
    <2>4. Match!SameAt(word, part, j)
      BY <1>1, <1>2, <2>2, <2>3 DEF Match!SameAt
    <2>5. PICK e \in Nat : Match!SameAt(s, p, e)
      BY <1>5, <2>1, <2>4, StripStands
    <2>6. Match!HasText(Match!Lower(p), Match!Lower(s))
      BY <2>5, SameIsFound
    <2>7. \A k \in 1 .. Len(word) : Len(LowerCase[word[k]]) = 1
      BY <1>1, <1>2, <2>2, <2>3
    <2>8. Match!Lower(s) # <<>>
      BY <1>5, <1>6, <2>1, <2>7
    <2> QED
      BY <1>5, <1>7, <2>6, <2>8
  <1> QED
    BY <1>8, <1>9 DEF Match!Concerns

\* A box around another has all of its area.
LEMMA EnclosedArea ==
    ASSUME NEW b \in Box, NEW c \in Box, Regions!Encloses(b, c)
    PROVE  Encloses(b, c)
  <1>1. /\ b.x \in Nat /\ b.y \in Nat /\ b.w \in Nat /\ b.h \in Nat
        /\ c.x \in Nat /\ c.y \in Nat /\ c.w \in Nat /\ c.h \in Nat
    BY BoxFields
  <1>2. ASSUME NEW p \in Nat, NEW q \in Nat, NEW pl \in Nat, NEW ql \in Nat,
               p <= q, q + ql <= p + pl
        PROVE  Max({0, Min({p + pl, q + ql}) - Max({p, q})}) = ql
    <2>1. Min({p + pl, q + ql}) = q + ql
      <3>1. p + pl \in Int /\ q + ql \in Int
        OBVIOUS
      <3>2. Min({p + pl, q + ql}) = IF p + pl <= q + ql THEN p + pl ELSE q + ql
        BY <3>1, MinOfTwo
      <3> QED
        BY <1>2, <3>2
    <2>2. Max({p, q}) = q
      <3>1. Max({p, q}) = IF p >= q THEN p ELSE q
        BY MaxOfTwo
      <3> QED
        BY <1>2, <3>1
    <2>3. Max({0, ql}) = ql
      <3>1. Max({0, ql}) = IF 0 >= ql THEN 0 ELSE ql
        BY MaxOfTwo
      <3> QED
        BY <3>1
    <2>4. q + ql - q = ql
      OBVIOUS
    <2> QED
      BY <2>1, <2>2, <2>3, <2>4
  <1>3. b.x <= c.x /\ b.y <= c.y /\ c.x + c.w <= b.x + b.w /\ c.y + c.h <= b.y + b.h
    BY <1>1 DEF Regions!Encloses
  <1>4. /\ Max({0, Min({b.x + b.w, c.x + c.w}) - Max({b.x, c.x})}) = c.w
        /\ Max({0, Min({b.y + b.h, c.y + c.h}) - Max({b.y, c.y})}) = c.h
    BY <1>1, <1>2, <1>3
  <1>5. Intersection(b, c) = Max({0, Min({b.x + b.w, c.x + c.w}) - Max({b.x, c.x})})
                               * Max({0, Min({b.y + b.h, c.y + c.h}) - Max({b.y, c.y})})
    BY Zenon DEF Intersection
  <1> QED
    BY <1>4, <1>5 DEF Encloses, Area

\* The match of a keyword is placed on a box around every word it concerns.
LEMMA WordIsBoxed ==
    ASSUME NEW kw \in Text, NEW str \in Text, NEW i \in Match!Stands(kw, str),
           NEW read \in Seq([chars : Text, box : Box]), NEW k \in DOMAIN read,
           Match!Concerns(kw, read[k].chars)
    PROVE  LET b == UnionBox(Match!MatchedBoxes(str, [start |-> i, end |-> i + Len(kw)], read))
           IN  b \in Box /\ Encloses(b, read[k].box)
  <1>1. read[k] \in [chars : Text, box : Box]
    BY LenProperties, ElementOfSeq
  <1>2. PICK word \in Text, c \in Box : word = read[k].chars /\ c = read[k].box
    BY <1>1
  <1>3. PICK n \in Nat, m \in Nat : n = Len(kw) /\ m = Len(str) /\ i \in Nat /\ i + n <= m
    BY StandsFields
  <1> DEFINE match == [start |-> i, end |-> i + n]
             part == SubSeq(str, i + 1, i + n)
  <1>4. Match!Matched(str, match) = part
    <2>1. match.start = i /\ match.end = i + n
      OBVIOUS
    <2>2. Match!Min({i + n, m}) = i + n
      BY <1>3, MinOfTwo DEF Match!Min, Min
    <2> QED
      BY <1>3, <2>1, <2>2 DEF Match!Matched
  <1>5. part \in Text /\ Len(part) = n /\ \A j \in 1 .. n : part[j] = str[i + j]
    <2>1. PICK e \in Nat : e = i + n /\ i <= e /\ e <= m /\ e - i = n
      <3>1. i + n \in Nat /\ i <= i + n /\ i + n - i = n
        BY <1>3
      <3> QED
        BY <1>3, <3>1
    <2>2. /\ SubSeq(str, i + 1, e) \in Text /\ Len(SubSeq(str, i + 1, e)) = e - i
          /\ \A j \in 1 .. e - i : SubSeq(str, i + 1, e)[j] = str[i + j]
      BY <1>3, <2>1, PartIsText
    <2> QED
      BY <2>1, <2>2
  <1> HIDE DEF match, part
  <1> DEFINE needle == Match!Lower(Match!Strip(part))
             w == Match!Lower(Match!Strip(word))
  <1>6. needle # <<>> /\ w # <<>> /\ (Match!HasText(needle, w) \/ Match!HasText(w, needle))
    <2>1. /\ Match!Concerns(kw, word) /\ part \in Text /\ Len(part) = Len(kw)
          /\ \A j \in 1 .. Len(kw) : part[j] = str[i + j]
      BY <1>2, <1>3, <1>5
    <2> QED
      BY <2>1, ConcernedLinesUp
  <1> DEFINE B == Match!MatchedBoxes(str, match, read)
             lines(v) == v # <<>> /\ (Match!HasText(needle, v) \/ Match!HasText(v, needle))
  <1>7. B = IF needle = <<>> THEN {}
            ELSE {read[j].box : j \in {j \in DOMAIN read : lines(Match!Lower(Match!Strip(read[j].chars)))}}
    BY <1>4, Zenon DEF Match!MatchedBoxes
  <1>8. c \in B
    BY <1>2, <1>6, <1>7
  <1>9. IsFiniteSet(B) /\ B \in SUBSET Box
    BY MatchedBoxesTyped
  <1> HIDE DEF B
  <1>10. UnionBox(B) \in Box /\ Regions!Encloses(UnionBox(B), c)
    BY <1>8, <1>9, UnionIsLeast
  <1> QED
    BY <1>2, <1>3, <1>10, EnclosedArea DEF B, match

-----------------------------------------------------------------------------
OfFrames == {"haar", "lbp", "ocr", "mser"}

\* What the running detector is in the middle of.
BookInv ==
    /\ media \in Medias /\ policy \in Policies
    /\ types \in Seq(PiiTypes \X BOOLEAN) /\ queue \in Seq(Detectors)
    /\ outcome \in {"running", "returned", "raised"} /\ busy \in BOOLEAN
    /\ frame \in 0 .. Len(media.frames)
    /\ frame # 0 => queue # <<>> /\ Head(queue) \in OfFrames
    /\ busy => /\ queue # <<>>
               /\ \/ Head(queue) = "mser" /\ frame < Len(media.frames)
                  \/ Head(queue) \in {"vad", "whisper"} /\ media.audio
    /\ outcome = "returned" => queue = <<>> /\ types = <<>>

LEMMA FramesCounted ==
    ASSUME media \in Medias
    PROVE  /\ Len(media.frames) \in Nat
           /\ \A i \in 1 .. Len(media.frames) : media.frames[i] \in Frame
           /\ DOMAIN media.frames = 1 .. Len(media.frames)
  <1>1. media.frames \in Seq(Frame)
    BY MediaFields
  <1> QED
    BY <1>1, LenProperties, ElementOfSeq

LEMMA ThisTyped ==
    ASSUME BookInv, frame < Len(media.frames)
    PROVE  /\ frame \in Nat /\ frame + 1 \in 1 .. Len(media.frames) /\ frame + 1 \in 0 .. Len(media.frames)
           /\ This \in Frame
  <1>1. media \in Medias /\ frame \in 0 .. Len(media.frames)
    BY DEF BookInv
  <1>2. Len(media.frames) \in Nat
    BY <1>1, FramesCounted
  <1>3. /\ frame \in Nat /\ frame + 1 \in 1 .. Len(media.frames) /\ frame + 1 \in 0 .. Len(media.frames)
    BY <1>1, <1>2
  <1> QED
    BY <1>1, <1>3, FramesCounted DEF This

LEMMA BookKeeps ==
    ASSUME BookInv, [Next]_vars
    PROVE  BookInv'
  <1> USE DEF Running, Runs, NextType
  <1>1. /\ media \in Medias /\ policy \in Policies
        /\ types \in Seq(PiiTypes \X BOOLEAN) /\ queue \in Seq(Detectors)
        /\ outcome \in {"running", "returned", "raised"} /\ busy \in BOOLEAN
        /\ frame \in 0 .. Len(media.frames) /\ Len(media.frames) \in Nat
    BY FramesCounted DEF BookInv
  <1>2. types # <<>> => Head(types) \in PiiTypes \X BOOLEAN /\ Tail(types) \in Seq(PiiTypes \X BOOLEAN)
    BY <1>1, HeadTailProperties
  <1>3. queue # <<>> => Head(queue) \in Detectors /\ Tail(queue) \in Seq(Detectors)
    BY <1>1, HeadTailProperties
  <1>4. CASE SkipType \/ NoDetector \/ Return
    <2>1. CASE SkipType
      BY <1>1, <1>2, <2>1 DEF SkipType, BookInv
    <2>2. CASE NoDetector
      BY <1>1, <2>2 DEF NoDetector, BookInv
    <2>3. CASE Return
      BY <1>1, <2>3 DEF Return, BookInv
    <2> QED
      BY <1>4, <2>1, <2>2, <2>3
  <1>5. CASE OpenType
    <2>1. Registered[Head(types)[1]] \in Seq(Detectors)
      BY <1>2, <1>5, RegisteredAreDetectors DEF OpenType
    <2>2. frame = 0 /\ ~busy
      BY <1>5 DEF OpenType, BookInv
    <2> QED
      BY <1>1, <1>2, <1>5, <2>1, <2>2 DEF OpenType, BookInv
  <1>6. CASE DetectorRaises
    BY <1>1, <1>6 DEF DetectorRaises, BookInv
  <1>7. CASE FaceFrame \/ OcrFrame
    <2>1. /\ Head(queue) \in OfFrames /\ queue # <<>> /\ frame < Len(media.frames) /\ frame' = frame + 1
          /\ outcome = "running" /\ UNCHANGED <<media, policy, types, outcome, queue, busy>>
          /\ Head(queue) # "mser" /\ Head(queue) \notin {"vad", "whisper"}
      BY <1>7 DEF FaceFrame, OcrFrame, ReportFrame, OfFrames
    <2>2. ~busy
      BY <2>1 DEF BookInv
    <2> QED
      BY <1>1, <2>1, <2>2, ThisTyped DEF BookInv
  <1>8. CASE MserLoad \/ MserStep
    <2>1. /\ Head(queue) = "mser" /\ queue # <<>> /\ busy' = TRUE
          /\ outcome = "running" /\ UNCHANGED <<media, policy, types, outcome, queue, frame>>
      BY <1>1, <1>8 DEF MserLoad, MserStep
    <2>2. frame < Len(media.frames)
      BY <1>8, <2>1 DEF MserLoad, MserStep, BookInv
    <2> QED
      BY <1>1, <2>1, <2>2 DEF BookInv
  <1>9. CASE MserFrame
    <2>1. /\ Head(queue) = "mser" /\ queue # <<>> /\ busy /\ busy' = FALSE /\ frame' = frame + 1
          /\ outcome = "running" /\ UNCHANGED <<media, policy, types, outcome, queue>>
      BY <1>9 DEF MserFrame, ReportFrame
    <2>2. frame < Len(media.frames)
      BY <2>1 DEF BookInv
    <2> QED
      BY <1>1, <2>1, <2>2, ThisTyped DEF BookInv, OfFrames
  <1>10. CASE FramesDone
    BY <1>1, <1>3, <1>10 DEF FramesDone, BookInv
  <1>11. CASE NoAudio \/ VadDone \/ WhisperDone
    <2>1. /\ Head(queue) \in {"vad", "whisper"} /\ queue # <<>> /\ queue' = Tail(queue)
          /\ outcome = "running" /\ UNCHANGED <<media, policy, types, outcome, frame>>
          /\ (busy' = busy /\ ~media.audio) \/ busy' = FALSE
      BY <1>11 DEF NoAudio, VadDone, WhisperDone
    <2>2. frame = 0 /\ (busy => media.audio)
      BY <2>1 DEF BookInv, OfFrames
    <2>3. busy' = FALSE
      BY <1>1, <2>1, <2>2
    <2> QED
      BY <1>1, <1>3, <2>1, <2>2, <2>3 DEF BookInv
  <1>12. CASE VadLoad \/ VadStep \/ WhisperLoad \/ WhisperStep
    <2>1. /\ Head(queue) \in {"vad", "whisper"} /\ queue # <<>> /\ busy' = TRUE
          /\ outcome = "running" /\ UNCHANGED <<media, policy, types, outcome, queue, frame>>
          /\ busy \/ media.audio
      BY <1>1, <1>12 DEF VadLoad, VadStep, WhisperLoad, WhisperStep
    <2>2. media.audio
      BY <2>1 DEF BookInv
    <2> QED
      BY <1>1, <2>1, <2>2 DEF BookInv
  <1>13. CASE UNCHANGED vars
    BY <1>13 DEF vars, BookInv
  <1> QED
    BY <1>4, <1>5, <1>6, <1>7, <1>8, <1>9, <1>10, <1>11, <1>12, <1>13 DEF Next

-----------------------------------------------------------------------------
LEMMA ReportTyped ==
    ASSUME results \in Seq(Detection), NEW n \in Nat, NEW found, Report(found),
           DOMAIN found = 1 .. n, found = [i \in 1 .. n |-> found[i]],
           \A i \in 1 .. n : found[i] \in Detection
    PROVE  results' \in Seq(Detection) /\ Entries(results') = Entries(results) \cup Entries(found)
  <1>1. found \in Seq(Detection)
    <2>1. found \in [1 .. n -> Detection]
      OBVIOUS
    <2> QED
      BY <2>1, SeqDef
  <1>2. results' = results \o found
    BY DEF Report
  <1>3. \A a, b \in Seq(Detection) :
            a \o b \in Seq(Detection) /\ Entries(a \o b) = Entries(a) \cup Entries(b)
    BY Zenon, ConcatEntries
  <1> QED
    BY <1>1, <1>2, <1>3

\* A list of boxes is reported as detections of the frame.
LEMMA FrameReportTyped ==
    ASSUME BookInv, frame < Len(media.frames), queue # <<>>, results \in Seq(Detection),
           NEW type \in PiiTypes, NEW boxes \in Seq(Box \cup {NoBox}), ReportFrame(type, boxes)
    PROVE  /\ results' \in Seq(Detection) /\ Entries(results) \subseteq Entries(results')
           /\ \A i \in DOMAIN boxes :
                 Detected(type, This.time, This.time, boxes[i]) \in Entries(results')
  <1> DEFINE found == [i \in DOMAIN boxes |-> Detected(type, This.time, This.time, boxes[i])]
  <1>1. Report(found)
    BY DEF ReportFrame
  <1>2. PICK n \in Nat : DOMAIN boxes = 1 .. n /\ \A i \in 1 .. n : boxes[i] \in Box \cup {NoBox}
    BY LenProperties, ElementOfSeq
  <1>3. Head(queue) \in Detectors
    BY HeadTailProperties DEF BookInv
  <1>4. This.time \in Nat
    BY ThisTyped DEF Frame
  <1>5. \A i \in 1 .. n : found[i] \in Detection
    BY <1>2, <1>3, <1>4 DEF Detected, Detection
  <1>6. found = [i \in 1 .. n |-> found[i]] /\ DOMAIN found = 1 .. n
    BY <1>2
  <1>7. \A i \in DOMAIN boxes :
            i \in DOMAIN found /\ found[i] = Detected(type, This.time, This.time, boxes[i])
    OBVIOUS
  <1> HIDE DEF found
  <1>8. results' \in Seq(Detection) /\ Entries(results') = Entries(results) \cup Entries(found)
    BY <1>1, <1>5, <1>6, ReportTyped
  <1> QED
    BY <1>7, <1>8 DEF Entries

\* Each interval of speech is reported.
LEMMA VadReports ==
    ASSUME BookInv, SpeechInv, results \in Seq(Detection), VadDone
    PROVE  /\ results' \in Seq(Detection) /\ Entries(results) \subseteq Entries(results')
           /\ \A i \in DOMAIN intervals :
                 Detected("audio", intervals[i][1], intervals[i][2], NoBox) \in Entries(results')
  <1> DEFINE found == [i \in DOMAIN intervals |->
                          Detected("audio", intervals[i][1], intervals[i][2], NoBox)]
  <1>1. Report(found) /\ queue # <<>> /\ "audio" \in PiiTypes
    BY TypesAreKnown DEF VadDone, Runs
  <1>2. PICK n \in Nat : DOMAIN intervals = 1 .. n /\ \A i \in 1 .. n : intervals[i] \in Nat \X Nat
    BY SpeechTyped DEF SpeechInv
  <1>3. Head(queue) \in Detectors
    BY <1>1, HeadTailProperties DEF BookInv
  <1>4. \A i \in 1 .. n : found[i] \in Detection
    BY <1>1, <1>2, <1>3 DEF Detected, Detection
  <1>5. found = [i \in 1 .. n |-> found[i]] /\ DOMAIN found = 1 .. n
    BY <1>2
  <1>6. \A i \in DOMAIN intervals :
            i \in DOMAIN found /\ found[i] = Detected("audio", intervals[i][1], intervals[i][2], NoBox)
    OBVIOUS
  <1> HIDE DEF found
  <1>7. results' \in Seq(Detection) /\ Entries(results') = Entries(results) \cup Entries(found)
    BY <1>1, <1>4, <1>5, ReportTyped
  <1> QED
    BY <1>6, <1>7 DEF Entries

\* Each match in the text of the frame is reported with the box it is placed on.
LEMMA OcrReports ==
    ASSUME BookInv, results \in Seq(Detection), OcrFrame
    PROVE  /\ results' \in Seq(Detection) /\ Entries(results) \subseteq Entries(results')
           /\ \E found \in Found(This.text) : \A m \in Entries(found) :
                 Detected("text", This.time, This.time,
                          UnionBox(Match!MatchedBoxes(This.text, m, This.read))) \in Entries(results')
  <1>1. PICK found \in Found(This.text) :
            ReportFrame("text", [i \in DOMAIN found |->
                                    UnionBox(Match!MatchedBoxes(This.text, found[i], This.read))])
    BY DEF OcrFrame
  <1>2. frame < Len(media.frames) /\ queue # <<>> /\ "text" \in PiiTypes
    BY TypesAreKnown DEF OcrFrame, Runs
  <1>3. This.text \in Text /\ This.read \in Seq([chars : Text, box : Box])
    BY <1>2, ThisTyped DEF Frame
  <1>4. PICK n \in Nat : DOMAIN found = 1 .. n
    BY <1>3, FoundIsList, LenProperties
  <1> DEFINE boxes == [i \in DOMAIN found |->
                          UnionBox(Match!MatchedBoxes(This.text, found[i], This.read))]
  <1>5. boxes \in [1 .. n -> Box \cup {NoBox}]
    BY <1>3, <1>4, MatchedBoxTyped
  <1>6. boxes \in Seq(Box \cup {NoBox}) /\ DOMAIN boxes = DOMAIN found
    BY <1>5, SeqDef
  <1>7. \A i \in DOMAIN found :
            boxes[i] = UnionBox(Match!MatchedBoxes(This.text, found[i], This.read))
    OBVIOUS
  <1> HIDE DEF boxes
  <1>8. /\ results' \in Seq(Detection) /\ Entries(results) \subseteq Entries(results')
        /\ \A i \in DOMAIN found : Detected("text", This.time, This.time, boxes[i]) \in Entries(results')
    BY <1>1, <1>2, <1>6, FrameReportTyped DEF boxes
  <1> QED
    BY <1>7, <1>8 DEF Entries

LEMMA TranscribedIsText ==
    ASSUME WordsInv
    PROVE  Transcribed \in Text /\ Len(Transcribed) = Len(text)
  <1>1. PICK n \in Nat : DOMAIN text = 1 .. n /\ n = Len(text) /\ \A k \in 1 .. n : text[k] \in Letter
    BY WordsTyped DEF WordsInv
  <1>2. Transcribed \in [1 .. n -> DOMAIN LowerCase]
    BY <1>1 DEF Transcribed, Letter
  <1>3. Transcribed \in Seq(DOMAIN LowerCase) /\ Len(Transcribed) = n
    BY <1>2, SeqDef
  <1> QED
    BY <1>1, <1>3 DEF Text

\* Each match in the transcript is reported with its time, if it has one.
LEMMA WhisperReports ==
    ASSUME BookInv, WordsInv, results \in Seq(Detection), WhisperDone
    PROVE  /\ results' \in Seq(Detection) /\ Entries(results) \subseteq Entries(results')
           /\ \E found \in Found(Transcribed) : \A m \in Entries(found) :
                 LET t == Words!TimeRange(m.start, m.end)
                 IN  t # NoTime => Detected("audio", t.start, t.end, NoBox) \in Entries(results')
  <1>1. PICK found \in Found(Transcribed) :
            LET time(i) == Words!TimeRange(found[i].start, found[i].end)
                told == {i \in DOMAIN found : time(i) # NoTime}
                order == InOrder(told, {p \in told \X told : p[1] < p[2]})
            IN  Report([k \in DOMAIN order |->
                           Detected("audio", time(order[k]).start, time(order[k]).end, NoBox)])
    BY DEF WhisperDone
  <1> DEFINE time(i) == Words!TimeRange(found[i].start, found[i].end)
             told == {i \in DOMAIN found : time(i) # NoTime}
             before == {p \in told \X told : p[1] < p[2]}
             order == InOrder(told, before)
             report == [k \in DOMAIN order |->
                           Detected("audio", time(order[k]).start, time(order[k]).end, NoBox)]
  <1>2. Report(report)
    BY <1>1
  <1>3. PICK n \in Nat : DOMAIN found = 1 .. n
    BY TranscribedIsText, FoundIsList, LenProperties
  <1>4. told \in SUBSET Nat /\ IsFiniteSet(told)
    <2>1. told \subseteq 1 .. n
      BY <1>3
    <2>2. IsFiniteSet(1 .. n)
      BY FS_Interval
    <2> HIDE DEF told
    <2>3. IsFiniteSet(told)
      BY <2>1, <2>2, FS_Subset
    <2> QED
      BY <2>1, <2>3
  <1>5. \A i \in told : time(i) \in Stretch
    BY TimeRangeTyped
  <1>6. \A i \in DOMAIN found : time(i) # NoTime => i \in told
    OBVIOUS
  <1> HIDE DEF told, time
  <1>7. /\ \A i \in told : \E k \in DOMAIN order : order[k] = i
        /\ \E m \in Nat : DOMAIN order = 1 .. m /\ \A k \in 1 .. m : order[k] \in told
    BY <1>4, IncreasingLists
  <1> HIDE DEF before, order
  <1>8. PICK m \in Nat : DOMAIN order = 1 .. m /\ \A k \in 1 .. m : order[k] \in told
    BY <1>7
  <1>9. \A i \in told : \E k \in 1 .. m : order[k] = i
    BY <1>7, <1>8
  <1>10. Head(queue) \in Detectors /\ "audio" \in PiiTypes
    BY HeadTailProperties, TypesAreKnown DEF WhisperDone, Runs, BookInv
  <1>11. \A k \in 1 .. m : report[k] \in Detection
    BY <1>5, <1>8, <1>10 DEF Detected, Detection, Stretch
  <1>12. report = [k \in 1 .. m |-> report[k]] /\ DOMAIN report = 1 .. m
    BY <1>8
  <1>13. \A k \in 1 .. m :
            report[k] = Detected("audio", time(order[k]).start, time(order[k]).end, NoBox)
    BY <1>8
  <1> HIDE DEF report
  <1>14. results' \in Seq(Detection) /\ Entries(results') = Entries(results) \cup Entries(report)
    BY <1>2, <1>11, <1>12, ReportTyped
  <1>15. ASSUME NEW i \in DOMAIN found, time(i) # NoTime
         PROVE  Detected("audio", time(i).start, time(i).end, NoBox) \in Entries(results')
    <2>1. PICK k \in 1 .. m : order[k] = i
      BY <1>6, <1>9, <1>15
    <2> QED
      BY <1>12, <1>13, <1>14, <2>1 DEF Entries
  <1>16. \A w \in Entries(found) :
            LET t == Words!TimeRange(w.start, w.end)
            IN  t # NoTime => Detected("audio", t.start, t.end, NoBox) \in Entries(results')
    BY <1>15 DEF time, Entries
  <1> QED
    BY <1>14, <1>16

LEMMA ResultsTyped ==
    ASSUME BookInv, RegionsInv, SpeechInv, WordsInv, results \in Seq(Detection), [Next]_vars
    PROVE  /\ results' \in Seq(Detection)
           /\ outcome' = "raised" \/ Entries(results) \subseteq Entries(results')
  <1> USE DEF Running, Runs, NextType
  <1>1. {"face", "text", "audio"} \subseteq PiiTypes
    BY TypesAreKnown
  <1>2. media \in Medias
    BY DEF BookInv
  <1>3. CASE FaceFrame
    <2>1. /\ frame < Len(media.frames) /\ queue # <<>> /\ Head(queue) \in {"haar", "lbp"}
          /\ ReportFrame("face", This.faces[Head(queue)])
      BY <1>3 DEF FaceFrame
    <2>2. This \in Frame
      BY <2>1, ThisTyped
    <2>3. This.faces[Head(queue)] \in Seq(Box)
      BY <2>1, <2>2 DEF Frame
    <2>4. This.faces[Head(queue)] \in Seq(Box \cup {NoBox})
      BY <2>3
    <2> QED
      BY <1>1, <2>1, <2>4, FrameReportTyped
  <1>4. CASE OcrFrame
    BY <1>4, OcrReports
  <1>5. CASE MserFrame
    <2>1. /\ queue # <<>> /\ Head(queue) = "mser" /\ busy /\ ReportFrame("text", current)
      BY <1>5 DEF MserFrame
    <2>2. frame < Len(media.frames)
      BY <2>1 DEF BookInv
    <2>3. current \in Seq(Box)
      BY RegionsTyped DEF RegionsInv
    <2>4. current \in Seq(Box \cup {NoBox})
      BY <2>3
    <2> QED
      BY <1>1, <2>1, <2>2, <2>4, FrameReportTyped
  <1>6. CASE VadDone
    BY <1>6, VadReports
  <1>7. CASE WhisperDone
    BY <1>7, WhisperReports
  <1>8. CASE NoDetector \/ DetectorRaises
    <2>1. results' = <<>> /\ outcome' = "raised"
      BY <1>8 DEF NoDetector, DetectorRaises
    <2> QED
      BY <2>1
  <1>9. CASE UNCHANGED results
    BY <1>9
  <1>10. CASE SkipType \/ OpenType \/ Return \/ MserLoad \/ MserStep \/ FramesDone \/ NoAudio
    BY <1>9, <1>10 DEF SkipType, OpenType, Return, MserLoad, MserStep, FramesDone, NoAudio
  <1>11. CASE VadLoad \/ VadStep \/ WhisperLoad \/ WhisperStep
    BY <1>9, <1>11 DEF VadLoad, VadStep, WhisperLoad, WhisperStep
  <1>12. CASE UNCHANGED vars
    BY <1>9, <1>12 DEF vars
  <1> QED
    BY <1>3, <1>4, <1>5, <1>6, <1>7, <1>8, <1>10, <1>11, <1>12 DEF Next

-----------------------------------------------------------------------------
\* Two boxes that are not empty have a point in common.
Meets(a, b) ==
    /\ a.w > 0 /\ a.h > 0 /\ b.w > 0 /\ b.h > 0
    /\ a.x < b.x + b.w /\ b.x < a.x + a.w
    /\ a.y < b.y + b.h /\ b.y < a.y + a.h

LEMMA SharedSide ==
    ASSUME NEW p \in Nat, NEW q \in Nat, NEW pl \in Nat, NEW ql \in Nat
    PROVE  LET s == Max({0, Min({p + pl, q + ql}) - Max({p, q})})
           IN  s \in Nat /\ (s > 0 <=> pl > 0 /\ ql > 0 /\ p < q + ql /\ q < p + pl)
  <1>1. PICK lo \in Nat, hi \in Nat :
            /\ hi = Min({p + pl, q + ql}) /\ lo = Max({p, q})
            /\ hi = (IF p + pl <= q + ql THEN p + pl ELSE q + ql) /\ lo = (IF p >= q THEN p ELSE q)
    <2>1. Min({p + pl, q + ql}) = IF p + pl <= q + ql THEN p + pl ELSE q + ql
      BY MinOfTwo
    <2>2. Max({p, q}) = IF p >= q THEN p ELSE q
      BY MaxOfTwo
    <2> QED
      BY <2>1, <2>2
  <1>2. Max({0, hi - lo}) = IF 0 >= hi - lo THEN 0 ELSE hi - lo
    BY MaxOfTwo
  <1>3. PICK s \in Nat : s = Max({0, hi - lo}) /\ s = (IF 0 >= hi - lo THEN 0 ELSE hi - lo)
    BY <1>2
  <1>4. s > 0 <=> pl > 0 /\ ql > 0 /\ p < q + ql /\ q < p + pl
    <2>1. hi = (IF p + pl <= q + ql THEN p + pl ELSE q + ql) /\ lo = (IF p >= q THEN p ELSE q)
      BY <1>1
    <2>2. s = (IF 0 >= hi - lo THEN 0 ELSE hi - lo)
      BY <1>3
    <2> QED
      BY ONLY <2>1, <2>2, p \in Nat, q \in Nat, pl \in Nat, ql \in Nat, hi \in Nat, lo \in Nat
  <1> QED
    BY <1>1, <1>3, <1>4

\* Two boxes share an area just when they meet.
LEMMA SharedArea ==
    ASSUME NEW a \in Box, NEW b \in Box
    PROVE  /\ Regions!Intersection(a, b) = Intersection(a, b)
           /\ Intersection(a, b) \in Nat
           /\ Intersection(a, b) > 0 <=> Meets(a, b)
  <1> DEFINE side(p, q, pl, ql) == Max({0, Min({p + pl, q + ql}) - Max({p, q})})
  <1>1. Regions!Intersection(a, b) = Intersection(a, b)
    BY Zenon DEF Regions!Intersection, Intersection, Regions!Max, Max, Regions!Min, Min
  <1>2. Intersection(a, b) = side(a.x, b.x, a.w, b.w) * side(a.y, b.y, a.h, b.h)
    BY Zenon DEF Intersection
  <1>3. /\ a.x \in Nat /\ a.y \in Nat /\ a.w \in Nat /\ a.h \in Nat
        /\ b.x \in Nat /\ b.y \in Nat /\ b.w \in Nat /\ b.h \in Nat
    BY BoxFields
  <1>4. PICK m \in Nat : /\ m = side(a.x, b.x, a.w, b.w)
                         /\ m > 0 <=> a.w > 0 /\ b.w > 0 /\ a.x < b.x + b.w /\ b.x < a.x + a.w
    <2>1. PICK p \in Nat, q \in Nat, pl \in Nat, ql \in Nat :
              p = a.x /\ q = b.x /\ pl = a.w /\ ql = b.w
      BY <1>3
    <2>2. side(p, q, pl, ql) \in Nat
      BY SharedSide
    <2>3. side(p, q, pl, ql) > 0 <=> pl > 0 /\ ql > 0 /\ p < q + ql /\ q < p + pl
      BY SharedSide
    <2> HIDE DEF side
    <2> QED
      BY <2>1, <2>2, <2>3
  <1>5. PICK n \in Nat : /\ n = side(a.y, b.y, a.h, b.h)
                         /\ n > 0 <=> a.h > 0 /\ b.h > 0 /\ a.y < b.y + b.h /\ b.y < a.y + a.h
    <2>1. PICK p \in Nat, q \in Nat, pl \in Nat, ql \in Nat :
              p = a.y /\ q = b.y /\ pl = a.h /\ ql = b.h
      BY <1>3
    <2>2. side(p, q, pl, ql) \in Nat
      BY SharedSide
    <2>3. side(p, q, pl, ql) > 0 <=> pl > 0 /\ ql > 0 /\ p < q + ql /\ q < p + pl
      BY SharedSide
    <2> HIDE DEF side
    <2> QED
      BY <2>1, <2>2, <2>3
  <1> HIDE DEF side
  <1>6. m * n \in Nat /\ (m * n > 0 <=> m > 0 /\ n > 0)
    <2>1. m = 0 \/ n = 0 => m * n = 0
      OBVIOUS
    <2>2. ASSUME m > 0, n > 0 PROVE m * n > 0
      <3>1. PICK k \in Nat : n = k + 1
        <4>1. n - 1 \in Nat /\ n = n - 1 + 1
          BY <2>2
        <4> QED
          BY <4>1
      <3>2. m * n = m * k + m /\ m * k \in Nat
        BY <3>1
      <3> QED
        BY <2>2, <3>2
    <2> QED
      BY <2>1, <2>2
  <1> QED
    BY <1>1, <1>2, <1>4, <1>5, <1>6 DEF Meets

\* A line around a box meets what the box meets, and a plausible box itself.
LEMMA MeetingIsKept ==
    /\ \A a, b, c \in Box : Regions!Encloses(a, b) /\ Meets(b, c) => Meets(a, c)
    /\ \A b \in Box : Regions!Plausible(b) => Meets(b, b)
    /\ \A a, b \in Box : Regions!Similar(a, b) => Meets(b, a)
  <1>1. ASSUME NEW a \in Box, NEW b \in Box, NEW c \in Box, Regions!Encloses(a, b), Meets(b, c)
        PROVE  Meets(a, c)
    BY <1>1, BoxFields DEF Regions!Encloses, Meets
  <1>2. ASSUME NEW b \in Box, Regions!Plausible(b) PROVE Meets(b, b)
    <2>1. b.h > 0 /\ b.h <= 10 * b.w
      BY <1>2 DEF Regions!Plausible
    <2> QED
      BY <2>1, BoxFields DEF Meets
  <1>3. ASSUME NEW a \in Box, NEW b \in Box, Regions!Similar(a, b) PROVE Meets(b, a)
    <2>1. Regions!Intersection(a, b) > 0
      BY <1>3 DEF Regions!Similar
    <2>2. Meets(a, b)
      BY <2>1, SharedArea
    <2> QED
      BY <2>2 DEF Meets
  <1> QED
    BY <1>1, <1>2, <1>3

-----------------------------------------------------------------------------
\* What is reported already, of a frame and of the track, and what a detector
\* that is through has reported.
Reports(type, det, start, end, box) ==
    [type |-> type, det |-> det, start |-> start, end |-> end, box |-> box] \in Entries(results)

FaceReported(det, f) ==
    \A k \in DOMAIN f.faces[det] : Reports("face", det, f.time, f.time, f.faces[det][k])

Met(blob, time) == \E line \in Box : Meets(line, blob) /\ Reports("text", "mser", time, time, line)

BlobsMet(f) == \A k \in DOMAIN f.blobs : Regions!Plausible(f.blobs[k]) => Met(f.blobs[k], f.time)

KeywordsBoxed(f) ==
    \A kw \in Range(Keywords) : Match!Stands(kw, f.text) # {} =>
        \A k \in DOMAIN f.read : Match!Concerns(kw, f.read[k].chars) =>
            \E b \in Box : Encloses(b, f.read[k].box) /\ Reports("text", "ocr", f.time, f.time, b)

FrameCovered(det, f) ==
    /\ det \in {"haar", "lbp"} => FaceReported(det, f)
    /\ det = "mser" => BlobsMet(f)
    /\ det = "ocr" => KeywordsBoxed(f)

TrackCovered ==
    /\ loud = media.track
    /\ \A t \in Long : Reports("audio", "vad", t[1] * FrameMs, t[2] * FrameMs, NoBox)

Through(det) ==
    /\ \A i \in DOMAIN media.frames : FrameCovered(det, media.frames[i])
    /\ det = "vad" /\ media.audio => TrackCovered

Opened(type) == \A det \in Entries(Registered[type]) : Through(det) \/ det \in Entries(queue)

\* A blob of the frame MSER is at is among the boxes to suppress, then it meets
\* one that outlived the suppression.
Seen(blob) ==
    /\ stage = "suppress" => blob \in Entries(current)
    /\ stage \in {"merge", "done"} => \E b \in Entries(kept) : Meets(b, blob)

MserInv ==
    /\ stage \in {"suppress", "merge", "done"}
    /\ \A k \in DOMAIN This.blobs : Regions!Plausible(This.blobs[k]) => Seen(This.blobs[k])
    /\ stage = "done" => result = <<>> /\ handled = 0

\* Each enabled type is yet to come or opened, and the detectors of an opened
\* type are through or queue; the first of them has covered the frames behind it.
ReportInv ==
    outcome # "raised" =>
        /\ \A type \in PiiTypes : <<type, TRUE>> \in Entries(policy) =>
              <<type, TRUE>> \in Entries(types) \/ Opened(type)
        /\ queue # <<>> => \A i \in 1 .. frame : FrameCovered(Head(queue), media.frames[i])
        /\ busy /\ Head(queue) = "mser" => MserInv
        /\ busy /\ Head(queue) = "vad" => loud = media.track /\ speech \in {"loop", "done"}

\* What is reported remains so.
LEMMA CoverGrows ==
    ASSUME Entries(results) \subseteq Entries(results'), media' = media,
           loud' = loud \/ loud' = media.track
    PROVE  /\ \A det, f : FrameCovered(det, f) => FrameCovered(det, f)'
           /\ \A det : Through(det) => Through(det)'
  <1>1. \A type, det, start, end, box :
            Reports(type, det, start, end, box) => Reports(type, det, start, end, box)'
    BY DEF Reports
  <1>2. ASSUME NEW det, NEW f, FrameCovered(det, f) PROVE FrameCovered(det, f)'
    <2>1. FaceReported(det, f) => FaceReported(det, f)'
      BY <1>1 DEF FaceReported
    <2>2. \A blob, time : Met(blob, time) => Met(blob, time)'
      BY <1>1 DEF Met
    <2>3. BlobsMet(f) => BlobsMet(f)'
      BY <2>2 DEF BlobsMet
    <2>4. KeywordsBoxed(f) => KeywordsBoxed(f)'
      BY <1>1 DEF KeywordsBoxed
    <2> QED
      BY <1>2, <2>1, <2>3, <2>4 DEF FrameCovered
  <1>3. ASSUME TrackCovered PROVE TrackCovered'
    <2>1. loud = media.track /\ loud' = loud
      BY <1>3 DEF TrackCovered
    <2>2. Long' = Long
      BY <2>1 DEF Long, Speech!Stretches
    <2> QED
      BY <1>1, <1>3, <2>1, <2>2 DEF TrackCovered
  <1>4. ASSUME NEW det, Through(det) PROVE Through(det)'
    <2>1. ASSUME NEW i \in DOMAIN media.frames PROVE FrameCovered(det, media.frames[i])'
      <3>1. PICK f : f = media.frames[i]
        OBVIOUS
      <3>2. FrameCovered(det, f)'
        BY <1>2, <1>4, <3>1 DEF Through
      <3>3. media'.frames[i] = f
        BY <3>1
      <3> QED
        BY <3>2, <3>3
    <2>2. det = "vad" /\ media'.audio => TrackCovered'
      BY <1>3, <1>4 DEF Through
    <2> QED
      BY <2>1, <2>2 DEF Through
  <1> QED
    BY <1>2, <1>4

\* In each of its steps, MSER keeps sight of a blob.
LEMMA SeenKeeps ==
    ASSUME RegionsInv, Regions!Next, stage \in {"suppress", "merge", "done"}
    PROVE  /\ stage' \in {"suppress", "merge", "done"}
           /\ \A blob \in Box : Regions!Plausible(blob) /\ Seen(blob) => Seen(blob)'
           /\ stage' = "done" => result' = <<>> /\ handled' = 0
  <1>1. CASE Regions!Keep \/ Regions!Suppress
    <2>1. stage = "suppress" /\ stage' = "suppress" /\ current' = current
      BY <1>1 DEF Regions!Keep, Regions!Suppress, Regions!Handle
    <2> QED
      BY <2>1 DEF Seen
  <1>2. CASE Regions!StartMerge
    <2>1. stage = "suppress" /\ stage' = "merge" /\ kept' = result /\ handled = Len(current)
      BY <1>2 DEF Regions!StartMerge
    <2>2. /\ DOMAIN current = 1 .. Len(current) /\ DOMAIN result = 1 .. Len(result)
          /\ \A k \in 1 .. Len(current) : current[k] \in Box
          /\ \A i \in 1 .. Len(result) : result[i] \in Box
      BY RegionsTyped DEF RegionsInv
    <2>3. ASSUME NEW blob \in Box, Regions!Plausible(blob), Seen(blob)
          PROVE  \E b \in Entries(result) : Meets(b, blob)
      <3>1. PICK k \in 1 .. Len(current) : current[k] = blob
        BY <2>1, <2>2, <2>3 DEF Seen, Entries
      <3>2. PICK i \in DOMAIN result : result[i] = blob \/ Regions!Similar(blob, result[i])
        BY <2>1, <3>1 DEF RegionsInv, Regions!Clustered
      <3>3. Meets(result[i], blob)
        BY <2>2, <2>3, <3>2, MeetingIsKept
      <3> QED
        BY <3>3 DEF Entries
    <2> QED
      BY <2>1, <2>3 DEF Seen
  <1>3. CASE Regions!Unite \/ Regions!Place
    <2>1. stage = "merge" /\ stage' = "merge" /\ kept' = kept
      BY <1>3 DEF Regions!Unite, Regions!Place, Regions!Handle
    <2> QED
      BY <2>1 DEF Seen
  <1>4. CASE Regions!EndPass
    <2>1. /\ stage = "merge" /\ stage' \in {"merge", "done"} /\ kept' = kept
          /\ result' = <<>> /\ handled' = 0
      BY <1>4 DEF Regions!EndPass
    <2> QED
      BY <2>1 DEF Seen
  <1> QED
    BY <1>1, <1>2, <1>3, <1>4 DEF Regions!Next

\* A blob it has seen meets one of the lines it comes to.
LEMMA SeenIsMet ==
    ASSUME RegionsInv, MserInv, stage = "done", NEW blob \in Box, Seen(blob)
    PROVE  \E i \in DOMAIN current : current[i] \in Box /\ Meets(current[i], blob)
  <1>1. PICK b \in Entries(kept) : Meets(b, blob)
    BY DEF Seen
  <1>2. /\ kept \in Seq(Box) /\ Len(current) \in Nat /\ DOMAIN current = 1 .. Len(current)
        /\ \A k \in 1 .. Len(current) : current[k] \in Box
    BY RegionsTyped DEF RegionsInv
  <1>3. b \in Box
    BY <1>2, EntriesAreFinite
  <1>4. PICK line \in Regions!Lines : Regions!Encloses(line, b)
    BY DEF RegionsInv, Keeps
  <1>5. result = <<>> /\ handled = 0
    BY DEF MserInv
  <1>6. PICK i \in DOMAIN current : current[i] = line
    BY <1>2, <1>4, <1>5 DEF Regions!Lines
  <1>7. Meets(line, blob)
    BY <1>1, <1>2, <1>3, <1>4, <1>6, MeetingIsKept
  <1> QED
    BY <1>2, <1>6, <1>7

-----------------------------------------------------------------------------
LEMMA HeadAndTail ==
    ASSUME NEW S, NEW s \in Seq(S), s # <<>>
    PROVE  /\ Entries(s) = {Head(s)} \cup Entries(Tail(s))
           /\ Head(s) \in S /\ Tail(s) \in Seq(S)
  <1>1. PICK n \in Nat : n = Len(s) /\ DOMAIN s = 1 .. n
    BY LenProperties
  <1>2. n # 0
    BY <1>1, EmptySeq
  <1>3. /\ Head(s) = s[1] /\ Head(s) \in S /\ Tail(s) \in Seq(S) /\ Len(Tail(s)) = n - 1
        /\ \A i \in 1 .. n - 1 : Tail(s)[i] = s[i + 1]
    BY <1>1, HeadTailProperties
  <1>4. DOMAIN Tail(s) = 1 .. n - 1
    BY <1>3, LenProperties
  <1>5. \A i \in 1 .. n : i = 1 \/ (i - 1 \in 1 .. n - 1 /\ s[i] = Tail(s)[i - 1])
    BY <1>3
  <1>6. 1 \in 1 .. n /\ \A i \in 1 .. n - 1 : i + 1 \in 1 .. n
    BY <1>2
  <1>7. Entries(s) \subseteq {Head(s)} \cup Entries(Tail(s))
    <2>1. ASSUME NEW i \in 1 .. n PROVE s[i] = Head(s) \/ s[i] \in Entries(Tail(s))
      BY <1>3, <1>4, <1>5 DEF Entries
    <2> QED
      BY <1>1, <2>1 DEF Entries
  <1>8. {Head(s)} \cup Entries(Tail(s)) \subseteq Entries(s)
    BY <1>1, <1>3, <1>4, <1>6 DEF Entries
  <1> QED
    BY <1>3, <1>7, <1>8

\* The loop over the types: a type that is opened queues all its detectors.
LEMMA LoopReports ==
    ASSUME BookInv, ReportInv, SkipType \/ OpenType \/ Return
    PROVE  ReportInv'
  <1> USE DEF Running, NextType
  <1>1. /\ queue = <<>> /\ outcome = "running" /\ outcome' # "raised"
        /\ UNCHANGED <<media, policy, results, frame, busy, loud>>
    BY DEF SkipType, OpenType, Return, loops, speechVars
  <1>2. frame = 0 /\ ~busy
    BY <1>1 DEF BookInv
  <1>3. \A det : Through(det) => Through(det)'
    BY <1>1, CoverGrows
  <1>4. \A type \in PiiTypes : <<type, TRUE>> \in Entries(policy) =>
            <<type, TRUE>> \in Entries(types) \/ Opened(type)
    BY <1>1 DEF ReportInv
  <1>5. \A type : Opened(type) => Opened(type)'
    BY <1>1, <1>3 DEF Opened, Entries
  <1>6. types \in Seq(PiiTypes \X BOOLEAN)
    BY DEF BookInv
  <1>7. \A type \in PiiTypes : <<type, TRUE>> \in Entries(types) =>
            <<type, TRUE>> \in Entries(types') \/ Opened(type)'
    <2>1. CASE SkipType
      <3>1. types # <<>> /\ Head(types)[2] = FALSE /\ types' = Tail(types)
        BY <2>1 DEF SkipType
      <3>2. Entries(types) = {Head(types)} \cup Entries(types')
        BY <1>6, <3>1, HeadAndTail
      <3>3. ASSUME NEW type, <<type, TRUE>> = Head(types) PROVE FALSE
        <4>1. <<type, TRUE>>[2] = FALSE
          BY <3>1, <3>3
        <4> QED
          BY <4>1
      <3> QED
        BY <3>2, <3>3
    <2>2. CASE OpenType
      <3>1. types # <<>> /\ types' = Tail(types) /\ queue' = Registered[Head(types)[1]]
        BY <2>2 DEF OpenType
      <3>2. Entries(types) = {Head(types)} \cup Entries(types')
        BY <1>6, <3>1, HeadAndTail
      <3>3. ASSUME NEW type, <<type, TRUE>> = Head(types) PROVE Opened(type)'
        <4>1. queue' = Registered[type]
          BY <3>1, <3>3
        <4> QED
          BY <4>1 DEF Opened
      <3> QED
        BY <3>2, <3>3
    <2>3. CASE Return
      BY <2>3 DEF Return
    <2> QED
      BY <2>1, <2>2, <2>3
  <1>8. \A type \in PiiTypes : <<type, TRUE>> \in Entries(policy) =>
            <<type, TRUE>> \in Entries(types') \/ Opened(type)'
    BY <1>4, <1>5, <1>7
  <1>9. \A i \in 1 .. frame' : FALSE
    BY <1>1, <1>2
  <1> QED
    BY <1>1, <1>2, <1>8, <1>9 DEF ReportInv

\* As long as the first detector goes on, the types and the others wait.
LEMMA OpenedRemain ==
    ASSUME ReportInv, outcome = "running",
           Entries(results) \subseteq Entries(results'), UNCHANGED <<media, policy, types, queue>>,
           loud' = loud \/ loud' = media.track
    PROVE  \A type \in PiiTypes : <<type, TRUE>> \in Entries(policy') =>
              <<type, TRUE>> \in Entries(types') \/ Opened(type)'
  <1>1. \A det : Through(det) => Through(det)'
    BY CoverGrows
  <1>2. \A type : Opened(type) => Opened(type)'
    BY <1>1 DEF Opened
  <1> QED
    BY <1>2 DEF ReportInv

\* Tesseract's frame: every word that a keyword in its text concerns is boxed.
LEMMA OcrCovers ==
    ASSUME BookInv, results \in Seq(Detection), OcrFrame, NEW f, f = This
    PROVE  KeywordsBoxed(f)'
  <1>1. PICK found \in Found(This.text) : \A m \in Entries(found) :
            Detected("text", This.time, This.time,
                     UnionBox(Match!MatchedBoxes(This.text, m, This.read))) \in Entries(results')
    BY OcrReports
  <1>2. frame < Len(media.frames) /\ Head(queue) = "ocr"
    BY DEF OcrFrame, Runs
  <1>3. f \in Frame
    BY <1>2, ThisTyped
  <1>4. PICK str \in Text, read \in Seq([chars : Text, box : Box]) : str = f.text /\ read = f.read
    BY <1>3 DEF Frame
  <1>5. ASSUME NEW kw \in Range(Keywords), Match!Stands(kw, str) # {},
               NEW k \in DOMAIN read, Match!Concerns(kw, read[k].chars)
        PROVE  \E b \in Box : /\ Encloses(b, read[k].box)
                              /\ Reports("text", "ocr", f.time, f.time, b)'
    <2>1. PICK i : i \in Match!Stands(kw, str)
      BY <1>5
    <2> DEFINE match == [start |-> i, end |-> i + Len(kw)]
               b == UnionBox(Match!MatchedBoxes(str, match, read))
    <2>2. kw \in Text /\ match \in Entries(found)
      BY <1>4, <2>1, KeywordIsFound
    <2>3. b \in Box /\ Encloses(b, read[k].box)
      BY <1>5, <2>1, <2>2, WordIsBoxed
    <2> HIDE DEF match
    <2>4. Detected("text", f.time, f.time, b) \in Entries(results')
      BY <1>1, <1>4, <2>2
    <2> HIDE DEF b
    <2>5. Reports("text", "ocr", f.time, f.time, b)'
      BY <1>2, <2>4 DEF Reports, Detected
    <2> QED
      BY <2>3, <2>5
  <1> QED
    BY <1>4, <1>5 DEF KeywordsBoxed

\* The first detector reports a frame.
LEMMA FrameReports ==
    ASSUME BookInv, RegionsInv, ReportInv, Entries(results) \subseteq Entries(results'),
           FaceFrame \/ OcrFrame \/ MserFrame, results \in Seq(Detection)
    PROVE  ReportInv'
  <1> USE DEF Running, Runs
  <1>1. /\ queue # <<>> /\ outcome = "running" /\ outcome' = outcome /\ frame' = frame + 1
        /\ UNCHANGED <<media, policy, types, queue, loud>> /\ Head(queue) \in OfFrames
    BY DEF FaceFrame, OcrFrame, MserFrame, ReportFrame, loops, speechVars, OfFrames
  <1>2. frame < Len(media.frames)
    BY DEF FaceFrame, OcrFrame, MserFrame, BookInv
  <1>3. ~busy'
    BY DEF FaceFrame, OcrFrame, MserFrame, BookInv
  <1>4. PICK f : f = This
    OBVIOUS
  <1>5. PICK det : det = Head(queue)
    OBVIOUS
  <1>6. f \in Frame /\ frame \in Nat /\ {"face", "text"} \subseteq PiiTypes
    BY <1>2, <1>4, ThisTyped, TypesAreKnown
  <1>7. FrameCovered(det, f)'
    <2>1. CASE FaceFrame
      <3>1. det \in {"haar", "lbp"} /\ ReportFrame("face", f.faces[det])
        BY <1>4, <1>5, <2>1 DEF FaceFrame
      <3>2. f.faces[det] \in Seq(Box)
        BY <1>6, <3>1 DEF Frame
      <3>3. f.faces[det] \in Seq(Box \cup {NoBox})
        BY <3>2
      <3>4. \A k \in DOMAIN f.faces[det] :
                Detected("face", This.time, This.time, f.faces[det][k]) \in Entries(results')
        BY <1>1, <1>2, <1>6, <3>1, <3>3, FrameReportTyped
      <3>5. FaceReported(det, f)'
        BY <1>4, <1>5, <3>4 DEF FaceReported, Reports, Detected
      <3> QED
        BY <3>1, <3>5 DEF FrameCovered
    <2>2. CASE OcrFrame
      BY <1>4, <1>5, <2>2, OcrCovers DEF OcrFrame, FrameCovered
    <2>3. CASE MserFrame
      <3>1. det = "mser" /\ busy /\ stage = "done" /\ ReportFrame("text", current)
        BY <1>5, <2>3 DEF MserFrame
      <3>2. MserInv
        BY <1>1, <1>5, <3>1 DEF ReportInv
      <3>3. current \in Seq(Box)
        BY RegionsTyped DEF RegionsInv
      <3>4. current \in Seq(Box \cup {NoBox})
        BY <3>3
      <3>5. \A i \in DOMAIN current :
                Detected("text", This.time, This.time, current[i]) \in Entries(results')
        BY <1>1, <1>2, <1>6, <3>1, <3>4, FrameReportTyped
      <3>6. ASSUME NEW k \in DOMAIN f.blobs, Regions!Plausible(f.blobs[k]) PROVE Met(f.blobs[k], f.time)'
        <4>1. f.blobs \in Seq(Box)
          BY <1>6 DEF Frame
        <4>2. PICK blob \in Box : blob = f.blobs[k]
          BY <4>1, LenProperties, ElementOfSeq
        <4>3. Seen(blob)
          BY <1>4, <3>2, <3>6, <4>2 DEF MserInv
        <4>4. PICK i \in DOMAIN current : current[i] \in Box /\ Meets(current[i], blob)
          BY <3>1, <3>2, <4>3, SeenIsMet
        <4>5. PICK line \in Box : line = current[i]
          BY <4>4
        <4>6. Detected("text", This.time, This.time, line) \in Entries(results')
          BY <3>5, <4>4, <4>5
        <4>7. Reports("text", "mser", f.time, f.time, line)'
          BY <1>4, <1>5, <3>1, <4>6 DEF Reports, Detected
        <4>8. Meets(line, blob)
          BY <4>4, <4>5
        <4> QED
          BY <4>2, <4>7, <4>8 DEF Met
      <3>7. BlobsMet(f)'
        BY <3>6 DEF BlobsMet
      <3> QED
        BY <3>1, <3>7 DEF FrameCovered
    <2> QED
      BY <2>1, <2>2, <2>3
  <1>8. \A e, g : FrameCovered(e, g) => FrameCovered(e, g)'
    BY <1>1, CoverGrows
  <1>9. ASSUME NEW i \in 1 .. frame + 1 PROVE FrameCovered(det, media.frames[i])'
    <2>1. i \in 1 .. frame \/ i = frame + 1
      BY <1>6
    <2>2. PICK g : g = media.frames[i]
      OBVIOUS
    <2>3. FrameCovered(det, g)'
      <3>1. CASE i \in 1 .. frame
        BY <1>1, <1>5, <1>8, <2>2, <3>1 DEF ReportInv
      <3>2. CASE i = frame + 1
        BY <1>4, <1>7, <2>2, <3>2 DEF This
      <3> QED
        BY <2>1, <3>1, <3>2
    <2>4. media'.frames[i] = g
      BY <1>1, <2>2
    <2> QED
      BY <2>3, <2>4
  <1>10. (\A i \in 1 .. frame : FrameCovered(Head(queue), media.frames[i]))'
    BY <1>1, <1>5, <1>9
  <1> QED
    BY <1>1, <1>3, <1>10, OpenedRemain DEF ReportInv

\* In the middle of its loop, the first detector loses nothing it has to report.
LEMMA LoopsReport ==
    ASSUME BookInv, RegionsInv, SpeechInv, ReportInv, results' = results,
           MserLoad \/ MserStep \/ VadLoad \/ VadStep \/ WhisperLoad \/ WhisperStep
    PROVE  ReportInv'
  <1> USE DEF Running, Runs
  <1>1. /\ queue # <<>> /\ outcome = "running" /\ outcome' = outcome
        /\ UNCHANGED <<media, policy, types, queue, frame>>
        /\ Head(queue) \in {"mser", "vad", "whisper"}
    BY DEF MserLoad, MserStep, VadLoad, VadStep, WhisperLoad, WhisperStep
  <1>2. PICK det : det = Head(queue)
    OBVIOUS
  <1>3. loud' = loud \/ loud' = media.track
    BY DEF MserLoad, MserStep, VadLoad, VadStep, WhisperLoad, WhisperStep, speechVars,
           Speech!Load, Speech!Next, Speech!Loud, Speech!Quiet, Speech!Hear, Speech!Finish
  <1>4. \A type \in PiiTypes : <<type, TRUE>> \in Entries(policy') =>
            <<type, TRUE>> \in Entries(types') \/ Opened(type)'
    BY <1>1, <1>3, OpenedRemain
  <1>5. \A e, f : FrameCovered(e, f) => FrameCovered(e, f)'
    BY <1>1, <1>3, CoverGrows
  <1>6. (\A i \in 1 .. frame : FrameCovered(Head(queue), media.frames[i]))'
    <2> SUFFICES ASSUME NEW i \in 1 .. frame PROVE FrameCovered(det, media.frames[i])'
      BY <1>1, <1>2
    <2>1. PICK f : f = media.frames[i]
      OBVIOUS
    <2>2. FrameCovered(det, f)'
      BY <1>1, <1>2, <1>5, <2>1 DEF ReportInv
    <2>3. media'.frames[i] = f
      BY <1>1, <2>1
    <2> QED
      BY <2>2, <2>3
  <1>7. ASSUME det = "mser" PROVE MserInv'
    <2>1. frame < Len(media.frames)
      BY <1>1, <1>2, <1>7 DEF BookInv, MserLoad, MserStep, VadLoad, VadStep, WhisperLoad, WhisperStep
    <2>2. PICK f : f = This
      OBVIOUS
    <2>3. f \in Frame
      BY <2>1, <2>2, ThisTyped
    <2>4. f.blobs \in Seq(Box)
      BY <2>3 DEF Frame
    <2>5. This' = f
      BY <1>1, <2>2 DEF This
    <2>6. CASE MserLoad
      <3>1. stage' = "suppress" /\ current' = Regions!LargestFirst(f.blobs)
        BY <2>2, <2>6 DEF MserLoad, Regions!Load
      <3>2. \A k \in DOMAIN f.blobs : Regions!Plausible(f.blobs[k]) => f.blobs[k] \in Entries(current')
        BY <2>4, <3>1, LargestAreFirst
      <3>3. \A k \in DOMAIN f.blobs : Regions!Plausible(f.blobs[k]) => Seen(f.blobs[k])'
        BY <3>1, <3>2 DEF Seen
      <3> QED
        BY <2>5, <3>1, <3>3 DEF MserInv
    <2>7. CASE MserStep
      <3>1. MserInv /\ Regions!Next
        BY <1>1, <1>2, <1>7, <2>7 DEF MserStep, ReportInv
      <3>2. /\ stage' \in {"suppress", "merge", "done"}
            /\ \A blob \in Box : Regions!Plausible(blob) /\ Seen(blob) => Seen(blob)'
            /\ stage' = "done" => result' = <<>> /\ handled' = 0
        BY <3>1, SeenKeeps DEF MserInv
      <3>3. ASSUME NEW k \in DOMAIN f.blobs, Regions!Plausible(f.blobs[k]) PROVE Seen(f.blobs[k])'
        <4>1. PICK blob \in Box : blob = f.blobs[k]
          BY <2>4, LenProperties, ElementOfSeq
        <4>2. Seen(blob)
          BY <2>2, <3>1, <3>3, <4>1 DEF MserInv
        <4>3. Seen(blob)'
          BY <3>2, <3>3, <4>1, <4>2
        <4> QED
          BY <4>1, <4>3
      <3> QED
        BY <2>5, <3>2, <3>3 DEF MserInv
    <2> QED
      BY <1>2, <1>7, <2>6, <2>7 DEF VadLoad, VadStep, WhisperLoad, WhisperStep
  <1>8. ASSUME det = "vad" PROVE loud' = media'.track /\ speech' \in {"loop", "done"}
    <2>1. CASE VadLoad
      BY <1>1, <2>1 DEF VadLoad, Speech!Load
    <2>2. CASE VadStep
      <3>1. loud = media.track /\ speech \in {"loop", "done"} /\ Speech!Next
        BY <1>1, <1>2, <1>8, <2>2 DEF VadStep, ReportInv
      <3> QED
        BY <1>1, <3>1 DEF Speech!Next, Speech!Loud, Speech!Quiet, Speech!Hear, Speech!Finish
    <2> QED
      BY <1>2, <1>8, <2>1, <2>2 DEF MserLoad, MserStep, WhisperLoad, WhisperStep
  <1> QED
    BY <1>1, <1>2, <1>4, <1>6, <1>7, <1>8 DEF ReportInv

\* The detector that leaves the queue is through.
LEMMA NextReports ==
    ASSUME BookInv, SpeechInv, ReportInv, results \in Seq(Detection),
           Entries(results) \subseteq Entries(results'),
           FramesDone \/ NoAudio \/ VadDone \/ WhisperDone
    PROVE  ReportInv'
  <1> USE DEF Running, Runs
  <1>1. /\ queue # <<>> /\ outcome = "running" /\ outcome' = outcome /\ queue' = Tail(queue)
        /\ UNCHANGED <<media, policy, types, loud>>
    BY DEF FramesDone, NoAudio, VadDone, WhisperDone, loops, speechVars
  <1>2. PICK det : det = Head(queue)
    OBVIOUS
  <1>3. Entries(queue) = {det} \cup Entries(queue')
    BY <1>1, <1>2, HeadAndTail DEF BookInv
  <1>4. frame' = 0 /\ ~busy'
    <2>1. CASE FramesDone
      BY <2>1 DEF FramesDone
    <2>2. CASE NoAudio \/ VadDone \/ WhisperDone
      <3>1. /\ Head(queue) \in {"vad", "whisper"} /\ frame' = frame
            /\ (busy' = busy /\ ~media.audio) \/ busy' = FALSE
        BY <2>2 DEF NoAudio, VadDone, WhisperDone
      <3>2. frame = 0 /\ (busy => media.audio)
        BY <1>1, <3>1 DEF BookInv, OfFrames
      <3> QED
        BY <3>1, <3>2
    <2> QED
      BY <2>1, <2>2
  <1>5. /\ \A e, f : FrameCovered(e, f) => FrameCovered(e, f)'
        /\ \A e : Through(e) => Through(e)'
    BY <1>1, CoverGrows
  <1>6. Through(det)'
    <2>1. CASE FramesDone
      <3>1. det \in OfFrames /\ frame = Len(media.frames) /\ DOMAIN media.frames = 1 .. Len(media.frames)
        BY <1>2, <2>1, FramesCounted DEF FramesDone, LastFrame, OfFrames, BookInv
      <3>2. ASSUME NEW i \in DOMAIN media.frames PROVE FrameCovered(det, media.frames[i])'
        <4>1. PICK f : f = media.frames[i]
          OBVIOUS
        <4>2. FrameCovered(det, f)'
          BY <1>1, <1>2, <1>5, <3>1, <4>1 DEF ReportInv
        <4>3. media'.frames[i] = f
          BY <1>1, <4>1
        <4> QED
          BY <4>2, <4>3
      <3> QED
        BY <1>1, <3>1, <3>2 DEF Through, OfFrames
    <2>2. CASE NoAudio \/ WhisperDone
      BY <1>1, <1>2, <2>2 DEF NoAudio, WhisperDone, Through, FrameCovered
    <2>3. CASE VadDone
      <3>1. det = "vad" /\ busy /\ speech = "done"
        BY <1>2, <2>3 DEF VadDone
      <3>2. loud = media.track
        BY <1>1, <1>2, <3>1 DEF ReportInv
      <3>3. {intervals[i] : i \in DOMAIN intervals} = {Times(t) : t \in Long}
        BY <3>1 DEF SpeechInv, Speech!StretchesFound, Long, Times
      <3>4. \A i \in DOMAIN intervals :
                Detected("audio", intervals[i][1], intervals[i][2], NoBox) \in Entries(results')
        BY <2>3, VadReports
      <3>5. ASSUME NEW t \in Long PROVE Reports("audio", "vad", t[1] * FrameMs, t[2] * FrameMs, NoBox)'
        <4>1. PICK i \in DOMAIN intervals : intervals[i] = Times(t)
          BY <3>3
        <4>2. intervals[i][1] = t[1] * FrameMs /\ intervals[i][2] = t[2] * FrameMs
          BY <4>1 DEF Times
        <4> QED
          BY <1>2, <3>1, <3>4, <4>2 DEF Reports, Detected
      <3>6. Long' = Long
        BY <1>1 DEF Long, Speech!Stretches
      <3>7. TrackCovered'
        BY <1>1, <3>2, <3>5, <3>6 DEF TrackCovered
      <3> QED
        BY <3>1, <3>7 DEF Through, FrameCovered
    <2> QED
      BY <2>1, <2>2, <2>3
  <1>7. \A type : Opened(type) => Opened(type)'
    BY <1>3, <1>5, <1>6 DEF Opened
  <1>8. \A type \in PiiTypes : <<type, TRUE>> \in Entries(policy') =>
            <<type, TRUE>> \in Entries(types') \/ Opened(type)'
    BY <1>1, <1>7 DEF ReportInv
  <1>9. \A i \in 1 .. frame' : FALSE
    BY <1>4
  <1> QED
    BY <1>1, <1>4, <1>8, <1>9 DEF ReportInv

LEMMA ReportKeeps ==
    ASSUME BookInv, RegionsInv, SpeechInv, WordsInv, ReportInv, results \in Seq(Detection), [Next]_vars
    PROVE  ReportInv'
  <1>1. outcome' = "raised" \/ Entries(results) \subseteq Entries(results')
    BY ResultsTyped
  <1>2. CASE outcome' = "raised"
    BY <1>2 DEF ReportInv
  <1>3. CASE SkipType \/ OpenType \/ Return
    BY <1>3, LoopReports
  <1>4. CASE FaceFrame \/ OcrFrame \/ MserFrame
    BY <1>1, <1>2, <1>4, FrameReports
  <1>5. CASE MserLoad \/ MserStep \/ VadLoad \/ VadStep \/ WhisperLoad \/ WhisperStep
    <2>1. results' = results
      BY <1>5 DEF MserLoad, MserStep, VadLoad, VadStep, WhisperLoad, WhisperStep
    <2> QED
      BY <1>5, <2>1, LoopsReport
  <1>6. CASE FramesDone \/ NoAudio \/ VadDone \/ WhisperDone
    BY <1>1, <1>2, <1>6, NextReports
  <1>7. CASE NoDetector \/ DetectorRaises
    BY <1>2, <1>7 DEF NoDetector, DetectorRaises
  <1>8. CASE UNCHANGED vars
    <2>1. UNCHANGED <<media, policy, types, queue, frame, busy, results, outcome,
                      stage, kept, current, handled, result, loud, speech>>
      BY <1>8 DEF vars, loops, regionVars, speechVars
    <2>2. \A e, f : FrameCovered(e, f) => FrameCovered(e, f)'
      BY <2>1, CoverGrows
    <2>3. \A e : Through(e) => Through(e)'
      BY <2>1, CoverGrows
    <2>4. \A type : Opened(type) => Opened(type)'
      BY <2>1, <2>3 DEF Opened
    <2>5. MserInv => MserInv'
      BY <2>1 DEF MserInv, Seen, This
    <2>6. \A i : FrameCovered(Head(queue), media.frames[i]) => FrameCovered(Head(queue), media.frames[i])'
      <3> TAKE i
      <3>1. PICK e, f : e = Head(queue) /\ f = media.frames[i]
        OBVIOUS
      <3>2. Head(queue') = e /\ media'.frames[i] = f
        BY <2>1, <3>1
      <3> QED
        BY <2>2, <3>1, <3>2
    <2> QED
      BY <2>1, <2>4, <2>5, <2>6 DEF ReportInv
  <1> QED
    BY <1>2, <1>3, <1>4, <1>5, <1>6, <1>7, <1>8 DEF Next

\* What is reported of a frame is among the boxes reported for its time.
LEMMA ReportedBoxes ==
    ASSUME NEW type, NEW det, NEW start, NEW end, NEW box, Reports(type, det, start, end, box)
    PROVE  box \in Reported(type, det, start, end)
  <1>1. PICK i \in DOMAIN results :
            results[i] = [type |-> type, det |-> det, start |-> start, end |-> end, box |-> box]
    BY DEF Reports, Entries
  <1>2. /\ results[i].type = type /\ results[i].det = det
        /\ results[i].start = start /\ results[i].end = end /\ results[i].box = box
    BY <1>1
  <1> QED
    BY <1>2 DEF Reported

\* When the list is returned, each detector of an enabled type is through.
LEMMA ReturnedIsThrough ==
    ASSUME BookInv, ReportInv, outcome = "returned",
           NEW type \in PiiTypes, Enabled(type), NEW det \in Range(Registered[type])
    PROVE  Through(det)
  <1>1. types = <<>> /\ queue = <<>>
    BY DEF BookInv
  <1>2. <<type, TRUE>> \in Entries(policy)
    BY DEF Enabled, Entries
  <1>3. Opened(type)
    <2>1. Entries(types) = {} /\ outcome # "raised"
      BY <1>1 DEF Entries
    <2> QED
      BY <1>2, <2>1 DEF ReportInv
  <1>4. det \in Entries(Registered[type])
    BY DEF Range, Entries
  <1> QED
    BY <1>1, <1>3, <1>4 DEF Opened, Entries

LEMMA ReturnedIsReported ==
    ASSUME BookInv, ReportInv
    PROVE  EverythingReported
  <1> SUFFICES ASSUME outcome = "returned" PROVE EverythingReported
    BY DEF EverythingReported
  <1>3. Enabled("face") => Through("haar") /\ Through("lbp")
    BY ReturnedIsThrough, BuiltInsAreRegistered, TypesAreKnown
  <1>4. Enabled("text") => Through("mser")
    BY ReturnedIsThrough, BuiltInsAreRegistered, TypesAreKnown
  <1>5. Enabled("audio") => Through("vad")
    BY ReturnedIsThrough, BuiltInsAreRegistered, TypesAreKnown
  <1>6. ASSUME NEW i \in DOMAIN media.frames, Enabled("face"), NEW det \in {"haar", "lbp"},
               NEW k \in DOMAIN media.frames[i].faces[det]
        PROVE  media.frames[i].faces[det][k] \in
                  Reported("face", det, media.frames[i].time, media.frames[i].time)
    <2>1. PICK f : f = media.frames[i]
      OBVIOUS
    <2>2. Reports("face", det, f.time, f.time, f.faces[det][k])
      BY <1>3, <1>6, <2>1 DEF Through, FrameCovered, FaceReported
    <2> QED
      BY <2>1, <2>2, ReportedBoxes
  <1>7. ASSUME NEW i \in DOMAIN media.frames, Enabled("text"), NEW k \in DOMAIN media.frames[i].blobs,
               Regions!Plausible(media.frames[i].blobs[k])
        PROVE  \E line \in Reported("text", "mser", media.frames[i].time, media.frames[i].time) :
                  Intersection(line, media.frames[i].blobs[k]) > 0
    <2>1. PICK f : f = media.frames[i]
      OBVIOUS
    <2>2. f \in Frame
      BY <2>1, FramesCounted DEF BookInv
    <2>3. f.blobs \in Seq(Box)
      BY <2>2 DEF Frame
    <2>4. PICK blob \in Box : blob = f.blobs[k]
      BY <1>7, <2>1, <2>3, LenProperties, ElementOfSeq
    <2>5. Met(blob, f.time)
      BY <1>4, <1>7, <2>1, <2>4 DEF Through, FrameCovered, BlobsMet
    <2>6. PICK line \in Box : Meets(line, blob) /\ Reports("text", "mser", f.time, f.time, line)
      BY <2>5 DEF Met
    <2>7. Intersection(line, blob) > 0
      BY <2>6, SharedArea
    <2>8. line \in Reported("text", "mser", f.time, f.time)
      BY <2>6, ReportedBoxes
    <2> QED
      BY <2>1, <2>4, <2>7, <2>8
  <1>8. ASSUME Enabled("audio"), media.audio, NEW s \in Speech!Stretches,
               (s[2] - s[1]) * FrameMs >= MinDuration
        PROVE  NoBox \in Reported("audio", "vad", s[1] * FrameMs, s[2] * FrameMs)
    <2>1. s \in Long
      BY <1>8 DEF Long
    <2>2. Reports("audio", "vad", s[1] * FrameMs, s[2] * FrameMs, NoBox)
      BY <1>5, <1>8, <2>1 DEF Through, TrackCovered
    <2> QED
      BY <2>2, ReportedBoxes
  <1> QED
    BY <1>6, <1>7, <1>8 DEF EverythingReported

-----------------------------------------------------------------------------
\* What Whisper reported covers each word a keyword touches: until then, the
\* audio is yet to come, or Whisper to run.
SpokenCovered ==
    \A kw \in Range(Keywords) : \A i \in Match!Stands(kw, Transcribed) :
        \A w \in Words!Said(i, i + Len(kw)) :
            \E r \in Entries(results) : /\ r.det = "whisper"
                                       /\ r.start <= words[w].start /\ words[w].end <= r.end

SpokenInv ==
    outcome # "raised" /\ <<"audio", TRUE>> \in Entries(policy) /\ media.audio =>
        \/ <<"audio", TRUE>> \in Entries(types)
        \/ "whisper" \in Entries(queue)
        \/ SpokenCovered

LEMMA SpokenGrows ==
    ASSUME SpokenCovered, Entries(results) \subseteq Entries(results'), UNCHANGED <<words, text>>
    PROVE  SpokenCovered'
  <1>1. Transcribed' = Transcribed
    BY DEF Transcribed
  <1>2. \A s, e : Words!Said(s, e)' = Words!Said(s, e)
    BY DEF Words!Said
  <1> QED
    BY <1>1, <1>2 DEF SpokenCovered

\* Whisper is through: a keyword's match has a time, since it has a word, and
\* the time covers the word.
LEMMA WhisperCovers ==
    ASSUME BookInv, WordsInv, results \in Seq(Detection), WhisperDone
    PROVE  SpokenCovered'
  <1>1. PICK found \in Found(Transcribed) : \A m \in Entries(found) :
            LET t == Words!TimeRange(m.start, m.end)
            IN  t # NoTime => Detected("audio", t.start, t.end, NoBox) \in Entries(results')
    BY WhisperReports
  <1>2. Head(queue) = "whisper" /\ Words!Indexed /\ UNCHANGED <<words, text>>
    BY DEF WhisperDone, Runs, loops, wordVars
  <1>3. PICK str \in Text : str = Transcribed /\ Len(str) = Len(text)
    BY TranscribedIsText
  <1>4. ASSUME NEW kw \in Range(Keywords), NEW i \in Match!Stands(kw, str),
               NEW w \in Words!Said(i, i + Len(kw))
        PROVE  \E r \in Entries(results') : /\ r.det = "whisper"
                                            /\ r.start <= words[w].start /\ words[w].end <= r.end
    <2>1. kw \in Text /\ [start |-> i, end |-> i + Len(kw)] \in Entries(found)
      BY <1>3, KeywordIsFound
    <2>2. PICK n \in Nat \ {0}, e \in Nat : n = Len(kw) /\ e = i + n /\ i \in Nat /\ e <= Len(str)
      BY <2>1, StandsFields
    <2> DEFINE said == Words!Said(i, e)
               starts == {words[v].start : v \in said}
               ends == {words[v].end : v \in said}
               time == Words!TimeRange(i, e)
    <2>3. i \in 0 .. Len(text) /\ e \in 0 .. Len(text) /\ i < e /\ w \in said
      BY <1>3, <1>4, <2>2, WordsTyped DEF WordsInv
    <2>4. time = [start |-> Words!Min(starts), end |-> Words!Max(ends)]
      BY <1>2, <2>3, TimesOfMatches DEF Words!TimesAreTheWords
    <2>5. Words!Min(starts) = Min(starts) /\ Words!Max(ends) = Max(ends)
      BY Zenon DEF Words!Min, Min, Words!Max, Max
    <2>6. said \subseteq 1 .. Len(words) /\ Len(words) \in Nat
          /\ \A v \in said : words[v].start \in Nat /\ words[v].end \in Nat
      <3>1. /\ pos = Len(text) /\ pos \in Nat /\ Len(words) \in Nat /\ indexed \in 0 .. Len(words)
            /\ \A k \in 1 .. pos : text[k][2] \in 0 .. indexed
            /\ \A v \in 1 .. Len(words) : words[v] \in Word
        BY WordsTyped DEF WordsInv
      <3>2. Words!Min({e, Len(text)}) = e
        BY <2>3, <3>1, MinOfTwo DEF Words!Min, Min
      <3>3. said = {text[k][2] : k \in i + 1 .. e} \ {0}
        BY <3>2 DEF Words!Said
      <3> HIDE DEF said
      <3>4. \A k \in i + 1 .. e : k \in 1 .. pos
        BY <2>3, <3>1
      <3>5. said \subseteq 1 .. Len(words)
        BY <3>1, <3>3, <3>4
      <3>6. \A v \in 1 .. Len(words) : words[v].start \in Nat /\ words[v].end \in Nat
        BY <3>1 DEF Word
      <3> QED
        BY <3>1, <3>5, <3>6
    <2> HIDE DEF said
    <2>7. IsFiniteSet(said)
      <3>1. IsFiniteSet(1 .. Len(words))
        BY <2>6, FS_Interval
      <3> QED
        BY <2>6, <3>1, FS_Subset
    <2>8. starts \in SUBSET Nat /\ ends \in SUBSET Nat /\ words[w].start \in starts /\ words[w].end \in ends
      BY <2>3, <2>6
    <2>9. IsFiniteSet(ends)
      <3>1. [v \in said |-> words[v].end] \in Surjection(said, ends)
        BY DEF Surjection
      <3> HIDE DEF ends
      <3> QED
        BY <2>7, <3>1, FS_Surjection
    <2> HIDE DEF starts, ends
    <2>10. Min(starts) \in Nat /\ Min(starts) <= words[w].start
      BY <2>8, MinOfNats
    <2>11. Max(ends) \in Nat /\ words[w].end <= Max(ends)
      BY <2>8, <2>9, FiniteBounds
    <2>12. time \in [start : Nat, end : Nat] /\ time.start = Min(starts) /\ time.end = Max(ends)
      BY <2>4, <2>5, <2>10, <2>11
    <2>13. time # NoTime
      BY <2>12, NoneIsNoTime
    <2> DEFINE m == [start |-> i, end |-> e]
    <2>14. m \in Entries(found) /\ m.start = i /\ m.end = e
      BY <2>1, <2>2
    <2> HIDE DEF time, m
    <2>15. Detected("audio", time.start, time.end, NoBox) \in Entries(results')
      BY <1>1, <2>13, <2>14 DEF time
    <2> QED
      BY <1>2, <2>10, <2>11, <2>12, <2>15 DEF Detected
  <1>5. Transcribed' = str
    BY <1>2, <1>3 DEF Transcribed
  <1>6. \A s, e : Words!Said(s, e)' = Words!Said(s, e)
    BY <1>2 DEF Words!Said
  <1> QED
    BY <1>2, <1>4, <1>5, <1>6 DEF SpokenCovered

LEMMA SpokenKeeps ==
    ASSUME BookInv, WordsInv, SpokenInv, results \in Seq(Detection), results' \in Seq(Detection),
           outcome' = "raised" \/ Entries(results) \subseteq Entries(results'), [Next]_vars
    PROVE  SpokenInv'
  <1> USE DEF Running, Runs, NextType
  <1> SUFFICES ASSUME outcome' # "raised", <<"audio", TRUE>> \in Entries(policy'), media'.audio
               PROVE  \/ <<"audio", TRUE>> \in Entries(types')
                      \/ "whisper" \in Entries(queue')
                      \/ SpokenCovered'
    BY DEF SpokenInv
  <1>1. types \in Seq(PiiTypes \X BOOLEAN) /\ queue \in Seq(Detectors)
    BY DEF BookInv
  <1>2. ASSUME outcome # "raised", UNCHANGED <<media, policy>>
        PROVE  \/ <<"audio", TRUE>> \in Entries(types)
               \/ "whisper" \in Entries(queue)
               \/ SpokenCovered
    BY <1>2 DEF SpokenInv
  <1>3. CASE SkipType \/ OpenType
    <2>1. /\ outcome # "raised" /\ UNCHANGED <<media, policy, results, words, text>>
          /\ queue = <<>> /\ types # <<>> /\ types' = Tail(types)
      BY <1>3 DEF SkipType, OpenType, loops, wordVars
    <2>2. Entries(types) = {Head(types)} \cup Entries(types')
      BY <1>1, <2>1, HeadAndTail
    <2>3. Entries(queue) = {}
      BY <2>1 DEF Entries
    <2>4. CASE <<"audio", TRUE>> = Head(types)
      <3>1. ~SkipType
        <4> SUFFICES ASSUME SkipType PROVE FALSE
          OBVIOUS
        <4>1. <<"audio", TRUE>>[2] = FALSE
          BY <2>4 DEF SkipType
        <4> QED
          BY <4>1
      <3>2. queue' = Registered["audio"]
        <4>1. queue' = Registered[Head(types)[1]]
          BY <1>3, <3>1 DEF OpenType
        <4> QED
          BY <2>4, <4>1
      <3>3. "whisper" \in Entries(queue')
        BY <3>2, BuiltInsAreRegistered DEF Range, Entries
      <3> QED
        BY <3>3
    <2>5. CASE <<"audio", TRUE>> \in Entries(types')
      BY <2>5
    <2>6. CASE SpokenCovered
      BY <2>1, <2>6, SpokenGrows
    <2> QED
      BY <1>2, <2>1, <2>2, <2>3, <2>4, <2>5, <2>6
  <1>4. CASE WhisperDone
    BY <1>4, WhisperCovers
  <1>5. CASE WhisperLoad \/ WhisperStep
    <2>1. queue # <<>> /\ Head(queue) = "whisper" /\ queue' = queue
      BY <1>5 DEF WhisperLoad, WhisperStep
    <2> QED
      BY <1>1, <2>1, HeadAndTail
  <1>6. CASE FramesDone \/ VadDone
    <2>1. /\ outcome # "raised" /\ UNCHANGED <<media, policy, types, words, text>>
          /\ queue # <<>> /\ Head(queue) # "whisper" /\ queue' = Tail(queue)
      BY <1>6 DEF FramesDone, VadDone, loops, wordVars
    <2>2. Entries(queue) = {Head(queue)} \cup Entries(queue')
      BY <1>1, <2>1, HeadAndTail
    <2>3. SpokenCovered => SpokenCovered'
      BY <2>1, SpokenGrows
    <2> QED
      BY <1>2, <2>1, <2>2, <2>3
  <1>7. CASE NoAudio
    BY <1>7 DEF NoAudio
  <1>8. ASSUME outcome # "raised", UNCHANGED <<media, policy, types, queue, words, text>>
        PROVE  \/ <<"audio", TRUE>> \in Entries(types')
               \/ "whisper" \in Entries(queue')
               \/ SpokenCovered'
    BY <1>2, <1>8, SpokenGrows
  <1>9. CASE FaceFrame \/ OcrFrame \/ MserFrame \/ Return
    BY <1>8, <1>9 DEF FaceFrame, OcrFrame, MserFrame, ReportFrame, Return, loops, wordVars
  <1>10. CASE MserLoad \/ MserStep \/ VadLoad \/ VadStep
    BY <1>8, <1>10 DEF MserLoad, MserStep, VadLoad, VadStep, wordVars
  <1>11. CASE NoDetector \/ DetectorRaises
    BY <1>11 DEF NoDetector, DetectorRaises
  <1>12. CASE UNCHANGED vars
    BY <1>8, <1>12 DEF vars, loops, wordVars
  <1> QED
    BY <1>3, <1>4, <1>5, <1>6, <1>7, <1>9, <1>10, <1>11, <1>12 DEF Next

\* In the list that is returned, no keyword is missing.
LEMMA ReturnedHasKeywords ==
    ASSUME BookInv, ReportInv, SpokenInv
    PROVE  KeywordsAreFound
  <1> SUFFICES ASSUME outcome = "returned" PROVE KeywordsAreFound
    BY DEF KeywordsAreFound
  <1>1. ASSUME Enabled("text"), NEW kw \in Range(Keywords), NEW i \in DOMAIN media.frames,
               Match!Stands(kw, media.frames[i].text) # {}, NEW k \in DOMAIN media.frames[i].read,
               Match!Concerns(kw, media.frames[i].read[k].chars)
        PROVE  \E b \in Reported("text", "ocr", media.frames[i].time, media.frames[i].time) :
                  b # NoBox /\ Encloses(b, media.frames[i].read[k].box)
    <2>1. PICK f : f = media.frames[i]
      OBVIOUS
    <2>2. Through("ocr")
      BY <1>1, ReturnedIsThrough, BuiltInsAreRegistered, TypesAreKnown
    <2>3. KeywordsBoxed(f)
      BY <2>1, <2>2 DEF Through, FrameCovered
    <2>4. PICK b \in Box : Encloses(b, f.read[k].box) /\ Reports("text", "ocr", f.time, f.time, b)
      BY <1>1, <2>1, <2>3 DEF KeywordsBoxed
    <2>5. b \in Reported("text", "ocr", f.time, f.time)
      BY <2>4, ReportedBoxes
    <2> QED
      BY <2>1, <2>4, <2>5, NoBoxIsNoBox
  <1>2. ASSUME Enabled("audio"), media.audio PROVE SpokenCovered
    <2>1. types = <<>> /\ queue = <<>>
      BY DEF BookInv
    <2>2. Entries(types) = {} /\ Entries(queue) = {} /\ outcome # "raised"
      BY <2>1 DEF Entries
    <2>3. <<"audio", TRUE>> \in Entries(policy)
      BY <1>2 DEF Enabled, Entries
    <2> QED
      BY <1>2, <2>2, <2>3 DEF SpokenInv
  <1>3. Range(results) = Entries(results)
    BY DEF Range, Entries
  <1> QED
    BY <1>1, <1>2, <1>3 DEF KeywordsAreFound, SpokenCovered

-----------------------------------------------------------------------------
\* Everything the state is made of, at any time.
Inv ==
    /\ BookInv /\ RegionsInv /\ SpeechInv /\ WordsInv /\ ReportInv /\ SpokenInv
    /\ results \in Seq(Detection)

LEMMA DetectorsInvariant == Spec => []Inv
  <1>1. Init => Inv
    <2> SUFFICES ASSUME Init PROVE Inv
      OBVIOUS
    <2>1. RegionsInv /\ SpeechInv /\ WordsInv
      BY RegionsStart, SpeechStart, WordsStart
    <2>2. /\ media \in Medias /\ policy \in Policies /\ types = policy /\ queue = <<>> /\ frame = 0
          /\ busy = FALSE /\ results = <<>> /\ outcome = "running"
      BY DEF Init
    <2>3. types \in Seq(PiiTypes \X BOOLEAN)
      BY <2>2, PoliciesAreLists
    <2>4. queue \in Seq(Detectors) /\ results \in Seq(Detection) /\ frame \in 0 .. Len(media.frames)
      BY <2>2, FramesCounted
    <2>5. BookInv
      BY <2>2, <2>3, <2>4 DEF BookInv
    <2>6. ReportInv
      BY <2>2 DEF ReportInv
    <2>7. SpokenInv
      BY <2>2 DEF SpokenInv
    <2> QED
      BY <2>1, <2>4, <2>5, <2>6, <2>7 DEF Inv
  <1>2. Inv /\ [Next]_vars => Inv'
    <2> SUFFICES ASSUME Inv, [Next]_vars PROVE Inv'
      OBVIOUS
    <2>1. media \in Medias /\ frame \in Nat
      BY FramesCounted DEF Inv, BookInv
    <2>2. BookInv'
      BY BookKeeps DEF Inv
    <2>3. RegionsInv'
      BY <2>1, RegionsKeep DEF Inv
    <2>4. SpeechInv'
      BY <2>1, SpeechKeeps DEF Inv
    <2>5. WordsInv'
      BY <2>1, WordsKeep DEF Inv
    <2>6. results' \in Seq(Detection)
      BY ResultsTyped DEF Inv
    <2>7. ReportInv'
      BY ReportKeeps DEF Inv
    <2>8. outcome' = "raised" \/ Entries(results) \subseteq Entries(results')
      BY ResultsTyped DEF Inv
    <2>9. SpokenInv'
      BY <2>6, <2>8, SpokenKeeps DEF Inv
    <2> QED
      BY <2>2, <2>3, <2>4, <2>5, <2>6, <2>7, <2>9 DEF Inv
  <1> QED
    BY <1>1, <1>2, PTL DEF Spec

-----------------------------------------------------------------------------
\* What vote() gets is a list of detections, with any detectors, patterns,
\* keywords and media; Orchestrator assumes as much.
THEOREM Typed == Spec => []TypeOK
  <1>1. Inv => TypeOK
    BY TimesOfMatches DEF Inv, BookInv, RegionsInv, SpeechInv, TypeOK
  <1> QED
    BY <1>1, DetectorsInvariant, PTL

\* Of the blobs of a frame, however many, none that outlives the suppression is
\* a near-duplicate of another, and each that does not is one of a larger one.
\* This rests on the order in which they are handled, the largest first.
THEOREM SuppressesDuplicates == Spec => []Clustered
  <1>1. Inv => Clustered
    BY DEF Inv, RegionsInv, Clustered
  <1> QED
    BY <1>1, DetectorsInvariant, PTL

\* Merging loses no box and invents nothing, in the middle of a pass too.
THEOREM MergingLosesNothing == Spec => []MergingKeeps
  <1>1. Inv => MergingKeeps
    <2> SUFFICES ASSUME RegionsInv, stage \in {"merge", "done"}
                 PROVE  LET boxes == {kept[i] : i \in DOMAIN kept}
                        IN  /\ \A b \in boxes : \E line \in Regions!Lines : Regions!Encloses(line, b)
                            /\ \A line \in Regions!Lines :
                                  line = Regions!UnionBox({b \in boxes : Regions!Encloses(line, b)})
      BY DEF Inv, MergingKeeps, Regions!MergingKeeps, Regions!Merging
    <2> QED
      BY SameOperators DEF RegionsInv, Keeps, Inside, Entries
  <1> QED
    BY <1>1, DetectorsInvariant, PTL

\* With at most one box more than merge passes, no two lines that should be
\* merged are left: each pass but the last makes the list shorter.
THEOREM PassesSuffice == Spec => []Converged
  <1>1. Inv => Converged
    BY DEF Inv, RegionsInv, Converged
  <1> QED
    BY <1>1, DetectorsInvariant, PTL

\* The energy detector finds the stretches of speech that are long enough, whole,
\* in order, and nothing else, in a track of any length, for any length of a
\* frame and any shortest interval.
THEOREM FindsStretches == Spec => []StretchesFound
  <1>1. Inv => StretchesFound
    BY DEF Inv, SpeechInv, StretchesFound
  <1> QED
    BY <1>1, DetectorsInvariant, PTL

\* A match in a transcript of any length gets exactly the time from the first to
\* the last of the words it has a character of, and no match that has one is
\* dropped.
THEOREM TimesOfWords == Spec => []TimesAreTheWords
  <1>1. Inv => TimesAreTheWords
    BY TimesOfMatches DEF Inv, TimesAreTheWords
  <1> QED
    BY <1>1, DetectorsInvariant, PTL

\* If run_detectors() returns, it has passed over no frame, type or detector:
\* with any media, policy and registered detectors, every face of each cascade
\* and every long stretch of speech is reported, and every plausible blob of
\* MSER's meets a reported line.
THEOREM ReportsEverything == Spec => []EverythingReported
  <1>1. Inv => EverythingReported
    BY ReturnedIsReported DEF Inv
  <1> QED
    BY <1>1, DetectorsInvariant, PTL

\* A keyword of the policy, in any case, does not slip through between the text
\* Tesseract or Whisper reads and the place that is redacted, with any texts, any
\* words, any white space and whatever else the patterns meet: of a frame it
\* stands in, each word that it is part of, or that is part of it, lies in a box
\* reported for the frame; each word of the transcript it touches lies in a
\* reported interval.  Offsets into the lowered text lead there as long as lower()
\* lengthens nothing up to the end of the keyword.
THEOREM FindsKeywords == Spec => []KeywordsAreFound
  <1>1. Inv => KeywordsAreFound
    BY ReturnedHasKeywords DEF Inv
  <1> QED
    BY <1>1, DetectorsInvariant, PTL

-----------------------------------------------------------------------------
\* Discovery, the other half of registry.py: what the threads' imports leave in
\* the list of detectors that the threads share.

\* Where a thread is, and where a class stands; the class is in the list of its
\* type.
PositionOf(t) == <<thread[t].at, thread[t].part, thread[t].class>>
PackageAt(x) == Packages[x[1]]
ModuleAt(x) == Modules[Packages[x[1]]][x[2]]
IsListed(x) ==
    LET c == ClassAt(x)
    IN  \E j \in DOMAIN registry[c[1]] : registry[c[1]][j] = c[2]
Names == Range(Packages)

\* Types, and what a thread that imports has ahead of it.
ThreadStates ==
    [runs : Seq(Seq(Types) \ {<<>>}), step : {"discover", "import"},
     at : 1 .. Len(Packages) + 1, part : Nat \ {0}, class : Nat \ {0}]

DiscoveryTyped ==
    /\ registry \in [Types -> Seq({r[2] : r \in Registrations})]
    /\ imported \in [Names \cup DOMAIN Registers -> {"no", "importing", "yes"}]
    /\ thread \in [Threads -> ThreadStates]
    /\ failures \in 0 .. MaxFailures
    /\ \A t \in Threads : Importing(t) =>
          thread[t].runs # <<>> /\ thread[t].at <= Len(Packages)

\* A package is being imported exactly while one thread is at it.
OneImporter ==
    \A p \in Names :
        IF imported[p] = "importing"
        THEN \E t \in Threads : \A u \in Threads :
                (u = t) = (Importing(u) /\ Package(u) = p)
        ELSE \A t \in Threads : ~(Importing(t) /\ Package(t) = p)

\* The packages a thread is past are imported, and stay so.
PassedAreKnown ==
    \A t \in Threads : \A i \in 1 .. thread[t].at - 1 : imported[Packages[i]] = "yes"

\* What is imported is listed, and so is what an import has come through.
ImportedAreListed ==
    /\ \A x \in ClassPlaces :
          imported[PackageAt(x)] = "yes" \/ imported[ModuleAt(x)] = "yes" => IsListed(x)
    /\ \A t \in Threads : Importing(t) =>
          /\ \A x \in ClassPlaces : Before(x, PositionOf(t)) => IsListed(x)
          /\ InModule(t) /\ imported[Module(t)] = "yes" => thread[t].class = 1

\* The lists hold what stands somewhere, each behind what stands before it.
ListedInOrder ==
    \A type \in Types :
        /\ \A j \in DOMAIN registry[type] :
              \E x \in Of(type) : registry[type][j] = ClassAt(x)[2]
        /\ \A x, y \in Of(type) : Before(x, y) =>
              \A j \in DOMAIN registry[type] : registry[type][j] = ClassAt(y)[2] =>
                  \E i \in 1 .. j - 1 : registry[type][i] = ClassAt(x)[2]

\* As long as no import raises, only what is imported or passed by an import is
\* listed, and once.
ListedOnce ==
    failures = 0 =>
        /\ \A type \in Types : IsInjective(registry[type])
        /\ \A x \in ClassPlaces : IsListed(x) =>
              \/ imported[PackageAt(x)] = "yes"
              \/ \E t \in Threads : Importing(t) /\ Before(x, PositionOf(t))

\* What was returned is what is listed, and nothing is left to import.
SeenAreLists ==
    \A c \in seen : /\ c.type \in Types /\ c.list = registry[c.type]
                    /\ \A p \in Names : imported[p] = "yes"

DiscoveryInv ==
    /\ DiscoveryTyped /\ OneImporter /\ PassedAreKnown /\ ImportedAreListed
    /\ ListedInOrder /\ ListedOnce /\ SeenAreLists

DiscoverySteps == [DiscoveryNext]_discoveryVars

\* What a place is, and what one leads to.
LEMMA PlacesAre ==
    /\ \A x \in ClassPlaces :
          /\ x = <<x[1], x[2], x[3]>>
          /\ x[1] \in DOMAIN Packages
          /\ x[2] \in DOMAIN Modules[PackageAt(x)]
          /\ x[3] \in DOMAIN Registers[ModuleAt(x)]
    /\ \A p \in DOMAIN Packages : \A m \in DOMAIN Modules[Packages[p]] :
          \A k \in DOMAIN Registers[Modules[Packages[p]][m]] : <<p, m, k>> \in ClassPlaces
  <1>1. ASSUME NEW x \in ClassPlaces
        PROVE  /\ x = <<x[1], x[2], x[3]>>
               /\ x[1] \in DOMAIN Packages
               /\ x[2] \in DOMAIN Modules[PackageAt(x)]
               /\ x[3] \in DOMAIN Registers[ModuleAt(x)]
    <2>1. PICK p \in DOMAIN Packages :
             \E m \in DOMAIN Modules[Packages[p]] :
                \E k \in DOMAIN Registers[Modules[Packages[p]][m]] : x = <<p, m, k>>
      BY DEF ClassPlaces
    <2>2. PICK m \in DOMAIN Modules[Packages[p]] :
             \E k \in DOMAIN Registers[Modules[Packages[p]][m]] : x = <<p, m, k>>
      BY <2>1
    <2>3. PICK k \in DOMAIN Registers[Modules[Packages[p]][m]] : x = <<p, m, k>>
      BY <2>2
    <2> QED
      BY <2>3 DEF PackageAt, ModuleAt
  <1>2. ASSUME NEW p \in DOMAIN Packages, NEW m \in DOMAIN Modules[Packages[p]],
               NEW k \in DOMAIN Registers[Modules[Packages[p]][m]]
        PROVE  <<p, m, k>> \in ClassPlaces
    BY DEF ClassPlaces
  <1> QED
    BY <1>1, <1>2

\* The names and the class at a place.
LEMMA PlaceFields ==
    ASSUME NEW x \in ClassPlaces
    PROVE  LET c == ClassAt(x)
           IN  /\ PackageAt(x) \in Names /\ ModuleAt(x) \in DOMAIN Registers
               /\ ModuleAt(x) \notin Names /\ x[1] \in Nat /\ x[2] \in Nat /\ x[3] \in Nat
               /\ c \in Registrations /\ c[1] \in Types /\ c = <<c[1], c[2]>>
               /\ x[1] \in 1 .. Len(Packages)
  <1> DEFINE c == ClassAt(x)
  <1>1. /\ Packages \in Seq(DOMAIN Modules)
        /\ Modules \in [DOMAIN Modules -> Seq(DOMAIN Registers)]
        /\ DOMAIN Modules \cap DOMAIN Registers = {}
    BY DiscoveryAssumption DEF NamesAreKnown
  <1>2. /\ x[1] \in DOMAIN Packages
        /\ x[2] \in DOMAIN Modules[PackageAt(x)]
        /\ x[3] \in DOMAIN Registers[ModuleAt(x)]
    BY PlacesAre
  <1>3. /\ PackageAt(x) \in DOMAIN Modules /\ PackageAt(x) \in Names
        /\ x[1] \in 1 .. Len(Packages)
    BY <1>1, <1>2 DEF PackageAt, Names, Range
  <1>4. Modules[PackageAt(x)] \in Seq(DOMAIN Registers)
    BY <1>1, <1>3
  <1>5. ModuleAt(x) \in DOMAIN Registers /\ x[2] \in Nat
    BY <1>2, <1>4 DEF ModuleAt, PackageAt
  <1>6. ModuleAt(x) \notin Names
    BY <1>1, <1>5 DEF Names, Range
  <1>7. Registers[ModuleAt(x)] \in Seq(Registrations)
    BY <1>5, DiscoveryAssumption DEF ClassesAreListed
  <1>8. c = Registers[ModuleAt(x)][x[3]]
    BY DEF ClassAt, ModuleAt
  <1>9. c \in Registrations /\ x[3] \in Nat
    BY <1>2, <1>7, <1>8
  <1>10. c[1] \in Types /\ c = <<c[1], c[2]>>
    BY <1>9, DiscoveryAssumption DEF Types, ClassesAreListed
  <1> QED
    BY <1>3, <1>5, <1>6, <1>9, <1>10

\* What a thread that imports is at.
LEMMA ImportNames ==
    ASSUME DiscoveryTyped, NEW t \in Threads, Importing(t)
    PROVE  /\ thread[t].at \in DOMAIN Packages /\ thread[t].at \in 1 .. Len(Packages)
           /\ Package(t) \in Names
           /\ Package(t) \in DOMAIN Modules
           /\ Parts(t) \in Seq(DOMAIN Registers)
           /\ InModule(t) =>
                 /\ thread[t].part \in DOMAIN Parts(t)
                 /\ Module(t) \in DOMAIN Registers /\ Module(t) \notin Names
                 /\ Classes(t) \in Seq(Registrations)
                 /\ thread[t].class <= Len(Classes(t)) =>
                       /\ thread[t].class \in DOMAIN Classes(t)
                       /\ PositionOf(t) \in ClassPlaces
                       /\ ClassAt(PositionOf(t)) = Classes(t)[thread[t].class]
                       /\ PackageAt(PositionOf(t)) = Package(t)
  <1>1. /\ Packages \in Seq(DOMAIN Modules)
        /\ Modules \in [DOMAIN Modules -> Seq(DOMAIN Registers)]
        /\ DOMAIN Modules \cap DOMAIN Registers = {}
    BY DiscoveryAssumption DEF NamesAreKnown
  <1>2. thread[t] \in ThreadStates /\ thread[t].at <= Len(Packages)
    BY DEF DiscoveryTyped
  <1>3. thread[t].at \in Nat \ {0} /\ thread[t].part \in Nat \ {0} /\ thread[t].class \in Nat \ {0}
    BY <1>1, <1>2 DEF ThreadStates
  <1>4. thread[t].at \in DOMAIN Packages /\ thread[t].at \in 1 .. Len(Packages)
    BY <1>1, <1>2, <1>3
  <1>5. Package(t) \in Names /\ Package(t) \in DOMAIN Modules
    BY <1>1, <1>4 DEF Package, Names, Range
  <1>6. Parts(t) \in Seq(DOMAIN Registers)
    BY <1>1, <1>5 DEF Parts
  <1>7. ASSUME InModule(t)
        PROVE  /\ thread[t].part \in DOMAIN Parts(t)
               /\ Module(t) \in DOMAIN Registers /\ Module(t) \notin Names
               /\ Classes(t) \in Seq(Registrations)
    <2>1. thread[t].part \in DOMAIN Parts(t)
      BY <1>3, <1>6, <1>7 DEF InModule
    <2>2. Module(t) \in DOMAIN Registers
      BY <1>6, <2>1 DEF Module
    <2>3. Module(t) \notin Names
      BY <1>1, <2>2 DEF Names, Range
    <2>4. Classes(t) \in Seq(Registrations)
      BY <2>2, DiscoveryAssumption DEF ClassesAreListed, Classes
    <2> QED
      BY <2>1, <2>2, <2>3, <2>4
  <1>8. ASSUME InModule(t), thread[t].class <= Len(Classes(t))
        PROVE  /\ thread[t].class \in DOMAIN Classes(t)
               /\ PositionOf(t) \in ClassPlaces
               /\ ClassAt(PositionOf(t)) = Classes(t)[thread[t].class]
               /\ PackageAt(PositionOf(t)) = Package(t)
    <2>1. thread[t].class \in DOMAIN Classes(t)
      BY <1>3, <1>7, <1>8
    <2>2. thread[t].class \in DOMAIN Registers[Modules[Packages[thread[t].at]][thread[t].part]]
      BY <2>1 DEF Classes, Module, Parts, Package
    <2>3. thread[t].part \in DOMAIN Modules[Packages[thread[t].at]]
      BY <1>7, <1>8 DEF Parts, Package
    <2>4. PositionOf(t) \in ClassPlaces
      BY <1>4, <2>2, <2>3, PlacesAre DEF PositionOf
    <2>5. /\ ClassAt(PositionOf(t)) = Classes(t)[thread[t].class]
          /\ PackageAt(PositionOf(t)) = Package(t)
      BY DEF PositionOf, PackageAt, ClassAt, Classes, Module,
             Parts, Package
    <2> QED
      BY <2>1, <2>4, <2>5
  <1> QED
    BY <1>4, <1>5, <1>6, <1>7, <1>8

\* Only one thread imports at a time: it is at the first package that is not
\* imported.
LEMMA OneAtATime ==
    ASSUME DiscoveryTyped, OneImporter, PassedAreKnown,
           NEW t \in Threads, Importing(t)
    PROVE  /\ imported[Package(t)] = "importing"
           /\ \A u \in Threads : Importing(u) => u = t
  <1>1. ASSUME NEW u \in Threads, Importing(u)
        PROVE  /\ imported[Package(u)] = "importing" /\ thread[u].at \in Nat
               /\ thread[u].at >= 1
               /\ \A v \in Threads : Importing(v) /\ Package(v) = Package(u) => v = u
    <2>1. Package(u) \in Names /\ thread[u].at \in 1 .. Len(Packages)
      BY <1>1, ImportNames
    <2>2. imported[Package(u)] = "importing"
      BY <1>1, <2>1 DEF OneImporter
    <2>3. PICK v \in Threads : \A w \in Threads :
             (w = v) = (Importing(w) /\ Package(w) = Package(u))
      BY <2>1, <2>2 DEF OneImporter
    <2> QED
      BY <1>1, <2>1, <2>2, <2>3
  <1>2. ASSUME NEW u \in Threads, Importing(u)
        PROVE  u = t
    <2>1. ASSUME thread[u].at < thread[t].at PROVE FALSE
      <3>1. thread[u].at \in 1 .. thread[t].at - 1
        BY <1>1, <1>2, <2>1
      <3>2. imported[Package(u)] = "yes"
        BY <3>1 DEF PassedAreKnown, Package
      <3> QED
        BY <1>1, <1>2, <3>2
    <2>2. ASSUME thread[t].at < thread[u].at PROVE FALSE
      <3>1. thread[t].at \in 1 .. thread[u].at - 1
        BY <1>1, <1>2, <2>2
      <3>2. imported[Package(t)] = "yes"
        BY <1>2, <3>1 DEF PassedAreKnown, Package
      <3> QED
        BY <1>1, <3>2
    <2>3. thread[t].at = thread[u].at
      BY <1>1, <1>2, <2>1, <2>2
    <2>4. Package(t) = Package(u)
      BY <2>3 DEF Package
    <2> QED
      BY <1>1, <1>2, <2>4
  <1> QED
    BY <1>1, <1>2

\* A thread's next calls are calls.
LEMMA RunsGoOn ==
    ASSUME NEW S, NEW runs \in Seq(Seq(S) \ {<<>>}), runs # <<>>
    PROVE  /\ Head(Head(runs)) \in S
           /\ Tail(runs) \in Seq(Seq(S) \ {<<>>})
           /\ Remaining(runs) \in Seq(Seq(S) \ {<<>>})
  <1>1. Head(runs) \in Seq(S) /\ Head(runs) # <<>> /\ Tail(runs) \in Seq(Seq(S) \ {<<>>})
    <2>1. Head(runs) \in Seq(S) \ {<<>>} /\ Tail(runs) \in Seq(Seq(S) \ {<<>>})
      BY HeadTailProperties
    <2> QED
      BY <2>1
  <1>2. Head(Head(runs)) \in S /\ Tail(Head(runs)) \in Seq(S) /\ Len(Tail(Head(runs))) = Len(Head(runs)) - 1
    BY <1>1, HeadTailProperties
  <1>3. ASSUME Len(Head(runs)) # 1 PROVE Tail(Head(runs)) # <<>>
    <2>1. Len(Head(runs)) \in Nat
      BY <1>1
    <2>2. Len(Tail(Head(runs))) # 0
      BY <1>2, <1>3, <2>1
    <2> QED
      BY <2>2, EmptySeq
  <1>4. ASSUME Len(Head(runs)) # 1 PROVE <<Tail(Head(runs))>> \o Tail(runs) \in Seq(Seq(S) \ {<<>>})
    <2>1. Tail(Head(runs)) \in Seq(S) \ {<<>>}
      BY <1>2, <1>3, <1>4
    <2>2. <<Tail(Head(runs))>> \in Seq(Seq(S) \ {<<>>})
      BY <2>1
    <2> QED
      BY <1>1, <2>2, ConcatProperties
  <1> QED
    BY <1>1, <1>2, <1>4 DEF Remaining

\* A thread about to look at the first package.
LEMMA StartTyped ==
    ASSUME NEW runs \in Seq(Seq(Types) \ {<<>>})
    PROVE  Begun(runs) \in ThreadStates /\ Begun(runs).step = "discover"
  <1>1. Len(Packages) \in Nat
    BY DiscoveryAssumption DEF NamesAreKnown
  <1>2. 1 \in 1 .. Len(Packages) + 1
    BY <1>1
  <1> QED
    BY <1>2 DEF Begun, ThreadStates

\* Thread t goes on in its call, or begins the next one; the others stay.
OthersStay(t) ==
    /\ thread' = [u \in Threads |-> thread'[u]]
    /\ \A u \in Threads \ {t} : thread'[u] = thread[u]

MovesTo(t, step, at, part, class) ==
    /\ OthersStay(t)
    /\ thread'[t] = [runs |-> thread[t].runs, step |-> step, at |-> at, part |-> part, class |-> class]

StartsOver(t) ==
    /\ OthersStay(t)
    /\ thread'[t] \in ThreadStates /\ thread'[t].step = "discover" /\ thread'[t].at = 1

LEMMA ThreadMoves ==
    ASSUME DiscoveryTyped, NEW t \in Threads
    PROVE  LET at == thread[t].at
               part == thread[t].part
               class == thread[t].class
           IN  /\ SkipPackage(t) => MovesTo(t, "discover", at + 1, part, class)
               /\ BeginImport(t) => MovesTo(t, "import", at, 1, 1)
               /\ SkipModule(t) => MovesTo(t, "import", at, part + 1, class)
               /\ Register(t) => MovesTo(t, "import", at, part, class + 1)
               /\ FinishModule(t) => MovesTo(t, "import", at, part + 1, 1)
               /\ FinishImport(t) => MovesTo(t, "discover", at + 1, part, class)
               /\ ImportRaises(t) => StartsOver(t)
               /\ InstantiateRaises(t) => StartsOver(t)
               /\ Instantiate(t) => StartsOver(t)
  <1> DEFINE at == thread[t].at
             part == thread[t].part
             class == thread[t].class
             moved(step, a, p, c) ==
                [runs |-> thread[t].runs, step |-> step, at |-> a, part |-> p, class |-> c]
  <1>1. thread \in [Threads -> ThreadStates] /\ thread[t] \in ThreadStates
    BY DEF DiscoveryTyped
  <1>2. ASSUME NEW state, thread' = [thread EXCEPT ![t] = state]
        PROVE  OthersStay(t) /\ thread'[t] = state
    BY <1>1, <1>2 DEF OthersStay
  <1>3. \A x : /\ [thread[t] EXCEPT !.step = x] = moved(x, at, part, class)
              /\ [thread[t] EXCEPT !.at = x] = moved(thread[t].step, x, part, class)
              /\ [thread[t] EXCEPT !.part = x] = moved(thread[t].step, at, x, class)
              /\ [thread[t] EXCEPT !.class = x] = moved(thread[t].step, at, part, x)
    <2> DEFINE s == thread[t]
    <2>1. s = [runs |-> s.runs, step |-> s.step, at |-> s.at, part |-> s.part, class |-> s.class]
      BY <1>1 DEF ThreadStates
    <2> HIDE DEF s
    <2>2. \A x : /\ [s EXCEPT !.step = x] =
                       [runs |-> s.runs, step |-> x, at |-> s.at, part |-> s.part, class |-> s.class]
                 /\ [s EXCEPT !.at = x] =
                       [runs |-> s.runs, step |-> s.step, at |-> x, part |-> s.part, class |-> s.class]
      BY <2>1
    <2>3. \A x : /\ [s EXCEPT !.part = x] =
                       [runs |-> s.runs, step |-> s.step, at |-> s.at, part |-> x, class |-> s.class]
                 /\ [s EXCEPT !.class = x] =
                       [runs |-> s.runs, step |-> s.step, at |-> s.at, part |-> s.part, class |-> x]
      BY <2>1
    <2> QED
      BY <2>2, <2>3 DEF s
  <1>4. ASSUME SkipPackage(t) PROVE MovesTo(t, "discover", at + 1, part, class)
    <2>1. thread' = [thread EXCEPT ![t] = [thread[t] EXCEPT !.at = at + 1]] /\ thread[t].step = "discover"
      BY <1>4 DEF SkipPackage, Discovering
    <2>2. [thread[t] EXCEPT !.at = at + 1] = moved("discover", at + 1, part, class)
      BY <1>3, <2>1
    <2> QED
      BY <1>2, <2>1, <2>2 DEF MovesTo
  <1>5. ASSUME BeginImport(t) PROVE MovesTo(t, "import", at, 1, 1)
    <2>1. thread' = [thread EXCEPT ![t] =
                        [[[thread[t] EXCEPT !.step = "import"] EXCEPT !.part = 1] EXCEPT !.class = 1]]
      BY <1>1, <1>5 DEF BeginImport, ThreadStates
    <2>2. [thread[t] EXCEPT !.step = "import"] = moved("import", at, part, class)
      BY <1>3
    <2>3. [moved("import", at, part, class) EXCEPT !.part = 1] = moved("import", at, 1, class)
      OBVIOUS
    <2>4. [moved("import", at, 1, class) EXCEPT !.class = 1] = moved("import", at, 1, 1)
      OBVIOUS
    <2> HIDE DEF moved
    <2>5. thread' = [thread EXCEPT ![t] = moved("import", at, 1, 1)]
      BY <2>1, <2>2, <2>3, <2>4
    <2> QED
      BY <1>2, <2>5 DEF MovesTo, moved
  <1>6. Importing(t) => thread[t].step = "import"
    BY DEF Importing
  <1>7. ASSUME SkipModule(t) PROVE MovesTo(t, "import", at, part + 1, class)
    <2>1. thread' = [thread EXCEPT ![t] = [thread[t] EXCEPT !.part = part + 1]] /\ thread[t].step = "import"
      BY <1>6, <1>7 DEF SkipModule, InModule
    <2>2. [thread[t] EXCEPT !.part = part + 1] = moved("import", at, part + 1, class)
      BY <1>3, <2>1
    <2> QED
      BY <1>2, <2>1, <2>2 DEF MovesTo
  <1>8. ASSUME Register(t) PROVE MovesTo(t, "import", at, part, class + 1)
    <2>1. thread' = [thread EXCEPT ![t] = [thread[t] EXCEPT !.class = class + 1]] /\ thread[t].step = "import"
      BY <1>6, <1>8 DEF Register, InModule
    <2>2. [thread[t] EXCEPT !.class = class + 1] = moved("import", at, part, class + 1)
      BY <1>3, <2>1
    <2> QED
      BY <1>2, <2>1, <2>2 DEF MovesTo
  <1>9. ASSUME FinishModule(t) PROVE MovesTo(t, "import", at, part + 1, 1)
    <2>1. /\ thread' = [thread EXCEPT ![t] = [[thread[t] EXCEPT !.part = part + 1] EXCEPT !.class = 1]]
          /\ thread[t].step = "import"
      BY <1>1, <1>6, <1>9 DEF FinishModule, InModule, ThreadStates
    <2>2. [thread[t] EXCEPT !.part = part + 1] = moved("import", at, part + 1, class)
      BY <1>3, <2>1
    <2>3. [moved("import", at, part + 1, class) EXCEPT !.class = 1] = moved("import", at, part + 1, 1)
      OBVIOUS
    <2> HIDE DEF moved
    <2>4. thread' = [thread EXCEPT ![t] = moved("import", at, part + 1, 1)]
      BY <2>1, <2>2, <2>3
    <2> QED
      BY <1>2, <2>4 DEF MovesTo, moved
  <1>10. ASSUME FinishImport(t) PROVE MovesTo(t, "discover", at + 1, part, class)
    <2>1. thread' = [thread EXCEPT ![t] = [[thread[t] EXCEPT !.step = "discover"] EXCEPT !.at = at + 1]]
      BY <1>1, <1>10 DEF FinishImport, ThreadStates
    <2>2. [thread[t] EXCEPT !.step = "discover"] = moved("discover", at, part, class)
      BY <1>3
    <2>3. [moved("discover", at, part, class) EXCEPT !.at = at + 1] = moved("discover", at + 1, part, class)
      OBVIOUS
    <2> HIDE DEF moved
    <2>4. thread' = [thread EXCEPT ![t] = moved("discover", at + 1, part, class)]
      BY <2>1, <2>2, <2>3
    <2> QED
      BY <1>2, <2>4 DEF MovesTo, moved
  <1>11. ASSUME thread[t].runs # <<>>, NEW runs,
                runs = Tail(thread[t].runs) \/ runs = Remaining(thread[t].runs),
                thread' = [thread EXCEPT ![t] = Begun(runs)]
         PROVE  StartsOver(t)
    <2>1. thread[t].runs \in Seq(Seq(Types) \ {<<>>})
      BY <1>1 DEF ThreadStates
    <2>2. runs \in Seq(Seq(Types) \ {<<>>})
      <3>1. /\ Tail(thread[t].runs) \in Seq(Seq(Types) \ {<<>>})
            /\ Remaining(thread[t].runs) \in Seq(Seq(Types) \ {<<>>})
        BY <1>11, <2>1, RunsGoOn
      <3> QED
        BY <1>11, <3>1
    <2>3. /\ Begun(runs) \in ThreadStates /\ Begun(runs).step = "discover"
          /\ Begun(runs).at = 1
      BY <2>2, StartTyped DEF Begun
    <2>4. OthersStay(t) /\ thread'[t] = Begun(runs)
      BY <1>2, <1>11
    <2> QED
      BY <2>3, <2>4 DEF StartsOver
  <1>12. ASSUME ImportRaises(t) \/ InstantiateRaises(t) PROVE StartsOver(t)
    <2>1. thread[t].runs # <<>>
      BY <1>12 DEF ImportRaises, InstantiateRaises, Instantiating, DiscoveryTyped
    <2>2. thread' = [thread EXCEPT ![t] = Begun(Tail(thread[t].runs))]
      BY <1>12 DEF ImportRaises, InstantiateRaises, Abandon
    <2> QED
      BY <1>11, <2>1, <2>2
  <1>13. ASSUME Instantiate(t) PROVE StartsOver(t)
    <2>1. thread[t].runs # <<>>
      BY <1>13 DEF Instantiate, Instantiating
    <2>2. thread' = [thread EXCEPT ![t] = Begun(Remaining(thread[t].runs))]
      BY <1>13 DEF Instantiate
    <2> QED
      BY <1>11, <2>1, <2>2
  <1> QED
    BY <1>4, <1>5, <1>7, <1>8, <1>9, <1>10, <1>12, <1>13

\* Each part of the invariant is kept by every step: first the types.
LEMMA DiscoveryTypedKeeps ==
    ASSUME DiscoveryTyped, DiscoverySteps
    PROVE  DiscoveryTyped'
  <1>1. CASE UNCHANGED discoveryVars
    BY <1>1 DEF DiscoveryTyped, discoveryVars, Importing
  <1>2. ASSUME NEW t \in Threads,
               Proceed(t) \/ ImportRaises(t) \/ InstantiateRaises(t)
        PROVE  DiscoveryTyped'
    <2>1. /\ registry \in [Types -> Seq({r[2] : r \in Registrations})]
          /\ imported \in [Names \cup DOMAIN Registers -> {"no", "importing", "yes"}]
          /\ thread \in [Threads -> ThreadStates]
          /\ failures \in 0 .. MaxFailures /\ MaxFailures \in Nat
          /\ \A u \in Threads : thread[u].step = "import" => thread[u].runs # <<>> /\ thread[u].at <= Len(Packages)
          /\ Len(Packages) \in Nat
      <3>1. MaxFailures \in Nat /\ Len(Packages) \in Nat
        BY DiscoveryAssumption DEF CallsAskForTypes, NamesAreKnown
      <3> QED
        BY <3>1 DEF DiscoveryTyped, Importing
    <2>2. /\ thread[t].runs \in Seq(Seq(Types) \ {<<>>})
          /\ thread[t].at \in 1 .. Len(Packages) + 1
          /\ thread[t].part \in Nat \ {0} /\ thread[t].class \in Nat \ {0}
          /\ thread[t].part + 1 \in Nat \ {0} /\ thread[t].class + 1 \in Nat \ {0}
          /\ 1 \in Nat \ {0}
      BY <2>1 DEF ThreadStates
    <2> DEFINE typed == /\ thread' \in [Threads -> ThreadStates]
                        /\ \A u \in Threads : Importing(u)' =>
                               thread'[u].runs # <<>> /\ thread'[u].at <= Len(Packages)
    <2>3. ASSUME NEW step \in {"discover", "import"}, NEW at \in 1 .. Len(Packages) + 1,
                 NEW part \in Nat \ {0}, NEW class \in Nat \ {0},
                 step = "import" => thread[t].runs # <<>> /\ at <= Len(Packages),
                 MovesTo(t, step, at, part, class)
          PROVE  typed
      <3>1. /\ thread'[t] \in ThreadStates
            /\ thread'[t].step = "import" => thread'[t].runs # <<>> /\ thread'[t].at <= Len(Packages)
        BY <2>2, <2>3 DEF MovesTo, ThreadStates
      <3>2. /\ \A u \in Threads \ {t} : thread'[u] = thread[u]
            /\ thread' = [u \in Threads |-> thread'[u]]
        BY <2>3 DEF MovesTo, OthersStay
      <3>3. \A u \in Threads : thread'[u] \in ThreadStates
        BY <2>1, <3>1, <3>2
      <3>4. thread' \in [Threads -> ThreadStates]
        BY <3>2, <3>3
      <3> QED
        BY <2>1, <3>1, <3>2, <3>4 DEF Importing
    <2>4. ASSUME StartsOver(t)
          PROVE  typed
      <3>1. /\ \A u \in Threads \ {t} : thread'[u] = thread[u]
            /\ thread' = [u \in Threads |-> thread'[u]]
            /\ thread'[t] \in ThreadStates /\ thread'[t].step = "discover"
        BY <2>4 DEF StartsOver, OthersStay
      <3>2. \A u \in Threads : thread'[u] \in ThreadStates
        BY <2>1, <3>1
      <3>3. thread' \in [Threads -> ThreadStates]
        BY <3>1, <3>2
      <3> QED
        BY <2>1, <3>1, <3>3 DEF Importing
    <2> HIDE DEF typed
    <2>5. ASSUME typed,
                 registry' \in [Types -> Seq({r[2] : r \in Registrations})],
                 imported' \in [Names \cup DOMAIN Registers -> {"no", "importing", "yes"}],
                 failures' \in 0 .. MaxFailures
          PROVE  DiscoveryTyped'
      BY <2>5 DEF DiscoveryTyped, typed
    <2>6. CASE SkipPackage(t)
      <3>1. MovesTo(t, "discover", thread[t].at + 1, thread[t].part, thread[t].class)
        BY <2>6, ThreadMoves
      <3>2. thread[t].at + 1 \in 1 .. Len(Packages) + 1
        BY <2>1, <2>2, <2>6 DEF SkipPackage, Discovering
      <3>3. typed
        BY <2>2, <2>3, <3>1, <3>2
      <3> QED
        BY <2>1, <2>5, <2>6, <3>3 DEF SkipPackage
    <2>7. CASE BeginImport(t)
      <3>1. MovesTo(t, "import", thread[t].at, 1, 1)
        BY <2>7, ThreadMoves
      <3>2. thread[t].runs # <<>> /\ thread[t].at <= Len(Packages)
        BY <2>7 DEF BeginImport, Discovering
      <3>3. typed
        BY <2>2, <2>3, <3>1, <3>2
      <3>4. imported' \in [Names \cup DOMAIN Registers -> {"no", "importing", "yes"}]
        BY <2>1, <2>7 DEF BeginImport
      <3> QED
        BY <2>1, <2>5, <2>7, <3>3, <3>4 DEF BeginImport
    <2>8. ASSUME Importing(t)
          PROVE  thread[t].runs # <<>> /\ thread[t].at <= Len(Packages)
      BY <2>8 DEF DiscoveryTyped
    <2>9. CASE SkipModule(t)
      <3>1. MovesTo(t, "import", thread[t].at, thread[t].part + 1, thread[t].class)
        BY <2>9, ThreadMoves
      <3>2. typed
        BY <2>2, <2>3, <2>8, <2>9, <3>1 DEF SkipModule, InModule
      <3> QED
        BY <2>1, <2>5, <2>9, <3>2 DEF SkipModule
    <2>10. CASE Register(t)
      <3>1. MovesTo(t, "import", thread[t].at, thread[t].part, thread[t].class + 1)
        BY <2>10, ThreadMoves
      <3>2. typed
        BY <2>2, <2>3, <2>8, <2>10, <3>1 DEF Register, InModule
      <3>3. registry' \in [Types -> Seq({r[2] : r \in Registrations})]
        <4> DEFINE r == Classes(t)[thread[t].class]
        <4>1. Importing(t) /\ InModule(t) /\ thread[t].class <= Len(Classes(t))
          BY <2>10 DEF Register, InModule
        <4>2. Classes(t) \in Seq(Registrations) /\ thread[t].class \in DOMAIN Classes(t)
          BY <4>1, ImportNames
        <4>3. r \in Registrations
          BY <4>2
        <4>4. r[1] \in Types /\ r[2] \in {q[2] : q \in Registrations}
          BY <4>3 DEF Types
        <4>5. registry' = [registry EXCEPT ![r[1]] = Append(@, r[2])]
          BY <2>10 DEF Register
        <4> HIDE DEF r
        <4>6. Append(registry[r[1]], r[2]) \in Seq({q[2] : q \in Registrations})
          BY <2>1, <4>4, AppendProperties
        <4> QED
          BY <2>1, <4>4, <4>5, <4>6
      <3> QED
        BY <2>1, <2>5, <2>10, <3>2, <3>3 DEF Register
    <2>11. CASE FinishModule(t)
      <3>1. MovesTo(t, "import", thread[t].at, thread[t].part + 1, 1)
        BY <2>11, ThreadMoves
      <3>2. typed
        BY <2>2, <2>3, <2>8, <2>11, <3>1 DEF FinishModule, InModule
      <3>3. imported' \in [Names \cup DOMAIN Registers -> {"no", "importing", "yes"}]
        BY <2>1, <2>11 DEF FinishModule
      <3> QED
        BY <2>1, <2>5, <2>11, <3>2, <3>3 DEF FinishModule
    <2>12. CASE FinishImport(t)
      <3>1. MovesTo(t, "discover", thread[t].at + 1, thread[t].part, thread[t].class)
        BY <2>12, ThreadMoves
      <3>2. thread[t].at + 1 \in 1 .. Len(Packages) + 1
        BY <2>1, <2>2, <2>8, <2>12 DEF FinishImport
      <3>3. typed
        BY <2>2, <2>3, <3>1, <3>2
      <3>4. imported' \in [Names \cup DOMAIN Registers -> {"no", "importing", "yes"}]
        BY <2>1, <2>12 DEF FinishImport
      <3> QED
        BY <2>1, <2>5, <2>12, <3>3, <3>4 DEF FinishImport
    <2>13. CASE Instantiate(t)
      <3>1. typed
        BY <2>4, <2>13, ThreadMoves
      <3> QED
        BY <2>1, <2>5, <2>13, <3>1 DEF Instantiate
    <2>14. CASE InstantiateRaises(t) \/ ImportRaises(t)
      <3>1. typed
        BY <2>4, <2>14, ThreadMoves
      <3>2. failures' \in 0 .. MaxFailures /\ registry' = registry
        BY <2>1, <2>14 DEF InstantiateRaises, ImportRaises, Abandon
      <3>3. imported' \in [Names \cup DOMAIN Registers -> {"no", "importing", "yes"}]
        BY <2>1, <2>14 DEF ImportRaises, InstantiateRaises
      <3> QED
        BY <2>1, <2>5, <3>1, <3>2, <3>3
    <2> QED
      BY <1>2, <2>6, <2>7, <2>9, <2>10, <2>11, <2>12, <2>13, <2>14 DEF Proceed
  <1> QED
    BY <1>1, <1>2 DEF DiscoverySteps, DiscoveryNext

\* What a step of thread t does to the modules, and to the lists.
StepOf(t) == Proceed(t) \/ ImportRaises(t) \/ InstantiateRaises(t)

LEMMA ImportMoves ==
    ASSUME DiscoveryTyped, OneImporter, PassedAreKnown,
           NEW t \in Threads, StepOf(t)
    PROVE  /\ BeginImport(t) => imported' = [imported EXCEPT ![Package(t)] = "importing"]
           /\ FinishModule(t) => imported' = [imported EXCEPT ![Module(t)] = "yes"]
           /\ FinishImport(t) => imported' = [imported EXCEPT ![Package(t)] = "yes"]
           /\ ImportRaises(t) => imported' = [imported EXCEPT ![Package(t)] = "no"]
           /\ \/ BeginImport(t) \/ FinishModule(t)
              \/ FinishImport(t) \/ ImportRaises(t)
              \/ imported' = imported
           /\ \A m \in Names \cup DOMAIN Registers : imported[m] = "yes" => imported'[m] = "yes"
           /\ \A m \in DOMAIN Registers \ Names :
                 imported'[m] = imported[m] \/ (FinishModule(t) /\ m = Module(t))
  <1>1. imported \in [Names \cup DOMAIN Registers -> {"no", "importing", "yes"}]
    BY DEF DiscoveryTyped
  <1>2. /\ BeginImport(t) => imported' = [imported EXCEPT ![Package(t)] = "importing"]
        /\ FinishModule(t) => imported' = [imported EXCEPT ![Module(t)] = "yes"]
        /\ FinishImport(t) => imported' = [imported EXCEPT ![Package(t)] = "yes"]
        /\ ImportRaises(t) => imported' = [imported EXCEPT ![Package(t)] = "no"]
    BY DEF BeginImport, FinishModule, FinishImport, ImportRaises
  <1>3. \/ BeginImport(t) \/ FinishModule(t)
        \/ FinishImport(t) \/ ImportRaises(t)
        \/ imported' = imported
    BY DEF StepOf, Proceed, SkipPackage, SkipModule, Register,
       Instantiate, InstantiateRaises
  <1>4. CASE BeginImport(t)
    <2>1. imported[Package(t)] = "no" /\ Package(t) \in Names
      <3>1. thread[t].at \in DOMAIN Packages
        BY <1>4, DiscoveryAssumption DEF BeginImport, Discovering, DiscoveryTyped, ThreadStates, NamesAreKnown
      <3> QED
        BY <1>4, <3>1 DEF BeginImport, Package, Names, Range
    <2> QED
      BY <1>1, <1>2, <1>3, <1>4, <2>1
  <1>5. CASE FinishModule(t)
    BY <1>1, <1>2, <1>3, <1>5
  <1>6. CASE FinishImport(t) \/ ImportRaises(t)
    <2>1. Importing(t)
      BY <1>6 DEF FinishImport, ImportRaises
    <2>2. imported[Package(t)] = "importing" /\ Package(t) \in Names
      BY <2>1, OneAtATime, ImportNames
    <2> QED
      BY <1>1, <1>2, <1>3, <1>6, <2>2
  <1>7. CASE imported' = imported
    BY <1>2, <1>3, <1>7
  <1> QED
    BY <1>3, <1>4, <1>5, <1>6, <1>7

\* A package's import is begun by one thread, which ends it or takes it back.
LEMMA OneImporterKeeps ==
    ASSUME DiscoveryTyped, OneImporter, PassedAreKnown, DiscoverySteps
    PROVE  OneImporter'
  <1>1. ASSUME \A u \in Threads : /\ Importing(u)' <=> Importing(u)
                                  /\ Importing(u) => Package(u)' = Package(u),
               \A p \in Names : imported'[p] = imported[p]
        PROVE  OneImporter'
    <2> SUFFICES ASSUME NEW p \in Names
                 PROVE  IF imported'[p] = "importing"
                        THEN \E t \in Threads : \A u \in Threads :
                                (u = t) = (Importing(u)' /\ Package(u)' = p)
                        ELSE \A t \in Threads : ~(Importing(t)' /\ Package(t)' = p)
      BY DEF OneImporter, Names
    <2>1. \A u \in Threads : (Importing(u)' /\ Package(u)' = p)
                              = (Importing(u) /\ Package(u) = p)
      BY <1>1
    <2>2. imported'[p] = imported[p]
      BY <1>1
    <2>3. CASE imported[p] = "importing"
      <3>1. PICK t \in Threads : \A u \in Threads :
               (u = t) = (Importing(u) /\ Package(u) = p)
        BY <2>3 DEF OneImporter
      <3> QED
        BY <2>1, <2>2, <2>3, <3>1
    <2>4. CASE imported[p] # "importing"
      <3>1. \A t \in Threads : ~(Importing(t) /\ Package(t) = p)
        BY <2>4 DEF OneImporter
      <3> QED
        BY <2>1, <2>2, <2>4, <3>1
    <2> QED
      BY <2>3, <2>4
  <1>2. CASE UNCHANGED discoveryVars
    <2>1. \A u \in Threads : /\ Importing(u)' <=> Importing(u)
                             /\ Package(u)' = Package(u)
      BY <1>2 DEF discoveryVars, Importing, Package
    <2> QED
      BY <1>1, <1>2, <2>1 DEF discoveryVars
  <1>3. ASSUME NEW t \in Threads, StepOf(t)
        PROVE  OneImporter'
    <2>1. imported \in [Names \cup DOMAIN Registers -> {"no", "importing", "yes"}]
      BY DEF DiscoveryTyped
    <2>2. ASSUME OthersStay(t)
          PROVE  \A u \in Threads \ {t} : /\ Importing(u)' <=> Importing(u)
                                          /\ Package(u)' = Package(u)
      BY <2>2 DEF OthersStay, Importing, Package
    <2>3. ASSUME NEW step \in {"discover", "import"}, NEW at, NEW part, NEW class,
                 MovesTo(t, step, at, part, class)
          PROVE  /\ OthersStay(t) /\ (Importing(t)' <=> step = "import")
                 /\ Package(t)' = Packages[at]
      BY <2>3 DEF MovesTo, Importing, Package
    <2>4. ASSUME StartsOver(t) PROVE OthersStay(t) /\ ~Importing(t)'
      BY <2>4 DEF StartsOver, Importing
    <2>5. CASE SkipPackage(t)
      <3>1. OthersStay(t) /\ ~Importing(t)' /\ ~Importing(t)
        BY <2>3, <2>5, ThreadMoves DEF SkipPackage, Discovering, Importing
      <3>2. imported' = imported
        BY <2>5 DEF SkipPackage
      <3>3. \A u \in Threads : /\ Importing(u)' <=> Importing(u)
                               /\ Importing(u) => Package(u)' = Package(u)
        BY <2>2, <3>1
      <3> QED
        BY <1>1, <3>2, <3>3
    <2>6. CASE Instantiate(t) \/ InstantiateRaises(t)
      <3>1. OthersStay(t) /\ ~Importing(t)'
        BY <2>4, <2>6, ThreadMoves
      <3>2. thread[t].at > Len(Packages)
        BY <2>6 DEF Instantiate, InstantiateRaises, Instantiating
      <3>3. ~Importing(t)
        <4> SUFFICES ASSUME Importing(t) PROVE FALSE
          OBVIOUS
        <4>1. thread[t].at \in 1 .. Len(Packages)
          BY ImportNames
        <4>2. Len(Packages) \in Nat
          BY DiscoveryAssumption DEF NamesAreKnown
        <4> QED
          BY <3>2, <4>1, <4>2
      <3>4. imported' = imported
        BY <2>6 DEF Instantiate, InstantiateRaises
      <3>5. \A u \in Threads : /\ Importing(u)' <=> Importing(u)
                               /\ Importing(u) => Package(u)' = Package(u)
        BY <2>2, <3>1, <3>3
      <3> QED
        BY <1>1, <3>4, <3>5
    <2>7. CASE SkipModule(t) \/ Register(t) \/ FinishModule(t)
      <3>1. Importing(t) /\ InModule(t)
        BY <2>7 DEF SkipModule, Register, FinishModule, InModule
      <3>2. OthersStay(t) /\ Importing(t)' /\ Package(t)' = Package(t)
        BY <2>3, <2>7, ThreadMoves DEF Package
      <3>3. \A p \in Names : imported'[p] = imported[p]
        BY <2>1, <2>7, <3>1, ImportNames
           DEF SkipModule, Register, FinishModule
      <3>4. \A u \in Threads : /\ Importing(u)' <=> Importing(u)
                               /\ Importing(u) => Package(u)' = Package(u)
        BY <2>2, <3>1, <3>2
      <3> QED
        BY <1>1, <3>3, <3>4
    <2>8. CASE BeginImport(t)
      <3> DEFINE q == Package(t)
      <3>1. OthersStay(t) /\ Importing(t)' /\ Package(t)' = q
        BY <2>3, <2>8, ThreadMoves DEF Package
      <3>2. ~Importing(t) /\ imported[q] = "no"
        BY <2>8 DEF BeginImport, Discovering, Importing
      <3>3. imported' = [imported EXCEPT ![q] = "importing"]
        BY <2>8 DEF BeginImport
      <3> HIDE DEF q
      <3> SUFFICES ASSUME NEW p \in Names
                   PROVE  IF imported'[p] = "importing"
                          THEN \E v \in Threads : \A u \in Threads :
                                  (u = v) = (Importing(u)' /\ Package(u)' = p)
                          ELSE \A v \in Threads : ~(Importing(v)' /\ Package(v)' = p)
        BY DEF OneImporter, Names
      <3>4. CASE p = q
        <4>1. \A v \in Threads : ~(Importing(v) /\ Package(v) = p)
          BY <3>2, <3>4 DEF OneImporter
        <4>2. \A u \in Threads : (u = t) = (Importing(u)' /\ Package(u)' = p)
          BY <2>2, <3>1, <3>4, <4>1
        <4>3. imported'[p] = "importing"
          BY <2>1, <3>3, <3>4
        <4> QED
          BY <4>2, <4>3
      <3>5. CASE p # q
        <4>1. imported'[p] = imported[p]
          BY <2>1, <3>3, <3>5
        <4>2. \A u \in Threads : (Importing(u)' /\ Package(u)' = p)
                                  = (Importing(u) /\ Package(u) = p)
          BY <2>2, <3>1, <3>2, <3>5
        <4> QED
          BY <4>1, <4>2 DEF OneImporter
      <3> QED
        BY <3>4, <3>5
    <2>9. CASE FinishImport(t) \/ ImportRaises(t)
      <3> DEFINE q == Package(t)
      <3>1. OthersStay(t) /\ ~Importing(t)'
        BY <2>3, <2>4, <2>9, ThreadMoves
      <3>2. Importing(t)
        BY <2>9 DEF FinishImport, ImportRaises
      <3>3. \A u \in Threads : Importing(u) => u = t
        BY <3>2, OneAtATime
      <3>4. \E new \in {"no", "yes"} : imported' = [imported EXCEPT ![q] = new]
        BY <2>9 DEF FinishImport, ImportRaises
      <3>5. \A u \in Threads : ~Importing(u)'
        BY <2>2, <3>1, <3>3
      <3>6. \A p \in Names : imported'[p] # "importing"
        <4> TAKE p \in Names
        <4>1. CASE p = q
          BY <2>1, <3>4, <4>1
        <4>2. CASE p # q
          <5>1. imported[p] # "importing"
            <6> SUFFICES ASSUME imported[p] = "importing" PROVE FALSE
              OBVIOUS
            <6>1. PICK v \in Threads : \A u \in Threads :
                     (u = v) = (Importing(u) /\ Package(u) = p)
              BY DEF OneImporter
            <6> QED
              BY <3>3, <4>2, <6>1
          <5> HIDE DEF q
          <5> QED
            BY <2>1, <3>4, <4>2, <5>1
        <4> QED
          BY <4>1, <4>2
      <3> QED
        BY <3>5, <3>6 DEF OneImporter, Names
    <2> QED
      BY <1>3, <2>5, <2>6, <2>7, <2>8, <2>9 DEF StepOf, Proceed
  <1> QED
    BY <1>2, <1>3 DEF DiscoverySteps, DiscoveryNext, StepOf

\* A thread goes past a package that is imported, and none is forgotten then.
LEMMA PassedKeeps ==
    ASSUME DiscoveryTyped, OneImporter, PassedAreKnown, DiscoverySteps
    PROVE  PassedAreKnown'
  <1>1. CASE UNCHANGED discoveryVars
    BY <1>1 DEF PassedAreKnown, discoveryVars
  <1>2. ASSUME NEW t \in Threads, StepOf(t)
        PROVE  PassedAreKnown'
    <2>1. /\ thread \in [Threads -> ThreadStates] /\ Packages \in Seq(DOMAIN Modules)
          /\ imported \in [Names \cup DOMAIN Registers -> {"no", "importing", "yes"}]
      BY DiscoveryAssumption DEF DiscoveryTyped, NamesAreKnown
    <2>2. \A u \in Threads : thread[u].at \in 1 .. Len(Packages) + 1
      BY <2>1 DEF ThreadStates
    <2>3. \A u \in Threads : \A i \in 1 .. thread[u].at - 1 : Packages[i] \in Names
      BY <2>1, <2>2 DEF Names, Range
    <2>4. \A u \in Threads : \A i \in 1 .. thread[u].at - 1 : imported'[Packages[i]] = "yes"
      BY <1>2, <2>3, ImportMoves DEF PassedAreKnown
    <2>5. ASSUME OthersStay(t),
                 \/ thread'[t].at \in {1, thread[t].at}
                 \/ thread'[t].at = thread[t].at + 1 /\ imported'[Package(t)] = "yes"
          PROVE  PassedAreKnown'
      <3> SUFFICES ASSUME NEW u \in Threads, NEW i \in 1 .. thread'[u].at - 1
                   PROVE  imported'[Packages[i]] = "yes"
        BY DEF PassedAreKnown
      <3>1. CASE u # t
        BY <2>4, <2>5, <3>1 DEF OthersStay
      <3>2. CASE u = t
        <4>1. thread[t].at \in Nat
          BY <2>1, <2>2
        <4>2. i \in 1 .. thread[t].at - 1
              \/ (i = thread[t].at /\ imported'[Package(t)] = "yes")
          BY <2>5, <3>2, <4>1
        <4> QED
          BY <2>4, <4>2 DEF Package
      <3> QED
        BY <3>1, <3>2
    <2> DEFINE at == thread[t].at
    <2>10. ASSUME NEW step, NEW a, NEW part, NEW class, MovesTo(t, step, a, part, class)
           PROVE  OthersStay(t) /\ thread'[t].at = a
      BY <2>10 DEF MovesTo
    <2>6. CASE SkipPackage(t)
      <3>1. imported'[Package(t)] = "yes"
        BY <2>6 DEF SkipPackage, Known
      <3>2. OthersStay(t) /\ thread'[t].at = at + 1
        BY <2>6, <2>10, ThreadMoves
      <3> QED
        BY <2>5, <3>1, <3>2
    <2>7. CASE FinishImport(t)
      <3>1. imported'[Package(t)] = "yes"
        BY <2>1, <2>7, ImportNames DEF FinishImport
      <3>2. OthersStay(t) /\ thread'[t].at = at + 1
        BY <2>7, <2>10, ThreadMoves
      <3> QED
        BY <2>5, <3>1, <3>2
    <2>8. CASE \/ BeginImport(t) \/ SkipModule(t) \/ Register(t)
               \/ FinishModule(t)
      <3>1. OthersStay(t) /\ thread'[t].at = at
        BY <2>8, <2>10, ThreadMoves
      <3> QED
        BY <2>5, <3>1
    <2>9. CASE Instantiate(t) \/ InstantiateRaises(t) \/ ImportRaises(t)
      BY <2>5, <2>9, ThreadMoves DEF StartsOver
    <2> QED
      BY <1>2, <2>6, <2>7, <2>8, <2>9 DEF StepOf, Proceed
  <1> QED
    BY <1>1, <1>2 DEF DiscoverySteps, DiscoveryNext, StepOf

\* Lists only grow, and only by the class that a thread registers.
LEMMA ListsGrow ==
    ASSUME DiscoveryTyped, NEW t \in Threads, StepOf(t)
    PROVE  /\ \A type \in Types : \A j \in DOMAIN registry[type] :
                 j \in DOMAIN registry'[type] /\ registry'[type][j] = registry[type][j]
           /\ \A x \in ClassPlaces : IsListed(x) => IsListed(x)'
           /\ ~Register(t) => registry' = registry
           /\ Register(t) =>
                 LET r == ClassAt(PositionOf(t))
                 IN  /\ Importing(t) /\ PositionOf(t) \in ClassPlaces
                     /\ PackageAt(PositionOf(t)) = Package(t)
                     /\ registry' = [registry EXCEPT ![r[1]] = Append(registry[r[1]], r[2])]
                     /\ registry'[r[1]] = Append(registry[r[1]], r[2])
                     /\ registry[r[1]] \in Seq({q[2] : q \in Registrations})
                     /\ r[2] \in {q[2] : q \in Registrations}
                     /\ \A type \in Types \ {r[1]} : registry'[type] = registry[type]
  <1>1. registry \in [Types -> Seq({q[2] : q \in Registrations})]
    BY DEF DiscoveryTyped
  <1>2. ASSUME ~Register(t) PROVE registry' = registry
    BY <1>2 DEF StepOf, Proceed, SkipPackage, SkipModule, BeginImport,
       Instantiate, InstantiateRaises, FinishModule, FinishImport,
       ImportRaises
  <1> DEFINE r == ClassAt(PositionOf(t))
             Dets == {q[2] : q \in Registrations}
  <1>3. ASSUME Register(t)
        PROVE  /\ Importing(t) /\ PositionOf(t) \in ClassPlaces
               /\ PackageAt(PositionOf(t)) = Package(t)
               /\ registry' = [registry EXCEPT ![r[1]] = Append(registry[r[1]], r[2])]
               /\ r[1] \in Types /\ r[2] \in Dets
               /\ registry'[r[1]] = Append(registry[r[1]], r[2])
               /\ registry[r[1]] \in Seq(Dets)
               /\ \A type \in Types \ {r[1]} : registry'[type] = registry[type]
    <2>1. Importing(t) /\ InModule(t) /\ thread[t].class <= Len(Classes(t))
      BY <1>3 DEF Register, InModule
    <2>2. /\ PositionOf(t) \in ClassPlaces /\ r = Classes(t)[thread[t].class]
          /\ PackageAt(PositionOf(t)) = Package(t)
      BY <2>1, ImportNames
    <2>3. registry' = [registry EXCEPT ![r[1]] = Append(registry[r[1]], r[2])]
      BY <1>3, <2>2 DEF Register
    <2>4. r \in Registrations /\ r[1] \in Types
      BY <2>2, PlaceFields
    <2> HIDE DEF r
    <2>5. r[2] \in Dets
      BY <2>4
    <2> HIDE DEF Dets
    <2> QED
      BY <1>1, <2>1, <2>2, <2>3, <2>4, <2>5 DEF Dets
  <1>4. \A type \in Types : \A j \in DOMAIN registry[type] :
           j \in DOMAIN registry'[type] /\ registry'[type][j] = registry[type][j]
    <2>1. CASE ~Register(t)
      BY <1>2, <2>1
    <2>2. CASE Register(t)
      <3> SUFFICES ASSUME NEW type \in Types, NEW j \in DOMAIN registry[type]
                   PROVE  j \in DOMAIN registry'[type] /\ registry'[type][j] = registry[type][j]
        OBVIOUS
      <3> HIDE DEF r, Dets
      <3>1. CASE type # r[1]
        BY <1>3, <2>2, <3>1
      <3>2. CASE type = r[1]
        <4>1. /\ registry'[type] = Append(registry[type], r[2])
              /\ registry[type] \in Seq(Dets) /\ r[2] \in Dets
          BY <1>3, <2>2, <3>2
        <4> QED
          BY <4>1, AppendProperties
      <3> QED
        BY <3>1, <3>2
    <2> QED
      BY <2>1, <2>2
  <1>5. ASSUME NEW x \in ClassPlaces, IsListed(x)
        PROVE  IsListed(x)'
    <2> DEFINE c == ClassAt(x)
    <2>1. c[1] \in Types
      BY PlaceFields
    <2>2. PICK j \in DOMAIN registry[c[1]] : registry[c[1]][j] = c[2]
      BY <1>5 DEF IsListed
    <2>3. j \in DOMAIN registry'[c[1]] /\ registry'[c[1]][j] = c[2]
      BY <1>4, <2>1, <2>2
    <2> HIDE DEF c
    <2>4. \E k \in DOMAIN registry'[c[1]] : registry'[c[1]][k] = c[2]
      BY <2>3
    <2> QED
      BY <2>4 DEF IsListed, c
  <1> QED
    BY Zenon, <1>2, <1>3, <1>4, <1>5

\* A module is imported when all its classes are listed, a package when all its
\* modules are.
LEMMA ImportedKeeps ==
    ASSUME DiscoveryTyped, OneImporter, PassedAreKnown, ImportedAreListed, DiscoverySteps
    PROVE  ImportedAreListed'
  <1>1. CASE UNCHANGED discoveryVars
    BY <1>1 DEF ImportedAreListed, discoveryVars, IsListed, Importing, PositionOf,
       InModule, Module, Parts, Package
  <1>2. ASSUME NEW t \in Threads, StepOf(t)
        PROVE  ImportedAreListed'
    <2> DEFINE Reached(u) ==
                  /\ \A x \in ClassPlaces : Before(x, PositionOf(u)) => IsListed(x)
                  /\ InModule(u) /\ imported[Module(u)] = "yes" => thread[u].class = 1
    <2>1. /\ \A x \in ClassPlaces : IsListed(x) => IsListed(x)'
          /\ \A m \in DOMAIN Registers \ Names :
                imported'[m] = imported[m] \/ (FinishModule(t) /\ m = Module(t))
      BY <1>2, ListsGrow, ImportMoves
    <2>2. \A u \in Threads : Importing(u) => Reached(u)
      BY DEF ImportedAreListed
    <2>3. \A x \in ClassPlaces :
             imported[PackageAt(x)] = "yes" \/ imported[ModuleAt(x)] = "yes" => IsListed(x)
      BY DEF ImportedAreListed
    <2>4. thread[t].at \in Nat \ {0} /\ thread[t].part \in Nat \ {0} /\ thread[t].class \in Nat \ {0}
      BY DEF DiscoveryTyped, ThreadStates
    <2>5. \A x \in ClassPlaces : x[1] \in Nat \ {0} /\ x[2] \in Nat \ {0} /\ x[3] \in Nat \ {0}
      <3> SUFFICES ASSUME NEW x \in ClassPlaces
                   PROVE  x[1] \in Nat \ {0} /\ x[2] \in Nat \ {0} /\ x[3] \in Nat \ {0}
        OBVIOUS
      <3>1. /\ x[1] \in DOMAIN Packages /\ x[2] \in DOMAIN Modules[PackageAt(x)]
            /\ x[3] \in DOMAIN Registers[ModuleAt(x)]
        BY PlacesAre
      <3>2. PackageAt(x) \in DOMAIN Modules /\ ModuleAt(x) \in DOMAIN Registers
        BY <3>1, PlaceFields, DiscoveryAssumption DEF NamesAreKnown, PackageAt
      <3>3. /\ Packages \in Seq(DOMAIN Modules) /\ Modules[PackageAt(x)] \in Seq(DOMAIN Registers)
            /\ Registers[ModuleAt(x)] \in Seq(Registrations)
        BY <3>2, DiscoveryAssumption DEF NamesAreKnown, ClassesAreListed
      <3> QED
        BY <3>1, <3>3
    \* What another place says of the same class.
    <2>6. ASSUME NEW x \in ClassPlaces, NEW y \in ClassPlaces,
                 ClassAt(x) = ClassAt(y), IsListed(y)
          PROVE  IsListed(x)
      BY <2>6 DEF IsListed
    <2>7. ASSUME FinishModule(t), NEW x \in ClassPlaces, ModuleAt(x) = Module(t)
          PROVE  IsListed(x)
      <3> DEFINE y == <<thread[t].at, thread[t].part, x[3]>>
      <3>1. Importing(t) /\ InModule(t) /\ thread[t].class > Len(Classes(t))
        BY <2>7 DEF FinishModule, InModule
      <3>2. /\ thread[t].at \in DOMAIN Packages /\ thread[t].part \in DOMAIN Modules[Packages[thread[t].at]]
            /\ Classes(t) \in Seq(Registrations)
        BY <3>1, ImportNames DEF Parts, Package
      <3>3. /\ ModuleAt(x) = Modules[Packages[thread[t].at]][thread[t].part]
            /\ Classes(t) = Registers[ModuleAt(x)]
        BY <2>7 DEF Module, Parts, Package, Classes
      <3>4. x[3] \in DOMAIN Registers[ModuleAt(x)]
        BY PlacesAre
      <3>5. y \in ClassPlaces
        BY <3>2, <3>3, <3>4, PlacesAre
      <3>6. ClassAt(x) = ClassAt(y)
        BY <3>3 DEF ClassAt, ModuleAt
      <3>7. Before(y, PositionOf(t))
        BY <2>4, <3>1, <3>2, <3>3, <3>4 DEF Before, PositionOf
      <3>8. IsListed(y)
        BY <2>2, <3>1, <3>5, <3>7
      <3> HIDE DEF y
      <3> QED
        BY <2>6, <3>5, <3>6, <3>8
    <2>8. ASSUME FinishImport(t), NEW x \in ClassPlaces, PackageAt(x) = Package(t)
          PROVE  IsListed(x)
      <3> DEFINE y == <<thread[t].at, x[2], x[3]>>
      <3>1. Importing(t) /\ ~(thread[t].part <= Len(Parts(t)))
        BY <2>8 DEF FinishImport, InModule
      <3>2. /\ thread[t].at \in DOMAIN Packages /\ Parts(t) \in Seq(DOMAIN Registers)
        BY <3>1, ImportNames
      <3>3. PackageAt(x) = Packages[thread[t].at] /\ Parts(t) = Modules[PackageAt(x)]
        BY <2>8 DEF Parts, Package
      <3>4. /\ x[2] \in DOMAIN Modules[PackageAt(x)] /\ x[3] \in DOMAIN Registers[Modules[PackageAt(x)][x[2]]]
        BY PlacesAre DEF PackageAt, ModuleAt
      <3>5. y \in ClassPlaces
        BY <3>2, <3>3, <3>4, PlacesAre
      <3>6. ClassAt(x) = ClassAt(y)
        BY <3>3 DEF ClassAt, PackageAt
      <3>7. Before(y, PositionOf(t))
        BY <2>4, <3>1, <3>2, <3>3, <3>4 DEF Before, PositionOf
      <3>8. IsListed(y)
        BY <2>2, <3>1, <3>5, <3>7
      <3> HIDE DEF y
      <3> QED
        BY <2>6, <3>5, <3>6, <3>8
    <2>9. ASSUME NEW x \in ClassPlaces,
                 imported'[PackageAt(x)] = "yes" \/ imported'[ModuleAt(x)] = "yes"
          PROVE  IsListed(x)'
      <3>1. PackageAt(x) \in Names /\ ModuleAt(x) \in DOMAIN Registers \ Names
        BY PlaceFields
      <3>2. CASE imported'[ModuleAt(x)] = "yes"
        BY <2>1, <2>3, <2>7, <3>1, <3>2
      <3>3. CASE imported'[PackageAt(x)] = "yes"
        <4>1. imported \in [Names \cup DOMAIN Registers -> {"no", "importing", "yes"}]
          BY DEF DiscoveryTyped
        <4>2. ASSUME FinishModule(t) PROVE Module(t) \notin Names
          BY <4>2, ImportNames DEF FinishModule, InModule
        <4>3. imported[PackageAt(x)] = "yes" \/ (FinishImport(t) /\ PackageAt(x) = Package(t))
          BY <1>2, <3>1, <3>3, <4>1, <4>2, ImportMoves
        <4> QED
          BY <2>1, <2>3, <2>8, <4>3
      <3> QED
        BY <2>9, <3>2, <3>3
    \* The other threads, and this one if it only goes on to another package.
    <2>10. ASSUME NEW u \in Threads, Importing(u)', u # t, OthersStay(t)
           PROVE  Reached(u)'
      <3>1. thread'[u] = thread[u]
        BY <2>10 DEF OthersStay
      <3>2. /\ Importing(u) /\ PositionOf(u)' = PositionOf(u)
            /\ InModule(u)' => InModule(u)
            /\ Module(u)' = Module(u)
        BY <2>10, <3>1 DEF Importing, PositionOf, InModule, Module,
           Parts, Package
      <3>3. ASSUME FinishModule(t) PROVE FALSE
        <4>1. Importing(t)
          BY <3>3 DEF FinishModule, InModule
        <4> QED
          BY <2>10, <3>2, <4>1, OneAtATime
      <3>4. Reached(u)
        BY <2>2, <3>2
      <3>5. ASSUME InModule(u)', imported'[Module(u)'] = "yes"
            PROVE  thread'[u].class = 1
        <4>1. Module(u) \in DOMAIN Registers \ Names
          BY <3>2, <3>5, ImportNames
        <4>2. imported[Module(u)] = "yes"
          BY <2>1, <3>2, <3>3, <3>5, <4>1
        <4> QED
          BY <3>1, <3>2, <3>4, <3>5, <4>2
      <3>6. \A x \in ClassPlaces : Before(x, PositionOf(u)') => IsListed(x)'
        BY <2>1, <3>2, <3>4
      <3> QED
        BY <3>5, <3>6
    <2>11. ASSUME NEW step, NEW at, NEW part, NEW class, MovesTo(t, step, at, part, class)
           PROVE  /\ OthersStay(t) /\ PositionOf(t)' = <<at, part, class>>
                  /\ Importing(t)' => step = "import"
                  /\ thread'[t].class = class /\ thread'[t].part = part /\ thread'[t].at = at
      BY <2>11 DEF MovesTo, PositionOf, Importing
    <2>12. ASSUME OthersStay(t), Importing(t)' => Reached(t)'
           PROVE  ImportedAreListed'
      <3>1. \A u \in Threads : Importing(u)' => Reached(u)'
        BY <2>10, <2>12
      <3> QED
        BY <2>9, <3>1 DEF ImportedAreListed
    <2>13. CASE SkipPackage(t) \/ FinishImport(t)
      <3>1. OthersStay(t) /\ ~Importing(t)'
        BY <2>11, <2>13, ThreadMoves
      <3> HIDE DEF Reached
      <3> QED
        BY <2>12, <3>1
    <2>14. CASE Instantiate(t) \/ InstantiateRaises(t) \/ ImportRaises(t)
      <3>1. OthersStay(t) /\ ~Importing(t)'
        BY <2>14, ThreadMoves DEF StartsOver, Importing
      <3> HIDE DEF Reached
      <3> QED
        BY <2>12, <3>1
    <2>15. CASE BeginImport(t)
      <3>1. OthersStay(t) /\ PositionOf(t)' = <<thread[t].at, 1, 1>> /\ thread'[t].class = 1
        BY <2>11, <2>15, ThreadMoves
      <3>2. ASSUME NEW x \in ClassPlaces, Before(x, <<thread[t].at, 1, 1>>)
            PROVE  IsListed(x)'
        <4>1. x[1] \in 1 .. thread[t].at - 1
          BY <2>4, <2>5, <3>2 DEF Before
        <4>2. imported[PackageAt(x)] = "yes"
          BY <4>1 DEF PassedAreKnown, PackageAt
        <4> QED
          BY <2>1, <2>3, <4>2
      <3> QED
        BY <2>12, <3>1, <3>2
    <2>16. CASE SkipModule(t)
      <3>1. /\ OthersStay(t) /\ PositionOf(t)' = <<thread[t].at, thread[t].part + 1, thread[t].class>>
            /\ thread'[t].class = thread[t].class
        BY <2>11, <2>16, ThreadMoves
      <3>2. /\ Importing(t) /\ InModule(t) /\ imported[Module(t)] = "yes"
        BY <2>16 DEF SkipModule, InModule
      <3>3. thread[t].class = 1
        BY <2>2, <3>2
      <3>4. ASSUME NEW x \in ClassPlaces,
                   Before(x, <<thread[t].at, thread[t].part + 1, thread[t].class>>)
            PROVE  IsListed(x)'
        <4>1. Before(x, PositionOf(t)) \/ (x[1] = thread[t].at /\ x[2] = thread[t].part)
          BY <2>4, <2>5, <3>3, <3>4 DEF Before, PositionOf
        <4>2. CASE x[1] = thread[t].at /\ x[2] = thread[t].part
          <5>1. ModuleAt(x) = Module(t)
            BY <4>2 DEF ModuleAt, Module, Parts, Package
          <5> QED
            BY <2>1, <2>3, <3>2, <5>1
        <4> QED
          BY <2>1, <2>2, <3>2, <4>1, <4>2
      <3> QED
        BY <2>12, <3>1, <3>3, <3>4
    <2>17. CASE Register(t)
      <3>1. /\ OthersStay(t) /\ PositionOf(t)' = <<thread[t].at, thread[t].part, thread[t].class + 1>>
            /\ thread'[t].part = thread[t].part /\ thread'[t].at = thread[t].at
        BY <2>11, <2>17, ThreadMoves
      <3>2. /\ Importing(t) /\ imported[Module(t)] = "no" /\ imported' = imported
        BY <2>17 DEF Register, InModule
      <3>3. Module(t)' = Module(t)
        BY <3>1 DEF Module, Parts, Package
      <3>4. ASSUME NEW x \in ClassPlaces,
                   Before(x, <<thread[t].at, thread[t].part, thread[t].class + 1>>)
            PROVE  IsListed(x)'
        <4>1. x = <<x[1], x[2], x[3]>>
          BY PlacesAre
        <4>2. Before(x, PositionOf(t)) \/ x = PositionOf(t)
          BY <2>4, <2>5, <3>4, <4>1 DEF Before, PositionOf
        <4>3. CASE x = PositionOf(t)
          <5> DEFINE c == ClassAt(x)
                     Dets == {q[2] : q \in Registrations}
          <5>1. registry'[c[1]] = Append(registry[c[1]], c[2]) /\ registry[c[1]] \in Seq(Dets) /\ c[2] \in Dets
            BY <1>2, <2>17, <4>3, ListsGrow
          <5> HIDE DEF c, Dets
          <5>2. \E k \in DOMAIN registry'[c[1]] : registry'[c[1]][k] = c[2]
            <6>1. /\ Len(registry[c[1]]) + 1 \in 1 .. Len(registry[c[1]]) + 1
                  /\ DOMAIN Append(registry[c[1]], c[2]) = 1 .. Len(registry[c[1]]) + 1
                  /\ Append(registry[c[1]], c[2])[Len(registry[c[1]]) + 1] = c[2]
              BY <5>1, AppendProperties
            <6> QED
              BY <5>1, <6>1
          <5> QED
            BY <5>2 DEF IsListed, c
        <4> QED
          BY <2>1, <2>2, <3>2, <4>2, <4>3
      <3> QED
        BY <2>12, <3>1, <3>2, <3>3, <3>4
    <2>18. CASE FinishModule(t)
      <3>1. /\ OthersStay(t) /\ PositionOf(t)' = <<thread[t].at, thread[t].part + 1, 1>>
            /\ thread'[t].class = 1
        BY <2>11, <2>18, ThreadMoves
      <3>2. Importing(t)
        BY <2>18 DEF FinishModule, InModule
      <3>3. ASSUME NEW x \in ClassPlaces,
                   Before(x, <<thread[t].at, thread[t].part + 1, 1>>)
            PROVE  IsListed(x)'
        <4>1. Before(x, PositionOf(t)) \/ (x[1] = thread[t].at /\ x[2] = thread[t].part)
          BY <2>4, <2>5, <3>3 DEF Before, PositionOf
        <4>2. CASE x[1] = thread[t].at /\ x[2] = thread[t].part
          <5>1. ModuleAt(x) = Module(t)
            BY <4>2 DEF ModuleAt, Module, Parts, Package
          <5> QED
            BY <2>1, <2>7, <2>18, <5>1
        <4> QED
          BY <2>1, <2>2, <3>2, <4>1, <4>2
      <3> QED
        BY <2>12, <3>1, <3>3
    <2> QED
      BY <1>2, <2>13, <2>14, <2>15, <2>16, <2>17, <2>18 DEF StepOf, Proceed
  <1> QED
    BY <1>1, <1>2 DEF DiscoverySteps, DiscoveryNext, StepOf

\* A class is registered when all that stand before it are listed.
LEMMA OrderKeeps ==
    ASSUME DiscoveryTyped, ImportedAreListed, ListedInOrder, DiscoverySteps
    PROVE  ListedInOrder'
  <1> DEFINE InOrderOf(type, list) ==
                /\ \A j \in DOMAIN list : \E x \in Of(type) : list[j] = ClassAt(x)[2]
                /\ \A x, y \in Of(type) : Before(x, y) =>
                      \A j \in DOMAIN list : list[j] = ClassAt(y)[2] =>
                          \E i \in 1 .. j - 1 : list[i] = ClassAt(x)[2]
  <1>1. \A type \in Types : InOrderOf(type, registry[type])
    BY DEF ListedInOrder
  <1>2. CASE registry' = registry
    BY <1>1, <1>2 DEF ListedInOrder
  <1>3. ASSUME NEW t \in Threads, StepOf(t), Register(t)
        PROVE  ListedInOrder'
    <2> DEFINE p == PositionOf(t)
               r == ClassAt(p)
               Dets == {q[2] : q \in Registrations}
    <2>1. /\ Importing(t) /\ p \in ClassPlaces
          /\ registry'[r[1]] = Append(registry[r[1]], r[2])
          /\ registry[r[1]] \in Seq(Dets) /\ r[2] \in Dets
          /\ \A type \in Types \ {r[1]} : registry'[type] = registry[type]
      BY <1>3, ListsGrow
    <2>2. r[1] \in Types /\ r = <<r[1], r[2]>>
      BY <2>1, PlaceFields
    <2>3. \A x \in ClassPlaces : Before(x, p) => IsListed(x)
      BY <2>1 DEF ImportedAreListed
    <2>4. \A x \in ClassPlaces : ClassAt(x) = r => x = p
      BY <2>1, DiscoveryAssumption DEF ClassesAreListed
    <2> DEFINE list == registry[r[1]]
               n == Len(list)
    <2> HIDE DEF p, Dets
    <2>5. /\ n \in Nat /\ DOMAIN list = 1 .. n /\ DOMAIN Append(list, r[2]) = 1 .. n + 1
          /\ Append(list, r[2])[n + 1] = r[2]
          /\ \A j \in 1 .. n : Append(list, r[2])[j] = list[j]
      BY <2>1, AppendProperties
    <2>6. InOrderOf(r[1], Append(list, r[2]))
      <3>1. InOrderOf(r[1], list)
        BY <1>1, <2>2
      <3>2. p \in Of(r[1])
        BY <2>1 DEF Of
      <3>3. \A j \in 1 .. n + 1 : \E x \in Of(r[1]) : Append(list, r[2])[j] = ClassAt(x)[2]
        <4> TAKE j \in 1 .. n + 1
        <4>1. CASE j \in 1 .. n
          BY <2>5, <3>1, <4>1
        <4>2. CASE j = n + 1
          BY <2>5, <3>2, <4>2
        <4> QED
          BY <2>5, <4>1, <4>2
      <3>4. ASSUME NEW x \in Of(r[1]), NEW y \in Of(r[1]), Before(x, y),
                   NEW j \in 1 .. n + 1, Append(list, r[2])[j] = ClassAt(y)[2]
            PROVE  \E i \in 1 .. j - 1 : Append(list, r[2])[i] = ClassAt(x)[2]
        <4>1. CASE j \in 1 .. n
          <5>1. list[j] = ClassAt(y)[2]
            BY <2>5, <3>4, <4>1
          <5>2. PICK i \in 1 .. j - 1 : list[i] = ClassAt(x)[2]
            BY <2>5, <3>1, <3>4, <4>1, <5>1
          <5>3. i \in 1 .. n
            BY <2>5, <4>1
          <5> QED
            BY <2>5, <5>2, <5>3
        <4>2. CASE j = n + 1
          <5>1. /\ y \in ClassPlaces /\ ClassAt(y)[1] = r[1]
                /\ x \in ClassPlaces /\ ClassAt(x)[1] = r[1]
            BY DEF Of
          <5>2. ClassAt(y)[2] = r[2]
            BY <2>5, <3>4, <4>2
          <5>3. ClassAt(y) = <<ClassAt(y)[1], ClassAt(y)[2]>>
            BY <5>1, PlaceFields
          <5>4. y = p
            <6> HIDE DEF r
            <6>1. ClassAt(y) = r
              BY <2>2, <5>1, <5>2, <5>3
            <6> QED
              BY <2>4, <5>1, <6>1
          <5>5. IsListed(x)
            BY <2>3, <3>4, <5>1, <5>4
          <5>6. PICK i \in DOMAIN list : list[i] = ClassAt(x)[2]
            BY <5>1, <5>5 DEF IsListed
          <5> QED
            BY <2>5, <4>2, <5>6
        <4> QED
          BY <2>5, <4>1, <4>2
      <3> QED
        BY <2>5, <3>3, <3>4
    <2>7. \A type \in Types : InOrderOf(type, registry'[type])
      <3> TAKE type \in Types
      <3> HIDE DEF r, InOrderOf
      <3> QED
        BY <1>1, <2>1, <2>6
    <2> QED
      BY <2>7 DEF ListedInOrder
  <1>4. CASE UNCHANGED discoveryVars
    BY <1>2, <1>4 DEF discoveryVars
  <1>5. ASSUME NEW t \in Threads, StepOf(t), ~Register(t) PROVE registry' = registry
    BY <1>5, ListsGrow
  <1> QED
    BY <1>2, <1>3, <1>4, <1>5 DEF DiscoverySteps, DiscoveryNext, StepOf

\* Unless an import was taken back, a class that is registered is not listed yet.
LEMMA OnceKeeps ==
    ASSUME DiscoveryTyped, OneImporter, PassedAreKnown, ListedOnce, DiscoverySteps
    PROVE  ListedOnce'
  <1> DEFINE Reached(x) == \/ imported[PackageAt(x)] = "yes"
                           \/ \E t \in Threads : Importing(t) /\ Before(x, PositionOf(t))
  <1>1. CASE UNCHANGED discoveryVars
    BY <1>1 DEF ListedOnce, discoveryVars, IsListed, Importing, PositionOf
  <1>2. ASSUME NEW t \in Threads, StepOf(t)
        PROVE  ListedOnce'
    <2> SUFFICES ASSUME failures' = 0
                 PROVE  /\ \A type \in Types : IsInjective(registry'[type])
                        /\ \A x \in ClassPlaces : IsListed(x)' => Reached(x)'
      BY DEF ListedOnce
    <2>1. ~ImportRaises(t) /\ ~InstantiateRaises(t) /\ failures = 0
      <3>1. failures \in Nat
        BY DiscoveryAssumption DEF DiscoveryTyped, CallsAskForTypes
      <3>2. ~ImportRaises(t) /\ ~InstantiateRaises(t)
        BY <3>1 DEF ImportRaises, InstantiateRaises, Abandon
      <3> QED
        BY <1>2, <3>2 DEF StepOf, Proceed, SkipPackage, SkipModule,
           BeginImport, Register, Instantiate, FinishModule,
           FinishImport
    <2>2. /\ \A type \in Types : IsInjective(registry[type])
          /\ \A x \in ClassPlaces : IsListed(x) => Reached(x)
      BY <2>1 DEF ListedOnce
    <2>3. \A x \in ClassPlaces :
             imported[PackageAt(x)] = "yes" => imported'[PackageAt(x)] = "yes"
      BY <1>2, ImportMoves, PlaceFields
    <2>4. /\ thread[t].at \in Nat \ {0} /\ thread[t].part \in Nat \ {0} /\ thread[t].class \in Nat \ {0}
          /\ \A x \in ClassPlaces : x[1] \in Nat \ {0} /\ x[2] \in Nat /\ x[3] \in Nat
      <3>1. \A x \in ClassPlaces : x[1] \in Nat \ {0} /\ x[2] \in Nat /\ x[3] \in Nat
        BY PlaceFields, DiscoveryAssumption DEF NamesAreKnown
      <3> QED
        BY <3>1 DEF DiscoveryTyped, ThreadStates
    <2>5. ASSUME OthersStay(t), NEW x \in ClassPlaces, Reached(x),
                 Importing(t) /\ Before(x, PositionOf(t)) =>
                    \/ Importing(t)' /\ Before(x, PositionOf(t)')
                    \/ imported'[PackageAt(x)] = "yes"
          PROVE  Reached(x)'
      <3>1. CASE imported[PackageAt(x)] = "yes"
        BY <2>3, <3>1
      <3>2. CASE \E u \in Threads : Importing(u) /\ Before(x, PositionOf(u))
        <4>1. PICK u \in Threads : Importing(u) /\ Before(x, PositionOf(u))
          BY <3>2
        <4>2. CASE u = t
          BY <2>5, <4>1, <4>2
        <4>3. CASE u # t
          <5>1. Importing(u)' /\ PositionOf(u)' = PositionOf(u)
            BY <2>5, <4>1, <4>3 DEF OthersStay, Importing, PositionOf
          <5> QED
            BY <4>1, <5>1
        <4> QED
          BY <4>2, <4>3
      <3> QED
        BY <2>5, <3>1, <3>2
    <2>6. ASSUME NEW step, NEW at, NEW part, NEW class, MovesTo(t, step, at, part, class)
          PROVE  /\ OthersStay(t) /\ PositionOf(t)' = <<at, part, class>>
                 /\ Importing(t)' <=> step = "import"
      BY <2>6 DEF MovesTo, PositionOf, Importing
    <2>7. ASSUME registry' = registry, \A x \in ClassPlaces : Reached(x) => Reached(x)'
          PROVE  /\ \A type \in Types : IsInjective(registry'[type])
                 /\ \A x \in ClassPlaces : IsListed(x)' => Reached(x)'
      <3>1. \A x \in ClassPlaces : IsListed(x)' => IsListed(x)
        BY <2>7 DEF IsListed
      <3> HIDE DEF Reached
      <3> QED
        BY <2>2, <2>7, <3>1
    <2>8. CASE Register(t)
      <3> DEFINE p == PositionOf(t)
                 r == ClassAt(p)
                 Dets == {q[2] : q \in Registrations}
                 list == registry[r[1]]
      <3>1. /\ Importing(t) /\ p \in ClassPlaces
            /\ PackageAt(p) = Package(t)
            /\ registry'[r[1]] = Append(list, r[2])
            /\ list \in Seq(Dets) /\ r[2] \in Dets
            /\ \A type \in Types \ {r[1]} : registry'[type] = registry[type]
        BY <1>2, <2>8, ListsGrow
      <3>2. r[1] \in Types /\ r = <<r[1], r[2]>>
        BY <3>1, PlaceFields
      <3>3. ~IsListed(p)
        <4>1. imported[PackageAt(p)] = "importing" /\ \A u \in Threads : Importing(u) => u = t
          BY <3>1, OneAtATime
        <4>2. ~Before(p, p)
          BY <2>4 DEF Before, PositionOf
        <4> QED
          BY <2>2, <3>1, <4>1, <4>2
      <3>4. \A j \in DOMAIN list : list[j] # r[2]
        BY <3>3 DEF IsListed
      <3> HIDE DEF Dets
      <3>5. /\ Len(list) \in Nat /\ DOMAIN list = 1 .. Len(list)
            /\ DOMAIN Append(list, r[2]) = 1 .. Len(list) + 1
            /\ Append(list, r[2])[Len(list) + 1] = r[2]
            /\ \A j \in 1 .. Len(list) : Append(list, r[2])[j] = list[j]
        BY <3>1, AppendProperties
      <3>6. IsInjective(list)
        BY <2>2, <3>2
      <3>7. IsInjective(Append(list, r[2]))
        <4> HIDE DEF list, r
        <4> QED
          BY <3>4, <3>5, <3>6 DEF IsInjective
      <3>8. \A type \in Types : IsInjective(registry'[type])
        <4> TAKE type \in Types
        <4> HIDE DEF r
        <4> QED
          BY <2>2, <3>1, <3>7
      <3>9. /\ OthersStay(t) /\ Importing(t)'
            /\ PositionOf(t)' = <<thread[t].at, thread[t].part, thread[t].class + 1>>
        BY <2>6, <2>8, ThreadMoves
      <3>10. ASSUME NEW x \in ClassPlaces, Before(x, p) \/ x = p
             PROVE  Before(x, PositionOf(t)')
        BY <2>4, <3>9, <3>10 DEF Before, PositionOf
      <3>11. ASSUME NEW x \in ClassPlaces, IsListed(x)'
             PROVE  Reached(x)'
        <4> DEFINE c == ClassAt(x)
        <4>1. c = <<c[1], c[2]>> /\ c[1] \in Types
          BY PlaceFields
        <4>2. PICK j \in DOMAIN registry'[c[1]] : registry'[c[1]][j] = c[2]
          BY <3>11 DEF IsListed
        <4>3. IsListed(x) \/ c = r
          <5>1. CASE c[1] # r[1]
            <6>1. registry'[c[1]] = registry[c[1]]
              BY <3>1, <4>1, <5>1
            <6> QED
              BY <4>2, <6>1 DEF IsListed
          <5>2. CASE c[1] = r[1]
            <6>1. j \in 1 .. Len(list) + 1 /\ Append(list, r[2])[j] = c[2]
              BY <3>1, <3>5, <4>2, <5>2
            <6>2. CASE j = Len(list) + 1
              <7>1. c[2] = r[2]
                BY <3>5, <6>1, <6>2
              <7> HIDE DEF c, r
              <7> QED
                BY <3>2, <4>1, <5>2, <7>1
            <6>3. CASE j \in 1 .. Len(list)
              <7>1. list[j] = c[2] /\ j \in DOMAIN list
                BY <3>5, <6>1, <6>3
              <7>2. \E k \in DOMAIN registry[c[1]] : registry[c[1]][k] = c[2]
                BY <5>2, <7>1
              <7> QED
                BY <7>2 DEF IsListed
            <6> QED
              BY <3>5, <6>1, <6>2, <6>3
          <5> QED
            BY <5>1, <5>2
        <4>4. CASE IsListed(x)
          <5>1. Reached(x)
            BY <2>2, <4>4
          <5>2. Before(x, p) => Before(x, PositionOf(t)')
            BY <3>10
          <5> QED
            BY <2>5, <3>9, <5>1, <5>2
        <4>5. CASE c = r
          <5>1. x = p
            BY <3>1, <4>5, DiscoveryAssumption DEF ClassesAreListed
          <5>2. Before(x, PositionOf(t)')
            BY <3>10, <5>1
          <5> QED
            BY <3>9, <5>2
        <4> QED
          BY <4>3, <4>4, <4>5
      <3> QED
        BY <3>8, <3>11
    <2>9. CASE SkipPackage(t) \/ BeginImport(t) \/ Instantiate(t)
      <3>1. OthersStay(t) /\ ~Importing(t)
        <4>1. ASSUME Importing(t) PROVE thread[t].at \in 1 .. Len(Packages) /\ Len(Packages) \in Nat
          BY <4>1, ImportNames, DiscoveryAssumption DEF NamesAreKnown
        <4>2. ~Importing(t)
          BY <2>9, <4>1 DEF SkipPackage, BeginImport, Discovering,
             Importing, Instantiate, Instantiating
        <4>3. OthersStay(t)
          BY <2>9, ThreadMoves DEF MovesTo, StartsOver
        <4> QED
          BY <4>2, <4>3
      <3>2. registry' = registry
        BY <2>9 DEF SkipPackage, BeginImport, Instantiate
      <3>3. \A x \in ClassPlaces : Reached(x) => Reached(x)'
        <4> HIDE DEF Reached
        <4> QED
          BY <2>5, <3>1
      <3> QED
        BY <2>7, <3>2, <3>3
    <2>10. CASE SkipModule(t) \/ FinishModule(t)
      <3>1. /\ OthersStay(t) /\ Importing(t)'
            /\ \/ PositionOf(t)' = <<thread[t].at, thread[t].part + 1, thread[t].class>>
               \/ PositionOf(t)' = <<thread[t].at, thread[t].part + 1, 1>>
        BY <2>6, <2>10, ThreadMoves
      <3>2. registry' = registry
        BY <2>10 DEF SkipModule, FinishModule
      <3>3. \A x \in ClassPlaces : Before(x, PositionOf(t)) => Before(x, PositionOf(t)')
        <4> TAKE x \in ClassPlaces
        <4>1. PICK class : PositionOf(t)' = <<thread[t].at, thread[t].part + 1, class>>
          BY <3>1
        <4> QED
          BY <2>4, <4>1 DEF Before, PositionOf
      <3>4. \A x \in ClassPlaces : Reached(x) => Reached(x)'
        <4> HIDE DEF Reached
        <4> QED
          BY <2>5, <3>1, <3>3
      <3> QED
        BY <2>7, <3>2, <3>4
    <2>11. CASE FinishImport(t)
      <3>1. OthersStay(t)
        BY <2>6, <2>11, ThreadMoves
      <3>2. registry' = registry /\ imported'[Package(t)] = "yes"
        BY <2>11, ImportNames DEF FinishImport, DiscoveryTyped
      <3>3. ASSUME NEW x \in ClassPlaces, Before(x, PositionOf(t))
            PROVE  imported'[PackageAt(x)] = "yes"
        <4>1. x[1] \in 1 .. thread[t].at - 1 \/ x[1] = thread[t].at
          BY <2>4, <3>3 DEF Before, PositionOf
        <4>2. CASE x[1] \in 1 .. thread[t].at - 1
          BY <2>3, <4>2 DEF PassedAreKnown, PackageAt
        <4>3. CASE x[1] = thread[t].at
          BY <3>2, <4>3 DEF PackageAt, Package
        <4> QED
          BY <4>1, <4>2, <4>3
      <3>4. \A x \in ClassPlaces : Reached(x) => Reached(x)'
        <4> HIDE DEF Reached
        <4> QED
          BY <2>5, <3>1, <3>3
      <3> QED
        BY <2>7, <3>2, <3>4
    <2> QED
      BY <1>2, <2>1, <2>8, <2>9, <2>10, <2>11 DEF StepOf, Proceed
  <1> QED
    BY <1>1, <1>2 DEF DiscoverySteps, DiscoveryNext, StepOf

\* Nothing is registered any more once a list was returned.
LEMMA ReturnedKeeps ==
    ASSUME DiscoveryTyped, OneImporter, PassedAreKnown, SeenAreLists, DiscoverySteps
    PROVE  SeenAreLists'
  <1>1. CASE UNCHANGED discoveryVars
    BY <1>1 DEF SeenAreLists, discoveryVars
  <1>2. ASSUME NEW t \in Threads, StepOf(t)
        PROVE  SeenAreLists'
    <2>1. ASSUME NEW c \in seen
          PROVE  /\ c.type \in Types /\ c.list = registry'[c.type]
                 /\ \A p \in Names : imported'[p] = "yes"
      <3>1. /\ c.type \in Types /\ c.list = registry[c.type]
            /\ \A p \in Names : imported[p] = "yes"
        BY DEF SeenAreLists
      <3>2. ~Register(t)
        <4> SUFFICES ASSUME Register(t) PROVE FALSE
          OBVIOUS
        <4>1. Importing(t)
          BY DEF Register, InModule
        <4> QED
          BY <3>1, <4>1, OneAtATime, ImportNames
      <3> QED
        BY <1>2, <3>1, <3>2, ListsGrow, ImportMoves
    <2>2. CASE Instantiate(t)
      <3> DEFINE type == Head(Head(thread[t].runs))
      <3>1. /\ thread[t].runs # <<>> /\ thread[t].at > Len(Packages)
            /\ seen' = seen \cup {[type |-> type, list |-> registry[type]]}
            /\ registry' = registry /\ imported' = imported
        BY <2>2 DEF Instantiate, Instantiating
      <3>2. thread[t].runs \in Seq(Seq(Types) \ {<<>>}) /\ thread[t].at \in 1 .. Len(Packages) + 1
        BY DEF DiscoveryTyped, ThreadStates
      <3>3. type \in Types
        BY <3>1, <3>2, RunsGoOn
      <3>4. \A p \in Names : imported[p] = "yes"
        <4> TAKE p \in Names
        <4>1. Packages \in Seq(DOMAIN Modules)
          BY DiscoveryAssumption DEF NamesAreKnown
        <4>2. PICK i \in 1 .. Len(Packages) : Packages[i] = p
          BY <4>1 DEF Names, Range
        <4>3. i \in 1 .. thread[t].at - 1
          BY <3>1, <3>2, <4>1
        <4> QED
          BY <4>2, <4>3 DEF PassedAreKnown
      <3> HIDE DEF type
      <3>5. ASSUME NEW c \in seen'
            PROVE  /\ c.type \in Types /\ c.list = registry'[c.type]
                   /\ \A p \in Names : imported'[p] = "yes"
        <4>1. CASE c \in seen
          BY <2>1, <4>1
        <4>2. CASE c = [type |-> type, list |-> registry[type]]
          BY <3>1, <3>3, <3>4, <4>2
        <4> QED
          BY <3>1, <4>1, <4>2
      <3> QED
        BY <3>5 DEF SeenAreLists, Names
    <2>3. CASE ~Instantiate(t)
      <3>1. seen' = seen
        BY <1>2, <2>3 DEF StepOf, Proceed, SkipPackage, SkipModule,
           BeginImport, Register, InstantiateRaises, FinishModule,
           FinishImport, ImportRaises
      <3> QED
        BY <2>1, <3>1 DEF SeenAreLists, Names
    <2> QED
      BY <2>2, <2>3
  <1> QED
    BY <1>1, <1>2 DEF DiscoverySteps, DiscoveryNext, StepOf

\* At first nothing is imported.
LEMMA DiscoveryStart ==
    ASSUME DiscoveryInit
    PROVE  DiscoveryInv
  <1>1. /\ registry = [type \in Types |-> <<>>]
        /\ imported = [m \in Names \cup DOMAIN Registers |-> "no"]
        /\ thread = [t \in Threads |-> Begun(Calls[t])]
        /\ seen = {} /\ failures = 0
    BY DEF DiscoveryInit, Names
  <1>2. ASSUME NEW t \in Threads
        PROVE  /\ thread[t] \in ThreadStates /\ ~Importing(t) /\ thread[t].at = 1
    <2>1. Calls[t] \in Seq(Seq(Types) \ {<<>>})
      BY DiscoveryAssumption DEF CallsAskForTypes
    <2>2. Begun(Calls[t]) \in ThreadStates /\ Begun(Calls[t]).step = "discover"
      BY <2>1, StartTyped
    <2> QED
      BY <1>1, <2>2 DEF Importing, Begun
  <1>3. DiscoveryTyped
    <2>1. \A type \in Types : <<>> \in Seq({r[2] : r \in Registrations})
      BY EmptySeq
    <2>2. registry \in [Types -> Seq({r[2] : r \in Registrations})]
      BY <1>1, <2>1
    <2>3. thread \in [Threads -> ThreadStates]
      BY <1>1, <1>2
    <2>4. failures \in 0 .. MaxFailures
      BY <1>1, DiscoveryAssumption DEF CallsAskForTypes
    <2> QED
      BY <1>1, <1>2, <2>2, <2>3, <2>4 DEF DiscoveryTyped
  <1>4. OneImporter /\ PassedAreKnown /\ SeenAreLists
    BY <1>1, <1>2 DEF OneImporter, PassedAreKnown, SeenAreLists, Names
  <1>5. \A type \in Types : registry[type] = <<>> /\ DOMAIN registry[type] = {}
    BY <1>1
  <1>6. \A x \in ClassPlaces : ~IsListed(x)
    BY <1>5, PlaceFields DEF IsListed
  <1>7. ImportedAreListed
    <2>1. \A x \in ClassPlaces : imported[PackageAt(x)] = "no" /\ imported[ModuleAt(x)] = "no"
      BY <1>1, PlaceFields
    <2> QED
      BY <1>2, <2>1 DEF ImportedAreListed
  <1>8. ListedInOrder /\ ListedOnce
    BY <1>5, <1>6 DEF ListedInOrder, ListedOnce, IsInjective
  <1> QED
    BY <1>3, <1>4, <1>7, <1>8 DEF DiscoveryInv

\* The invariant of discovery.
LEMMA DiscoveryInvariant == DiscoverySpec => []DiscoveryInv
  <1>1. DiscoveryInit => DiscoveryInv
    BY DiscoveryStart
  <1>2. DiscoveryInv /\ [DiscoveryNext]_discoveryVars => DiscoveryInv'
    <2> SUFFICES ASSUME DiscoveryInv, [DiscoveryNext]_discoveryVars PROVE DiscoveryInv'
      OBVIOUS
    <2>1. DiscoverySteps
      BY DEF DiscoverySteps
    <2> QED
      BY <2>1, DiscoveryTypedKeeps, OneImporterKeeps, PassedKeeps, ImportedKeeps, OrderKeeps, OnceKeeps,
         ReturnedKeeps DEF DiscoveryInv
  <1> QED
    BY <1>1, <1>2, PTL DEF DiscoverySpec

\* The state of the registry and of the threads has its type, and a package is
\* being imported exactly while one thread is at it.
THEOREM DiscoveryIsTyped == DiscoverySpec => []DiscoveryTypeOK
  <1>1. DiscoveryInv => DiscoveryTypeOK
    <2> SUFFICES ASSUME DiscoveryInv PROVE DiscoveryTypeOK
      OBVIOUS
    <2>1. DiscoveryTyped /\ OneImporter
      BY DEF DiscoveryInv
    <2>2. \A t \in Threads : /\ thread[t].step \in {"discover", "import"}
                             /\ thread[t].at \in 1 .. Len(Packages) + 1
                             /\ thread[t].part \in Nat /\ thread[t].class \in Nat
      BY <2>1 DEF DiscoveryTyped, ThreadStates
    <2> QED
      BY <2>1, <2>2 DEF DiscoveryTyped, OneImporter, Names, DiscoveryTypeOK
  <1> QED
    BY <1>1, DiscoveryInvariant, PTL

\* get_detectors() never returns half an ensemble, nor another one than before,
\* whatever the threads, packages and classes, and however often imports raise.
THEOREM ReturnsOneEnsemble == DiscoverySpec => []OneEnsemble
  <1>1. DiscoveryInv => OneEnsemble
    <2> SUFFICES ASSUME DiscoveryInv, NEW c \in seen
                 PROVE  /\ Range(c.list) = {ClassAt(x)[2] : x \in Of(c.type)}
                        /\ \A x, y \in Of(c.type) : Before(x, y) =>
                              \A j \in DOMAIN c.list : c.list[j] = ClassAt(y)[2] =>
                                  \E i \in 1 .. j - 1 : c.list[i] = ClassAt(x)[2]
                        /\ failures = 0 => IsInjective(c.list)
                        /\ \A d \in seen : c.type = d.type => c.list = d.list
      BY DEF OneEnsemble
    <2>1. /\ c.type \in Types /\ c.list = registry[c.type]
          /\ \A p \in Names : imported[p] = "yes"
          /\ \A d \in seen : d.list = registry[d.type]
      BY DEF DiscoveryInv, SeenAreLists
    <2>2. \A x \in ClassPlaces : IsListed(x)
      BY <2>1, PlaceFields DEF DiscoveryInv, ImportedAreListed
    <2>3. \A x \in Of(c.type) : \E j \in DOMAIN c.list : c.list[j] = ClassAt(x)[2]
      BY <2>1, <2>2 DEF IsListed, Of
    <2>4. \A j \in DOMAIN c.list : \E x \in Of(c.type) : c.list[j] = ClassAt(x)[2]
      BY <2>1 DEF DiscoveryInv, ListedInOrder
    <2>5. Range(c.list) = {ClassAt(x)[2] : x \in Of(c.type)}
      BY <2>3, <2>4 DEF Range
    <2> QED
      BY <2>1, <2>5 DEF DiscoveryInv, ListedInOrder, ListedOnce
  <1> QED
    BY <1>1, DiscoveryInvariant, PTL
=============================================================================
