-------------------------- MODULE CompositorProofs --------------------------
(***************************************************************************)
(* Theorems about Compositor, for media of any length, any list of spans   *)
(* and any margin: the loops hide what Redaction says they hide, sound     *)
(* stays in its place, and consecutive samples leave no gap.               *)
(***************************************************************************)
EXTENDS Compositor, RedactionProofs

\* Span s hides pixel p of frame i, and millisecond ms of the source.
HidesPixel(s, i, p) ==
    s.box # NoBox /\ Shows(s, Time(i)) /\ InBox(p[1], p[2], Crop(s.box, margin))
HidesSound(s, ms) ==
    s.type = "audio" /\ Millis(s.start) <= ms - 1 /\ ms - 1 < Millis(s.end)

\* The frames so far are done; of the one at hand, the spans handled so far.
FramesInv ==
    /\ Len(out) <= clip.frames
    /\ \A i \in 1 .. Len(out) : out[i] = Hidden(Range(spans), margin, Time(i))
    /\ image = {p \in Pixels : \E k \in 1 .. turn - 1 : HidesPixel(spans[k], Len(out) + 1, p)}
    /\ pc # "frames" => Len(out) = clip.frames

\* The track is the source's with the spans handled so far muted, and longer
\* only by silence.
InPlace ==
    /\ Len(track) >= clip.sound
    /\ \A ms \in 1 .. Len(track) : track[ms] # Silent => track[ms] = ms /\ ms <= clip.sound
Muffled ==
    \A ms \in 1 .. clip.sound :
        track[ms] = Silent <=> \E i \in DOMAIN spans \ pending : HidesSound(spans[i], ms)
SoundInv == clip.sound # None => InPlace /\ Muffled

\* What there is when.
StageInv ==
    /\ pc = "sound" => clip.sound # None
    /\ pc \in {"mux", "done"} /\ clip.sound # None => pending = {}
    /\ \A i \in pending : spans[i].type = "audio"

\* The draft is cut where the shorter stream ends.
DraftInv ==
    draft # None =>
        /\ pc = "done"
        /\ clip.sound = None => draft = [frames |-> out, sound |-> None]
        /\ clip.sound # None =>
              draft = [frames |-> ShownBefore(Shortest), sound |-> SubSeq(track, 1, Shortest)]

IInv == TypeOK /\ FramesInv /\ SoundInv /\ StageInv /\ DraftInv

-----------------------------------------------------------------------------
LEMMA MediaAreTyped ==
    ASSUME TypeOK
    PROVE  /\ clip.frames \in Nat /\ (clip.sound = None \/ clip.sound \in Nat)
           /\ clip.sound # None <=> clip.sound \in Nat
           /\ margin \in Nat \ {0} /\ FramePeriod \in Nat \ {0}
           /\ spans \in Seq(Span) /\ Len(spans) \in Nat /\ DOMAIN spans = 1 .. Len(spans)
           /\ out \in Seq(SUBSET Pixels) /\ Len(out) \in Nat /\ DOMAIN out = 1 .. Len(out)
           /\ track \in Seq(Nat) /\ Len(track) \in Nat /\ DOMAIN track = 1 .. Len(track)
           /\ turn \in 1 .. Len(spans) + 1 /\ pending \subseteq 1 .. Len(spans)
  <1>1. clip \in [frames : Nat, sound : Nat \cup {None}] /\ None \notin Nat
    BY SourcesAreMedia DEF TypeOK
  <1>2. margin \in Nat \ {0} /\ FramePeriod \in Nat \ {0}
    BY SourcesAreMedia DEF TypeOK
  <1>3. spans \in Seq(Span)
    BY SpansAreTrusted DEF TypeOK
  <1>4. Len(spans) \in Nat /\ DOMAIN spans = 1 .. Len(spans)
    BY <1>3, LenProperties
  <1>5. out \in Seq(SUBSET Pixels) /\ track \in Seq(Nat)
    BY DEF TypeOK
  <1>6. /\ Len(out) \in Nat /\ DOMAIN out = 1 .. Len(out)
        /\ Len(track) \in Nat /\ DOMAIN track = 1 .. Len(track)
    BY <1>5, LenProperties
  <1>7. turn \in 1 .. Len(spans) + 1 /\ pending \subseteq 1 .. Len(spans)
    BY <1>4 DEF TypeOK
  <1> QED
    BY <1>1, <1>2, <1>3, <1>4, <1>5, <1>6, <1>7

\* A span of the list, and its times in milliseconds.
LEMMA SpanFields ==
    ASSUME TypeOK, NEW k \in 1 .. Len(spans)
    PROVE  /\ spans[k] \in Span /\ spans[k] \in Range(spans)
           /\ spans[k].start \in Nat /\ spans[k].end \in Nat
           /\ Millis(spans[k].start) \in Nat /\ Millis(spans[k].end) \in Nat
  <1>1. spans[k] \in Span
    BY MediaAreTyped, ElementOfSeq
  <1>2. spans[k].start \in Nat /\ spans[k].end \in Nat
    BY <1>1 DEF Span
  <1>3. \A time \in Nat : Millis(time) \in Nat
    BY ZeroIsExact DEF Millis
  <1>4. spans[k] \in Range(spans)
    BY MediaAreTyped DEF Range
  <1> QED
    BY <1>1, <1>2, <1>3, <1>4

\* sorted() puts some span first.
LEMMA EarliestIsPending ==
    ASSUME TypeOK, pending # {}
    PROVE  Earliest \in pending
  <1> DEFINE starts == {spans[i].start : i \in pending}
             first == Min(starts)
             ties == {i \in pending : spans[i].start = first}
  <1>1. pending \subseteq 1 .. Len(spans) /\ Len(spans) \in Nat
    BY MediaAreTyped
  <1>2. starts \in SUBSET Nat /\ starts # {}
    BY <1>1, SpanFields
  <1>3. first \in starts /\ \A t \in starts : first <= t
    BY <1>2, MinOfNats
  <1> HIDE DEF first
  <1>4. ties \in SUBSET Nat /\ ties # {}
    <2>1. PICK k \in pending : spans[k].start = first
      BY <1>3
    <2>2. k \in ties /\ ties \subseteq pending
      BY <2>1
    <2>3. pending \subseteq Nat
      BY <1>1
    <2> HIDE DEF ties
    <2> QED
      BY <2>2, <2>3
  <1>5. Min(ties) \in ties /\ \A i \in ties : Min(ties) <= i
    BY <1>4, MinOfNats
  <1>6. \A j \in pending : \/ spans[Min(ties)].start < spans[j].start
                           \/ spans[Min(ties)].start = spans[j].start /\ Min(ties) <= j
    <2> TAKE j \in pending
    <2>1. spans[Min(ties)].start = first /\ first <= spans[j].start
      BY <1>3, <1>5
    <2>2. first \in Nat /\ spans[j].start \in Nat
      BY <1>2, <1>3
    <2> QED
      BY <1>5, <2>1, <2>2
  <1>7. Min(ties) \in pending
    BY <1>5
  <1> HIDE DEF ties
  <1> QED
    BY <1>6, <1>7 DEF Earliest

-----------------------------------------------------------------------------
\* Three sequences put together.
LEMMA Joined ==
    ASSUME NEW a \in Seq(Nat), NEW b \in Seq(Nat), NEW c \in Seq(Nat), NEW t, t = (a \o b) \o c
    PROVE  /\ Len(a) \in Nat /\ Len(b) \in Nat /\ Len(c) \in Nat
           /\ t \in Seq(Nat) /\ Len(t) = Len(a) + Len(b) + Len(c)
           /\ \A i \in 1 .. Len(a) : t[i] = a[i]
           /\ \A i \in Len(a) + 1 .. Len(a) + Len(b) : t[i] = b[i - Len(a)]
           /\ \A i \in Len(a) + Len(b) + 1 .. Len(t) : t[i] = c[i - (Len(a) + Len(b))]
  <1> DEFINE ab == a \o b
  <1>1. Len(a) \in Nat /\ Len(b) \in Nat /\ Len(c) \in Nat
    BY LenProperties
  <1>2. /\ ab \in Seq(Nat) /\ Len(ab) = Len(a) + Len(b)
        /\ \A i \in 1 .. Len(a) + Len(b) : ab[i] = IF i <= Len(a) THEN a[i] ELSE b[i - Len(a)]
    BY ConcatProperties
  <1> HIDE DEF ab
  <1>3. /\ ab \o c \in Seq(Nat) /\ Len(ab \o c) = Len(ab) + Len(c)
        /\ \A i \in 1 .. Len(ab) + Len(c) :
              (ab \o c)[i] = IF i <= Len(ab) THEN ab[i] ELSE c[i - Len(ab)]
    BY <1>2, ConcatProperties
  <1>4. t = ab \o c
    BY DEF ab
  <1>5. \A i \in 1 .. Len(a) + Len(b) : t[i] = ab[i]
    BY <1>1, <1>2, <1>3, <1>4
  <1>6. \A i \in Len(a) + Len(b) + 1 .. Len(t) : t[i] = c[i - (Len(a) + Len(b))]
    BY <1>1, <1>2, <1>3, <1>4
  <1>7. \A i \in 1 .. Len(a) : t[i] = a[i]
    BY <1>1, <1>2, <1>5
  <1>8. \A i \in Len(a) + 1 .. Len(a) + Len(b) : t[i] = b[i - Len(a)]
    BY <1>1, <1>2, <1>5
  <1> QED
    BY <1>1, <1>2, <1>3, <1>4, <1>6, <1>7, <1>8

\* A slice that does not reach beyond the end.
LEMMA Sliced ==
    ASSUME NEW S, NEW t \in Seq(S), NEW from \in Nat \ {0}, NEW to \in Nat, to <= Len(t)
    PROVE  /\ SubSeq(t, from, to) \in Seq(S)
           /\ Len(SubSeq(t, from, to)) = IF from <= to THEN to - from + 1 ELSE 0
           /\ \A i \in 1 .. to - from + 1 : SubSeq(t, from, to)[i] = t[from + i - 1]
  <1>1. Len(t) \in Nat
    BY LenProperties
  <1>2. \A i \in from .. to : t[i] \in S
    BY <1>1, ElementOfSeq
  <1>3. from \in Int /\ to \in Int
    OBVIOUS
  <1> QED
    BY ONLY <1>2, <1>3, SubSeqProperties

\* What a track becomes when its milliseconds from s to e are muted: they are
\* silent, the others where they were, and anything beyond is silence.
MutedBetween(muted, s, e) ==
    /\ muted \in Seq(Nat) /\ Len(muted) \in Nat /\ Len(muted) >= Len(track)
    /\ \A ms \in 1 .. Len(muted) :
          muted[ms] = Silent \/ (ms <= Len(track) /\ muted[ms] = track[ms])
    /\ \A ms \in 1 .. Len(track) :
          muted[ms] = IF s < ms /\ ms <= e THEN Silent ELSE track[ms]

\* mute_segment() mutes the segment, and nothing else.
LEMMA SegmentMuted ==
    ASSUME track \in Seq(Nat), NEW s \in Nat, NEW e \in Nat, s < e,
           NEW muted, muted = MuteSegment(s, e)
    PROVE  MutedBetween(muted, s, e)
  <1>1. PICK n \in Nat : n = Len(track)
    BY LenProperties
  <1>2. PICK m \in Nat : m = Min({s, n}) /\ m <= s /\ m <= n /\ (m = s \/ m = n)
    BY MinOfTwo
  <1>3. PICK d \in Nat \ {0} : d = e - s
    OBVIOUS
  <1>4. PICK front, middle, back :
            front = SubSeq(track, 1, m) /\ middle = Silence(d) /\ back = SubSeq(track, e + 1, n)
    OBVIOUS
  <1>5. front \in Seq(Nat) /\ Len(front) = m /\ \A i \in 1 .. m : front[i] = track[i]
    <2>1. 1 \in Nat \ {0} /\ m <= Len(track)
      BY <1>1, <1>2
    <2>2. /\ front \in Seq(Nat)
          /\ Len(front) = IF 1 <= m THEN m - 1 + 1 ELSE 0
          /\ \A i \in 1 .. m - 1 + 1 : front[i] = track[1 + i - 1]
      BY <1>4, <2>1, Sliced
    <2> QED
      BY <2>2
  <1>6. middle \in Seq(Nat) /\ Len(middle) = d /\ \A i \in 1 .. d : middle[i] = Silent
    <2>1. middle = [i \in 1 .. d |-> 0]
      BY <1>4 DEF Silence, Silent
    <2> QED
      BY <2>1 DEF Silent
  <1>7. /\ back \in Seq(Nat) /\ Len(back) = (IF e < n THEN n - e ELSE 0)
        /\ \A i \in 1 .. n - e : back[i] = track[e + i]
    <2>1. PICK f \in Nat \ {0} : f = e + 1
      OBVIOUS
    <2>2. back = SubSeq(track, f, n) /\ n <= Len(track)
      BY <1>1, <1>4, <2>1
    <2>3. /\ back \in Seq(Nat)
          /\ Len(back) = IF f <= n THEN n - f + 1 ELSE 0
          /\ \A i \in 1 .. n - f + 1 : back[i] = track[f + i - 1]
      BY <2>2, Sliced
    <2>4. \A i \in 1 .. n - e : i \in 1 .. n - f + 1 /\ f + i - 1 = e + i
      BY <2>1
    <2>5. \A i \in 1 .. n - e : back[i] = track[e + i]
      BY <2>3, <2>4
    <2> QED
      BY <2>1, <2>3, <2>5
  <1>8. /\ muted \in Seq(Nat) /\ Len(muted) = m + d + Len(back)
        /\ \A i \in 1 .. m : muted[i] = front[i]
        /\ \A i \in m + 1 .. m + d : muted[i] = middle[i - m]
        /\ \A i \in m + d + 1 .. Len(muted) : muted[i] = back[i - (m + d)]
    <2>1. muted = (front \o middle) \o back
      BY <1>1, <1>2, <1>3, <1>4 DEF MuteSegment
    <2>2. /\ muted \in Seq(Nat) /\ Len(muted) = Len(front) + Len(middle) + Len(back)
          /\ \A i \in 1 .. Len(front) : muted[i] = front[i]
          /\ \A i \in Len(front) + 1 .. Len(front) + Len(middle) :
                muted[i] = middle[i - Len(front)]
          /\ \A i \in Len(front) + Len(middle) + 1 .. Len(muted) :
                muted[i] = back[i - (Len(front) + Len(middle))]
      <3>1. front \in Seq(Nat) /\ middle \in Seq(Nat) /\ back \in Seq(Nat)
        BY <1>5, <1>6, <1>7
      <3> QED
        BY ONLY <2>1, <3>1, Joined
    <2> QED
      BY <1>5, <1>6, <2>2
  <1>9. \A i \in 1 .. m : muted[i] = track[i]
    BY <1>5, <1>8
  <1>10. \A i \in m + 1 .. m + d : muted[i] = Silent
    <2> TAKE i \in m + 1 .. m + d
    <2>1. i - m \in 1 .. d
      BY <1>2, <1>3
    <2> QED
      BY <1>6, <1>8, <2>1
  <1>11. \A i \in m + d + 1 .. Len(muted) : e < n /\ m = s /\ i <= n /\ muted[i] = track[i]
    <2> TAKE i \in m + d + 1 .. Len(muted)
    <2>1. e < n
      BY <1>7, <1>8
    <2>2. m = s /\ m + d = e
      BY ONLY <1>2, <1>3, <2>1, s \in Nat, e \in Nat
    <2>3. i \in Int /\ e < i /\ i <= n
      BY <1>7, <1>8, <2>1, <2>2
    <2>4. i - e \in 1 .. n - e /\ e + (i - e) = i
      BY <2>3
    <2>5. muted[i] = back[i - e]
      BY <1>8, <2>2
    <2> QED
      BY <1>7, <2>1, <2>2, <2>3, <2>4, <2>5
  <1>12. PICK z : z \in Nat /\ z = Len(muted) /\ z >= n /\ z >= m + d
    <2>1. PICK tail : tail = Len(back) /\ tail = IF e < n THEN n - e ELSE 0
      BY <1>7
    <2>2. Len(muted) = m + d + tail
      BY <1>8, <2>1
    <2>3. CASE e < n
      <3>1. tail = n - e /\ m + d = e
        BY <1>2, <1>3, <2>1, <2>3
      <3> QED
        BY ONLY <2>2, <3>1, n \in Nat, m \in Nat, d \in Nat, e \in Nat, e < n
    <2>4. CASE ~(e < n)
      <3>1. tail = 0 /\ m + d >= n
        BY <1>2, <1>3, <2>1, <2>4
      <3> QED
        BY ONLY <2>2, <3>1, n \in Nat, m \in Nat, d \in Nat
    <2> QED
      BY <2>3, <2>4
  <1>13. \A ms \in 1 .. z : muted[ms] = Silent \/ (ms <= n /\ muted[ms] = track[ms])
    <2> TAKE ms \in 1 .. z
    <2>1. ms \in 1 .. m \/ ms \in m + 1 .. m + d \/ ms \in m + d + 1 .. Len(muted)
      BY <1>12
    <2>2. CASE ms \in 1 .. m
      <3>1. ms <= n
        BY <1>2, <2>2
      <3> QED
        BY <1>9, <2>2, <3>1
    <2>3. CASE ms \in m + 1 .. m + d
      BY <1>10, <2>3
    <2>4. CASE ms \in m + d + 1 .. Len(muted)
      BY <1>11, <2>4
    <2> QED
      BY <2>1, <2>2, <2>3, <2>4
  <1>14. \A ms \in 1 .. n : muted[ms] = IF s < ms /\ ms <= e THEN Silent ELSE track[ms]
    <2> TAKE ms \in 1 .. n
    <2>1. CASE ms \in 1 .. m
      <3>1. ~(s < ms)
        BY <1>2, <2>1
      <3> QED
        BY <1>9, <2>1, <3>1
    <2>2. CASE ms \in m + 1 .. m + d
      <3>1. s < ms /\ ms <= e
        BY <1>2, <1>3, <2>2
      <3> QED
        BY <1>10, <2>2, <3>1
    <2>3. CASE ms \in m + d + 1 .. Len(muted)
      <3>1. ms > e
        BY <1>2, <1>3, <1>11, <2>3
      <3> QED
        BY <1>11, <2>3, <3>1
    <2> QED
      BY <1>12, <2>1, <2>2, <2>3
  <1>15. muted \in Seq(Nat) /\ Len(muted) \in Nat /\ Len(muted) >= Len(track)
    BY <1>1, <1>8, <1>12
  <1>16. /\ \A ms \in 1 .. Len(muted) :
               muted[ms] = Silent \/ (ms <= Len(track) /\ muted[ms] = track[ms])
         /\ \A ms \in 1 .. Len(track) :
               muted[ms] = IF s < ms /\ ms <= e THEN Silent ELSE track[ms]
    BY ONLY <1>1, <1>12, <1>13, <1>14
  <1> QED
    BY ONLY <1>15, <1>16 DEF MutedBetween

-----------------------------------------------------------------------------
LEMMA Initially == Init => IInv
  <1> SUFFICES ASSUME Init PROVE IInv
    OBVIOUS
  <1>1. /\ clip \in [frames : Nat, sound : Nat \cup {None}] /\ None \notin Nat
        /\ spans \in Seq(Span)
    BY SourcesAreMedia, SpansAreTrusted DEF Init
  <1>2. Len(spans) \in Nat /\ DOMAIN spans = 1 .. Len(spans)
    BY <1>1, LenProperties
  <1>3. /\ pc = "frames" /\ out = <<>> /\ image = {} /\ turn = 1 /\ draft = None
        /\ pending = {i \in DOMAIN spans : spans[i].type = "audio"} /\ track = Original
    BY DEF Init
  <1>4. PICK n \in Nat : n = IF clip.sound = None THEN 0 ELSE clip.sound
    BY <1>1
  <1>5. track = [ms \in 1 .. n |-> ms]
    BY <1>3, <1>4 DEF Original
  <1>6. track \in Seq(Nat) /\ Len(track) = n /\ \A ms \in 1 .. n : track[ms] = ms
    BY <1>5
  <1>7. Len(out) = 0 /\ out \in Seq(SUBSET Pixels)
    BY <1>3
  <1>8. TypeOK
    BY <1>2, <1>3, <1>6, <1>7 DEF Init, TypeOK
  <1>9. FramesInv
    <2>1. 1 .. turn - 1 = {} /\ 1 .. Len(out) = {} /\ Len(out) <= clip.frames
      BY <1>1, <1>3, <1>7
    <2> QED
      BY <1>3, <2>1 DEF FramesInv
  <1>10. SoundInv
    <2> SUFFICES ASSUME clip.sound # None PROVE InPlace /\ Muffled
      BY DEF SoundInv
    <2>1. n = clip.sound
      BY <1>4
    <2>2. InPlace
      BY <1>6, <2>1 DEF InPlace
    <2>3. \A ms \in 1 .. clip.sound : track[ms] # Silent
      BY <1>6, <2>1 DEF Silent
    <2>4. \A i \in DOMAIN spans \ pending : spans[i].type # "audio"
      BY <1>3
    <2>5. Muffled
      BY <2>3, <2>4 DEF Muffled, HidesSound
    <2> QED
      BY <2>2, <2>5
  <1>11. StageInv /\ DraftInv
    BY <1>3 DEF StageInv, DraftInv
  <1> QED
    BY <1>8, <1>9, <1>10, <1>11 DEF IInv

\* The steps of the first loop leave sound and draft alone.
LEMMA FramesOnly ==
    ASSUME IInv, pc = "frames", draft' = draft, track' = track, pending' = pending,
           source' = source, pc' \in {"frames", "sound", "mux"},
           pc' = "sound" => clip.sound # None, pc' = "mux" => clip.sound = None
    PROVE  SoundInv' /\ StageInv' /\ DraftInv'
  <1>1. clip' = clip /\ spans' = spans /\ margin' = margin
    BY DEF source
  <1>2. SoundInv'
    BY <1>1 DEF IInv, SoundInv, InPlace, Muffled, HidesSound
  <1>3. StageInv'
    BY <1>1 DEF IInv, StageInv
  <1>4. draft = None
    BY DEF IInv, DraftInv
  <1> QED
    BY <1>2, <1>3, <1>4 DEF DraftInv

\* A span that concerns the frame adds its pixels, another none.
LEMMA TurnKeeps == IInv /\ (HideSpan \/ SkipSpan) => IInv'
  <1> SUFFICES ASSUME IInv, HideSpan \/ SkipSpan PROVE IInv'
    OBVIOUS
  <1> DEFINE s == spans[turn]
             next == Len(out) + 1
             painted == {p \in Pixels : HidesPixel(s, next, p)}
  <1>1. /\ pc = "frames" /\ pc' = pc /\ turn <= Len(spans) /\ turn' = turn + 1
        /\ source' = source /\ out' = out /\ pending' = pending
        /\ track' = track /\ draft' = draft
    BY DEF HideSpan, SkipSpan, Composing
  <1>2. clip' = clip /\ spans' = spans /\ margin' = margin
    BY <1>1 DEF source
  <1>3. TypeOK
    BY DEF IInv
  <1>4. turn \in Nat \ {0} /\ Len(spans) \in Nat /\ turn' - 1 = turn
        /\ 1 .. turn' - 1 = (1 .. turn - 1) \cup {turn}
    <2>1. turn \in Nat \ {0} /\ Len(spans) \in Nat
      BY <1>3, MediaAreTyped
    <2>2. PICK t \in Nat \ {0} : t = turn /\ turn' = t + 1
      BY <1>1, <2>1
    <2>3. turn' - 1 = t /\ 1 .. turn' - 1 = (1 .. t - 1) \cup {t}
      BY ONLY <2>2
    <2> QED
      BY <2>1, <2>2, <2>3
  <1>5. image' = image \cup painted
    <2>1. CASE HideSpan
      <3>1. s.box # NoBox /\ Shows(s, Time(next))
        BY <2>1 DEF HideSpan, Applies, InWindow
      <3>2. image' = image \cup {p \in Pixels : InBox(p[1], p[2], Crop(s.box, margin))}
        BY <2>1 DEF HideSpan, Paint
      <3> QED
        BY <3>1, <3>2 DEF HidesPixel
    <2>2. CASE SkipSpan
      <3>1. ~(s.box # NoBox /\ Shows(s, Time(next))) /\ image' = image
        BY <2>2 DEF SkipSpan, Applies, InWindow
      <3>2. painted = {}
        BY <3>1 DEF HidesPixel
      <3> QED
        BY <3>1, <3>2
    <2> QED
      BY <2>1, <2>2
  <1>6. TypeOK'
    <2>1. image' \subseteq Pixels
      BY <1>3, <1>5 DEF TypeOK
    <2>2. turn' \in 1 .. Len(spans') + 1
      BY <1>1, <1>2, <1>4
    <2> QED
      BY <1>1, <1>2, <1>3, <2>1, <2>2 DEF TypeOK
  <1>7. FramesInv'
    <2>1. image = {p \in Pixels : \E k \in 1 .. turn - 1 : HidesPixel(spans[k], next, p)}
      BY DEF IInv, FramesInv
    <2>2. image' = {p \in Pixels : \E k \in 1 .. turn' - 1 : HidesPixel(spans[k], next, p)}
      BY <1>4, <1>5, <2>1
    <2>3. \A x, i, p : HidesPixel(x, i, p)' = HidesPixel(x, i, p)
      BY <1>2 DEF HidesPixel
    <2> QED
      BY <1>1, <1>2, <2>2, <2>3 DEF IInv, FramesInv
  <1> QED
    BY <1>1, <1>6, <1>7, FramesOnly DEF IInv

\* Of a frame that every span has been asked about, what Hidden says is hidden.
LEMMA FrameKeeps == IInv /\ FinishFrame => IInv'
  <1> SUFFICES ASSUME IInv, FinishFrame PROVE IInv'
    OBVIOUS
  <1> DEFINE next == Len(out) + 1
  <1>1. /\ pc = "frames" /\ pc' = pc /\ turn > Len(spans) /\ Len(out) < clip.frames
        /\ out' = Append(out, image) /\ image' = {} /\ turn' = 1
        /\ source' = source /\ pending' = pending /\ track' = track /\ draft' = draft
    BY DEF FinishFrame, Composing
  <1>2. clip' = clip /\ spans' = spans /\ margin' = margin
    BY <1>1 DEF source
  <1>3. TypeOK
    BY DEF IInv
  <1>4. /\ out \in Seq(SUBSET Pixels) /\ Len(out) \in Nat /\ clip.frames \in Nat
        /\ DOMAIN spans = 1 .. Len(spans) /\ turn - 1 = Len(spans) /\ Len(spans) \in Nat
    BY <1>1, <1>3, MediaAreTyped
  <1>5. image \in SUBSET Pixels
    BY <1>3 DEF TypeOK
  <1>6. /\ out' \in Seq(SUBSET Pixels) /\ Len(out') = next
        /\ \A i \in 1 .. Len(out) : out'[i] = out[i]
        /\ out'[next] = image
    BY <1>1, <1>4, <1>5, AppendProperties
  <1>7. image = Hidden(Range(spans), margin, Time(next))
    <2>1. image = {p \in Pixels : \E k \in 1 .. Len(spans) : HidesPixel(spans[k], next, p)}
      BY <1>4 DEF IInv, FramesInv
    <2>2. \A p : (\E k \in 1 .. Len(spans) : HidesPixel(spans[k], next, p))
                   <=> \E x \in Range(spans) : HidesPixel(x, next, p)
      BY <1>4 DEF Range
    <2> QED
      BY <2>1, <2>2 DEF Hidden, HidesPixel
  <1>8. TypeOK'
    <2>1. turn' \in 1 .. Len(spans') + 1
      BY <1>1, <1>2, <1>4
    <2> QED
      BY <1>1, <1>2, <1>3, <1>6, <2>1 DEF TypeOK
  <1>9. FramesInv'
    <2>1. \A i \in 1 .. next : out'[i] = Hidden(Range(spans), margin, Time(i))
      <3> TAKE i \in 1 .. next
      <3>1. i \in 1 .. Len(out) \/ i = next
        BY <1>4
      <3> QED
        BY <1>6, <1>7, <3>1 DEF IInv, FramesInv
    <2>2. 1 .. turn' - 1 = {} /\ next <= clip.frames
      BY <1>1, <1>4
    <2> HIDE DEF next
    <2> QED
      BY <1>1, <1>2, <1>6, <2>1, <2>2 DEF FramesInv
  <1> QED
    BY <1>1, <1>8, <1>9, FramesOnly DEF IInv

LEMMA FramesDoneKeeps == IInv /\ FinishFrames => IInv'
  <1> SUFFICES ASSUME IInv, FinishFrames PROVE IInv'
    OBVIOUS
  <1>1. /\ pc = "frames" /\ ~(Len(out) < clip.frames)
        /\ pc' = IF clip.sound = None THEN "mux" ELSE "sound"
        /\ source' = source /\ out' = out /\ image' = image /\ turn' = turn
        /\ pending' = pending /\ track' = track /\ draft' = draft
    BY DEF FinishFrames, Composing
  <1>2. clip' = clip /\ spans' = spans /\ margin' = margin
    BY <1>1 DEF source
  <1>3. TypeOK /\ TypeOK'
    BY <1>1, <1>2 DEF IInv, TypeOK
  <1>4. Len(out) = clip.frames
    BY <1>1, <1>3, MediaAreTyped DEF IInv, FramesInv
  <1>5. FramesInv'
    BY <1>1, <1>2, <1>4 DEF IInv, FramesInv, HidesPixel
  <1>6. /\ pc' \in {"frames", "sound", "mux"}
        /\ pc' = "sound" => clip.sound # None
        /\ pc' = "mux" => clip.sound = None
    BY <1>1
  <1> QED
    BY <1>1, <1>3, <1>5, <1>6, FramesOnly DEF IInv

-----------------------------------------------------------------------------
\* The steps of the second loop leave the frames alone.
LEMMA SoundOnly ==
    ASSUME IInv, pc = "sound", pc' = "sound", UNCHANGED <<source, out, image, turn, draft>>,
           pending' \subseteq pending, track' \in Seq(Nat)
    PROVE  TypeOK' /\ FramesInv' /\ StageInv' /\ DraftInv'
  <1>1. clip' = clip /\ spans' = spans /\ margin' = margin
    BY DEF source
  <1>2. TypeOK'
    BY <1>1 DEF IInv, TypeOK
  <1>3. FramesInv'
    BY <1>1 DEF IInv, FramesInv, HidesPixel
  <1>4. StageInv'
    BY <1>1 DEF IInv, StageInv
  <1>5. draft = None
    BY DEF IInv, DraftInv
  <1> QED
    BY <1>2, <1>3, <1>4, <1>5 DEF DraftInv

\* The first of the spans to mute is muted, if it has a millisecond.
LEMMA MuteKeeps == IInv /\ (MuteSpan \/ SkipEmpty) => IInv'
  <1> SUFFICES ASSUME IInv, MuteSpan \/ SkipEmpty PROVE IInv'
    OBVIOUS
  <1>1. /\ pc = "sound" /\ pc' = pc /\ pending # {} /\ pending' = pending \ {Earliest}
        /\ source' = source /\ out' = out /\ image' = image /\ turn' = turn /\ draft' = draft
    BY DEF MuteSpan, SkipEmpty
  <1>2. clip' = clip /\ spans' = spans /\ margin' = margin
    BY <1>1 DEF source
  <1>3. TypeOK
    BY DEF IInv
  <1>4. /\ clip.sound # None /\ clip.sound \in Nat /\ track \in Seq(Nat) /\ Len(track) \in Nat
        /\ DOMAIN spans = 1 .. Len(spans) /\ pending \subseteq 1 .. Len(spans)
    BY <1>1, <1>3, MediaAreTyped DEF IInv, StageInv
  <1>5. InPlace /\ Muffled
    BY <1>4 DEF IInv, SoundInv
  <1>6. PICK first : first = Earliest /\ first \in pending
    BY <1>1, <1>3, EarliestIsPending
  <1>7. PICK s \in Nat, e \in Nat : s = Begins /\ e = Ends
    BY <1>3, <1>4, <1>6, SpanFields DEF Begins, Ends
  <1>8. /\ track' \in Seq(Nat) /\ Len(track') \in Nat /\ Len(track') >= Len(track)
        /\ \A ms \in 1 .. Len(track') :
              track'[ms] = Silent \/ (ms <= Len(track) /\ track'[ms] = track[ms])
        /\ \A ms \in 1 .. Len(track) :
              track'[ms] = IF s < ms /\ ms <= e THEN Silent ELSE track[ms]
    <2>1. CASE MuteSpan
      <3>1. s < e /\ track' = MuteSegment(s, e)
        BY <1>7, <2>1 DEF MuteSpan
      <3>2. track \in Seq(Nat)
        BY <1>4
      <3> QED
        <4>1. PICK muted : muted = track' /\ muted = MuteSegment(s, e)
          BY <3>1
        <4>2. s \in Nat /\ e \in Nat /\ s < e
          BY <1>7, <3>1
        <4>3. MutedBetween(muted, s, e)
          BY ONLY <3>2, <4>1, <4>2, SegmentMuted
        <4> QED
          BY ONLY <4>1, <4>3 DEF MutedBetween
    <2>2. CASE SkipEmpty
      <3>1. e <= s /\ track' = track
        BY <1>7, <2>2 DEF SkipEmpty
      <3> QED
        BY <1>4, <3>1
    <2> QED
      BY <2>1, <2>2
  <1>9. spans[first].type = "audio"
    BY <1>6 DEF IInv, StageInv
  <1>10. \A ms \in 1 .. clip.sound : HidesSound(spans[first], ms) <=> (s < ms /\ ms <= e)
    <2>1. s = Millis(spans[first].start) /\ e = Millis(spans[first].end)
      BY <1>6, <1>7 DEF Begins, Ends
    <2> QED
      BY <1>4, <1>9, <2>1 DEF HidesSound
  <1>11. InPlace'
    <2>1. Len(track') >= clip.sound
      BY <1>4, <1>5, <1>8 DEF InPlace
    <2>2. ASSUME NEW ms \in 1 .. Len(track'), track'[ms] # Silent
          PROVE  track'[ms] = ms /\ ms <= clip.sound
      <3>1. ms \in 1 .. Len(track) /\ track'[ms] = track[ms]
        BY <1>4, <1>8, <2>2
      <3> QED
        BY <1>5, <2>2, <3>1 DEF InPlace
    <2> QED
      BY <1>2, <2>1, <2>2 DEF InPlace, Silent
  <1>12. Muffled'
    <2> SUFFICES ASSUME NEW ms \in 1 .. clip.sound
                 PROVE  track'[ms] = Silent
                          <=> \E i \in DOMAIN spans \ pending' : HidesSound(spans[i], ms)
      BY <1>2 DEF Muffled, HidesSound, Silent
    <2>1. ms \in 1 .. Len(track)
      BY <1>4, <1>5 DEF InPlace
    <2>2. track'[ms] = Silent <=> (s < ms /\ ms <= e) \/ track[ms] = Silent
      BY <1>8, <2>1
    <2>3. track[ms] = Silent <=> \E i \in DOMAIN spans \ pending : HidesSound(spans[i], ms)
      BY <1>5 DEF Muffled
    <2>4. DOMAIN spans \ pending' = (DOMAIN spans \ pending) \cup {first}
      BY <1>1, <1>4, <1>6
    <2> QED
      BY <1>10, <2>2, <2>3, <2>4
  <1>13. SoundInv'
    BY <1>11, <1>12 DEF SoundInv
  <1> QED
    BY <1>1, <1>8, <1>13, SoundOnly DEF IInv

LEMMA SoundDoneKeeps == IInv /\ FinishSound => IInv'
  <1> SUFFICES ASSUME IInv, FinishSound PROVE IInv'
    OBVIOUS
  <1>1. /\ pc = "sound" /\ pc' = "mux" /\ pending = {}
        /\ source' = source /\ out' = out /\ image' = image /\ turn' = turn
        /\ pending' = pending /\ track' = track /\ draft' = draft
    BY DEF FinishSound
  <1>2. clip' = clip /\ spans' = spans /\ margin' = margin
    BY <1>1 DEF source
  <1>3. TypeOK'
    BY <1>1, <1>2 DEF IInv, TypeOK
  <1>4. FramesInv'
    BY <1>1, <1>2 DEF IInv, FramesInv, HidesPixel
  <1>5. SoundInv'
    BY <1>1, <1>2 DEF IInv, SoundInv, InPlace, Muffled, HidesSound
  <1>6. StageInv'
    BY <1>1 DEF StageInv
  <1>7. DraftInv'
    BY <1>1 DEF IInv, DraftInv
  <1> QED
    BY <1>3, <1>4, <1>5, <1>6, <1>7 DEF IInv

\* mux() takes the streams as they are.
LEMMA MuxKeeps == IInv /\ (MuxVideo \/ MuxBoth) => IInv'
  <1> SUFFICES ASSUME IInv, MuxVideo \/ MuxBoth PROVE IInv'
    OBVIOUS
  <1>1. /\ pc = "mux" /\ pc' = "done"
        /\ source' = source /\ out' = out /\ image' = image /\ turn' = turn
        /\ pending' = pending /\ track' = track
    BY DEF MuxVideo, MuxBoth
  <1>2. clip' = clip /\ spans' = spans /\ margin' = margin
    BY <1>1 DEF source
  <1>3. /\ clip.sound = None => draft' = [frames |-> out, sound |-> None]
        /\ clip.sound # None =>
              draft' = [frames |-> ShownBefore(Shortest), sound |-> SubSeq(track, 1, Shortest)]
    BY DEF MuxVideo, MuxBoth
  <1>4. DOMAIN draft' = {"frames", "sound"}
    BY <1>3
  <1>5. TypeOK'
    BY <1>1, <1>2, <1>4 DEF IInv, TypeOK
  <1>6. FramesInv'
    BY <1>1, <1>2 DEF IInv, FramesInv, HidesPixel
  <1>7. SoundInv'
    BY <1>1, <1>2 DEF IInv, SoundInv, InPlace, Muffled, HidesSound
  <1>8. StageInv'
    BY <1>1, <1>2 DEF IInv, StageInv
  <1>9. DraftInv'
    BY <1>1, <1>2, <1>3 DEF DraftInv, ShownBefore, Shortest, Time
  <1> QED
    BY <1>5, <1>6, <1>7, <1>8, <1>9 DEF IInv

\* IInv is an invariant of the compositor.
THEOREM CompositorInvariance == Spec => []IInv
  <1>1. IInv /\ [Next]_vars => IInv'
    <2> SUFFICES ASSUME IInv, [Next]_vars PROVE IInv'
      OBVIOUS
    <2>1. CASE HideSpan \/ SkipSpan
      BY <2>1, TurnKeeps
    <2>2. CASE FinishFrame
      BY <2>2, FrameKeeps
    <2>3. CASE FinishFrames
      BY <2>3, FramesDoneKeeps
    <2>4. CASE MuteSpan \/ SkipEmpty
      BY <2>4, MuteKeeps
    <2>5. CASE FinishSound
      BY <2>5, SoundDoneKeeps
    <2>6. CASE MuxVideo \/ MuxBoth
      BY <2>6, MuxKeeps
    <2>7. CASE UNCHANGED vars
      <3>1. /\ clip' = clip /\ spans' = spans /\ margin' = margin /\ pc' = pc
            /\ out' = out /\ image' = image /\ turn' = turn /\ pending' = pending
            /\ track' = track /\ draft' = draft
        BY <2>7 DEF vars, source
      <3>2. TypeOK' /\ FramesInv' /\ StageInv'
        BY <3>1 DEF IInv, TypeOK, FramesInv, HidesPixel, StageInv
      <3>3. SoundInv'
        BY <3>1 DEF IInv, SoundInv, InPlace, Muffled, HidesSound
      <3>4. DraftInv'
        BY <3>1 DEF IInv, DraftInv, ShownBefore, Shortest, Time
      <3> QED
        BY <3>2, <3>3, <3>4 DEF IInv
    <2> QED
      BY <2>1, <2>2, <2>3, <2>4, <2>5, <2>6, <2>7 DEF Next
  <1> QED
    BY Initially, <1>1, PTL DEF Spec

-----------------------------------------------------------------------------
\* What of the two streams is in the draft.
LEMMA DraftStreams ==
    ASSUME IInv, draft # None
    PROVE  /\ DOMAIN draft.frames \subseteq 1 .. Len(out)
           /\ \A i \in DOMAIN draft.frames : draft.frames[i] = out[i]
           /\ clip.sound = None => draft.sound = None
           /\ clip.sound # None =>
                 /\ draft.sound = SubSeq(track, 1, Shortest)
                 /\ Shortest \in Nat /\ Shortest <= Len(track)
                 /\ Shortest = Len(out) * FramePeriod \/ Shortest = Len(track)
                 /\ Len(draft.sound) = Shortest
                 /\ \A ms \in 1 .. Shortest : draft.sound[ms] = track[ms]
                 /\ DOMAIN draft.frames
                      = 1 .. Cardinality({i \in 1 .. Len(out) : Time(i) < Shortest})
  <1>1. TypeOK /\ DraftInv
    BY DEF IInv
  <1>2. /\ out \in Seq(SUBSET Pixels) /\ Len(out) \in Nat /\ DOMAIN out = 1 .. Len(out)
        /\ track \in Seq(Nat) /\ Len(track) \in Nat /\ FramePeriod \in Nat
    BY <1>1, MediaAreTyped
  <1>3. CASE clip.sound = None
    <2>1. draft.frames = out /\ draft.sound = None
      BY <1>1, <1>3 DEF DraftInv
    <2> QED
      BY <1>2, <1>3, <2>1
  <1>4. CASE clip.sound # None
    <2>1. draft.frames = ShownBefore(Shortest) /\ draft.sound = SubSeq(track, 1, Shortest)
      BY <1>1, <1>4 DEF DraftInv
    <2>2. Len(out) * FramePeriod \in Nat
      BY <1>2
    <2>3. /\ Shortest \in Nat /\ Shortest <= Len(track)
          /\ Shortest = Len(out) * FramePeriod \/ Shortest = Len(track)
      BY <1>2, <2>2, MinOfTwo DEF Shortest
    <2> DEFINE shown == {i \in 1 .. Len(out) : Time(i) < Shortest}
    <2>4. PICK k \in Nat : k = Cardinality(shown) /\ k <= Len(out)
      <3>1. IsFiniteSet(1 .. Len(out)) /\ Cardinality(1 .. Len(out)) = Len(out)
        <4>1. PICK n \in Nat : n = Len(out)
          BY <1>2
        <4>2. IsFiniteSet(1 .. n) /\ Cardinality(1 .. n) = IF 1 > n THEN 0 ELSE n - 1 + 1
          BY FS_Interval
        <4> QED
          BY <4>1, <4>2
      <3>2. shown \subseteq 1 .. Len(out)
        OBVIOUS
      <3> HIDE DEF shown
      <3>3. IsFiniteSet(shown) /\ Cardinality(shown) <= Cardinality(1 .. Len(out))
        BY <3>1, <3>2, FS_Subset
      <3> QED
        BY <3>1, <3>3, FS_CardinalityType
    <2>5. draft.frames = SubSeq(out, 1, k)
      BY <1>2, <2>1, <2>4 DEF ShownBefore
    <2>6. /\ draft.frames \in Seq(SUBSET Pixels) /\ Len(draft.frames) = k
          /\ \A i \in 1 .. k : draft.frames[i] = out[i]
      <3>1. /\ SubSeq(out, 1, k) \in Seq(SUBSET Pixels)
            /\ Len(SubSeq(out, 1, k)) = IF 1 <= k THEN k - 1 + 1 ELSE 0
            /\ \A i \in 1 .. k - 1 + 1 : SubSeq(out, 1, k)[i] = out[1 + i - 1]
        <4>1. 1 \in Nat \ {0} /\ out \in Seq(SUBSET Pixels) /\ k <= Len(out)
          BY <1>2, <2>4
        <4> QED
          BY ONLY k \in Nat, <4>1, Sliced
      <3> QED
        BY <2>5, <3>1
    <2>7. Len(draft.sound) = Shortest /\ \A ms \in 1 .. Shortest : draft.sound[ms] = track[ms]
      <3>1. PICK n \in Nat : n = Shortest /\ n <= Len(track)
        BY <2>3
      <3>2. /\ Len(SubSeq(track, 1, n)) = IF 1 <= n THEN n - 1 + 1 ELSE 0
            /\ \A i \in 1 .. n - 1 + 1 : SubSeq(track, 1, n)[i] = track[1 + i - 1]
        BY <1>2, <3>1, Sliced
      <3> QED
        BY <2>1, <3>1, <3>2
    <2>8. DOMAIN draft.frames = 1 .. k
      BY <2>6, LenProperties
    <2>9. /\ DOMAIN draft.frames \subseteq 1 .. Len(out)
          /\ \A i \in DOMAIN draft.frames : draft.frames[i] = out[i]
      <3>1. \A i \in 1 .. k : i \in 1 .. Len(out)
        BY <1>2, <2>4
      <3> QED
        BY <2>6, <2>8, <3>1
    <2> HIDE DEF shown
    <2>10. DOMAIN draft.frames = 1 .. Cardinality(shown)
      BY <2>4, <2>8
    <2> QED
      BY <1>4, <2>1, <2>3, <2>7, <2>9, <2>10 DEF shown
  <1> QED
    BY <1>3, <1>4

\* Frames and sound of the draft are what the loops left of them.
LEMMA InvHides == IInv => HidesWhatIsTrusted
  <1> SUFFICES ASSUME IInv, draft # None
               PROVE  /\ \A i \in DOMAIN draft.frames :
                            draft.frames[i] = Hidden(Range(spans), margin, Time(i))
                      /\ draft.sound # None =>
                            \A ms \in 1 .. Min({clip.sound, Len(draft.sound)}) :
                               draft.sound[ms] = Silent <=> Muted(Range(spans), ms - 1)
    BY DEF HidesWhatIsTrusted
  <1>1. \A i \in DOMAIN draft.frames : draft.frames[i] = Hidden(Range(spans), margin, Time(i))
    BY DraftStreams DEF IInv, FramesInv
  <1>2. ASSUME draft.sound # None, NEW ms \in 1 .. Min({clip.sound, Len(draft.sound)})
        PROVE  draft.sound[ms] = Silent <=> Muted(Range(spans), ms - 1)
    <2>1. TypeOK /\ clip.sound # None /\ clip.sound \in Nat /\ DOMAIN spans = 1 .. Len(spans)
      BY <1>2, DraftStreams, MediaAreTyped DEF IInv
    <2>2. pending = {} /\ Muffled
      BY <2>1 DEF IInv, DraftInv, StageInv, SoundInv
    <2>3. /\ Shortest \in Nat /\ Len(draft.sound) = Shortest
          /\ \A k \in 1 .. Shortest : draft.sound[k] = track[k]
      BY <2>1, DraftStreams
    <2>4. ms \in 1 .. clip.sound /\ ms \in 1 .. Shortest
      BY <1>2, <2>1, <2>3, MinOfTwo
    <2>5. track[ms] = Silent <=> \E i \in DOMAIN spans : HidesSound(spans[i], ms)
      BY <2>2, <2>4 DEF Muffled
    <2>6. (\E i \in DOMAIN spans : HidesSound(spans[i], ms)) <=> Muted(Range(spans), ms - 1)
      BY DEF HidesSound, Muted, Range
    <2> QED
      BY <2>3, <2>4, <2>5, <2>6
  <1> QED
    BY <1>1, <1>2

\* A smaller number of periods takes less time.
LEMMA TimeGrows ==
    ASSUME NEW i \in Nat \ {0}, NEW j \in Nat \ {0}, FramePeriod \in Nat, j <= i
    PROVE  Time(j) \in Nat /\ Time(i) \in Nat /\ Time(j) <= Time(i)
  <1>1. PICK d \in Nat : d = i - j
    OBVIOUS
  <1>2. PICK k \in Nat : k = j - 1
    OBVIOUS
  <1>3. Time(j) = k * FramePeriod /\ Time(i) = (k + d) * FramePeriod
    BY <1>1, <1>2 DEF Time
  <1>4. (k + d) * FramePeriod = k * FramePeriod + d * FramePeriod
    OBVIOUS
  <1>5. k * FramePeriod \in Nat /\ d * FramePeriod \in Nat
    OBVIOUS
  <1> QED
    BY <1>3, <1>4, <1>5

\* A frame that is shown before the time is among the first ones that are.
LEMMA ShownIsShown ==
    ASSUME NEW n \in Nat, NEW i \in 1 .. n, NEW time \in Nat, FramePeriod \in Nat, Time(i) < time
    PROVE  i \in 1 .. Cardinality({j \in 1 .. n : Time(j) < time})
  <1> DEFINE shown == {j \in 1 .. n : Time(j) < time}
  <1>1. 1 .. i \subseteq shown
    <2> SUFFICES ASSUME NEW j \in 1 .. i PROVE j \in shown
      OBVIOUS
    <2>1. i \in Nat \ {0} /\ j \in Nat \ {0} /\ j <= i /\ j \in 1 .. n
      OBVIOUS
    <2>2. Time(j) \in Nat /\ Time(i) \in Nat /\ Time(j) <= Time(i)
      BY <2>1, TimeGrows
    <2> QED
      BY <2>1, <2>2
  <1>2. IsFiniteSet(shown)
    <2>1. IsFiniteSet(1 .. n)
      BY FS_Interval
    <2>2. shown \subseteq 1 .. n
      OBVIOUS
    <2> HIDE DEF shown
    <2> QED
      BY <2>1, <2>2, FS_Subset
  <1> HIDE DEF shown
  <1>3. Cardinality(1 .. i) <= Cardinality(shown) /\ Cardinality(shown) \in Nat
    BY <1>1, <1>2, FS_Subset, FS_CardinalityType
  <1>4. Cardinality(1 .. i) = i
    <2>1. Cardinality(1 .. i) = IF 1 > i THEN 0 ELSE i - 1 + 1
      BY FS_Interval
    <2> QED
      BY <2>1
  <1> QED
    BY <1>3, <1>4 DEF shown

LEMMA InvInPlace == IInv => SoundStaysInPlace
  <1> SUFFICES ASSUME IInv, clip.sound # None
               PROVE  /\ Len(track) >= clip.sound
                      /\ \A ms \in DOMAIN track :
                            track[ms] # Silent => track[ms] = ms /\ ms <= clip.sound
                      /\ draft # None =>
                            /\ Len(draft.sound) >= Min({clip.sound, clip.frames * FramePeriod})
                            /\ \A i \in 1 .. clip.frames :
                                  Time(i) < clip.sound => i \in DOMAIN draft.frames
    BY DEF SoundStaysInPlace
  <1>1. /\ TypeOK /\ clip.sound \in Nat /\ clip.frames \in Nat /\ FramePeriod \in Nat
        /\ Len(track) \in Nat /\ DOMAIN track = 1 .. Len(track)
    BY MediaAreTyped DEF IInv
  <1>2. InPlace
    BY DEF IInv, SoundInv
  <1>3. ASSUME draft # None
        PROVE  /\ Len(draft.sound) >= Min({clip.sound, clip.frames * FramePeriod})
               /\ \A i \in 1 .. clip.frames : Time(i) < clip.sound => i \in DOMAIN draft.frames
    <2>1. Len(out) = clip.frames
      BY <1>3 DEF IInv, DraftInv, FramesInv
    <2>2. /\ Shortest \in Nat /\ Len(draft.sound) = Shortest
          /\ Shortest = clip.frames * FramePeriod \/ Shortest = Len(track)
          /\ DOMAIN draft.frames
               = 1 .. Cardinality({i \in 1 .. clip.frames : Time(i) < Shortest})
      BY <1>3, <2>1, DraftStreams
    <2>3. PICK whole \in Nat : whole = clip.frames * FramePeriod
      BY <1>1
    <2>4. Len(draft.sound) >= Min({clip.sound, clip.frames * FramePeriod})
      <3>1. Min({clip.sound, whole}) = IF clip.sound <= whole THEN clip.sound ELSE whole
        <4>1. PICK sound \in Nat : sound = clip.sound
          BY <1>1
        <4>2. Min({sound, whole}) = IF sound <= whole THEN sound ELSE whole
          BY MinOfTwo
        <4> QED
          BY <4>1, <4>2
      <3>2. Shortest = whole \/ Shortest >= clip.sound
        <4>1. Len(track) >= clip.sound
          BY <1>2 DEF InPlace
        <4>2. Shortest = whole \/ Shortest = Len(track)
          BY <2>2, <2>3
        <4> QED
          BY <4>1, <4>2
      <3>3. Shortest >= Min({clip.sound, whole})
        <4>1. PICK sound \in Nat : sound = clip.sound
          BY <1>1
        <4>2. PICK shortest \in Nat : shortest = Shortest
          BY <2>2
        <4>3. PICK least : least = Min({clip.sound, whole})
          OBVIOUS
        <4>4. least = IF sound <= whole THEN sound ELSE whole
          BY <3>1, <4>1, <4>3
        <4>5. shortest = whole \/ shortest >= sound
          BY <3>2, <4>1, <4>2
        <4>6. shortest >= least
          BY ONLY <4>4, <4>5, sound \in Nat, shortest \in Nat, whole \in Nat
        <4> QED
          BY <4>2, <4>3, <4>6
      <3> QED
        BY <2>2, <2>3, <3>3
    <2>5. ASSUME NEW i \in 1 .. clip.frames, Time(i) < clip.sound
          PROVE  i \in DOMAIN draft.frames
      <3>1. Time(i) < whole
        <4>1. PICK n \in Nat : n = clip.frames
          BY <1>1
        <4>2. i \in Nat \ {0} /\ n \in Nat \ {0} /\ i <= n
          BY <4>1
        <4>3. Time(i) \in Nat /\ Time(i) <= Time(n)
          BY <1>1, <4>2, TimeGrows
        <4>4. Time(n) = n * FramePeriod - FramePeriod
          BY <1>1, <4>2 DEF Time
        <4>5. FramePeriod > 0
          BY SourcesAreMedia
        <4>6. Time(n) \in Nat /\ Time(n) < whole
          BY <1>1, <2>3, <4>1, <4>2, <4>4, <4>5, TimeGrows
        <4> QED
          BY <4>3, <4>6
      <3>2. Time(i) < Shortest
        <4>1. CASE Shortest = whole
          BY <3>1, <4>1
        <4>2. CASE Shortest = Len(track)
          <5>1. i \in Nat \ {0}
            BY <1>1
          <5>2. Time(i) \in Nat
            BY <1>1, <5>1, TimeGrows
          <5>3. clip.sound <= Shortest
            BY <1>2, <4>2 DEF InPlace
          <5>4. PICK now \in Nat : now = Time(i)
            BY <5>2
          <5>5. PICK sound \in Nat : sound = clip.sound
            BY <1>1
          <5>6. now < sound /\ sound <= Shortest
            BY <2>5, <5>3, <5>4, <5>5
          <5> QED
            BY <2>2, <5>4, <5>6
        <4> QED
          BY <2>2, <2>3, <4>1, <4>2
      <3>3. PICK n \in Nat : n = clip.frames
        BY <1>1
      <3>4. i \in 1 .. Cardinality({j \in 1 .. n : Time(j) < Shortest})
        <4>1. PICK time \in Nat : time = Shortest
          BY <2>2
        <4>2. i \in 1 .. n /\ Time(i) < time /\ FramePeriod \in Nat
          BY <1>1, <3>2, <3>3, <4>1
        <4>3. i \in 1 .. Cardinality({j \in 1 .. n : Time(j) < time})
          BY <4>2, ShownIsShown
        <4> QED
          BY <4>1, <4>3
      <3> QED
        BY <2>2, <3>3, <3>4
    <2> QED
      BY <2>4, <2>5
  <1> QED
    BY <1>1, <1>2, <1>3 DEF InPlace

\* In the middle between two samples the one's window has not ended or the
\* other's has begun.
LEMMA InvTiles == IInv => SamplesTile
  <1> SUFFICES ASSUME IInv, draft # None,
                      NEW a \in Range(spans), NEW b \in Range(spans),
                      NEW i \in DOMAIN draft.frames,
                      a.box # NoBox, b.box # NoBox, b.start = a.end + 2 * HalfWindow,
                      a.end <= Time(i), Time(i) <= b.start,
                      NEW p \in Pixels, InBox(p[1], p[2], a.box), InBox(p[1], p[2], b.box)
               PROVE  p \in draft.frames[i]
    BY DEF SamplesTile
  <1>1. /\ TypeOK /\ margin \in Nat \ {0} /\ FramePeriod \in Nat /\ Len(out) \in Nat
        /\ DOMAIN spans = 1 .. Len(spans)
    BY MediaAreTyped DEF IInv
  <1>2. \A s \in Range(spans) : s \in Span /\ s.start <= s.end
    <2> SUFFICES ASSUME NEW k \in 1 .. Len(spans)
                 PROVE  spans[k] \in Span /\ spans[k].start <= spans[k].end
      BY <1>1 DEF Range
    <2>1. spans[k] \in Span
      BY <1>1, SpanFields
    <2>2. spans[k].start <= spans[k].end
      BY <1>1, SpansAreTrusted DEF TypeOK
    <2> QED
      BY <2>1, <2>2
  <1>3. /\ a.start \in Nat /\ a.end \in Nat /\ a.start <= a.end /\ a.box \in Box
        /\ b.start \in Nat /\ b.end \in Nat /\ b.start <= b.end /\ b.box \in Box
    BY <1>2 DEF Span
  <1>4. Time(i) \in Nat
    <2>1. i \in 1 .. Len(out)
      BY DraftStreams
    <2>2. i \in Nat \ {0}
      BY <1>1, <2>1
    <2> QED
      BY <1>1, <2>2, TimeGrows
  <1>5. PICK t \in Nat : t = Time(i)
    BY <1>4
  <1>6. Shows(a, t) \/ Shows(b, t)
    BY <1>3, <1>5, FrameIsAFrame DEF Shows
  <1>7. InBox(p[1], p[2], Crop(a.box, margin)) /\ InBox(p[1], p[2], Crop(b.box, margin))
    BY <1>1, <1>3, CropCovers
  <1>8. p \in Hidden(Range(spans), margin, t)
    BY <1>6, <1>7 DEF Hidden
  <1> QED
    BY <1>5, <1>8, InvHides DEF HidesWhatIsTrusted

-----------------------------------------------------------------------------
\* Every reachable state is within the types.
THEOREM CompositorTypeCorrect == Spec => []TypeOK
  <1>1. IInv => TypeOK
    BY DEF IInv
  <1> QED
    BY <1>1, CompositorInvariance, PTL

\* The draft hides in each frame, and silences on the track, exactly what
\* Redaction says the trusted spans cover, which is what Orchestrator assumes.
THEOREM DraftHides == Spec => []HidesWhatIsTrusted
  BY InvHides, CompositorInvariance, PTL

\* Mutes never move or cut the sound, and the draft loses nothing that both
\* streams of the source have.
THEOREM SoundInPlace == Spec => []SoundStaysInPlace
  BY InvInPlace, CompositorInvariance, PTL

\* Consecutive samples leave no frame between them open.
THEOREM SamplesLeaveNoGap == Spec => []SamplesTile
  BY InvTiles, CompositorInvariance, PTL
=============================================================================
