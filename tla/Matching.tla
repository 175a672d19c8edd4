------------------------------ MODULE Matching ------------------------------
(***************************************************************************)
(* How a policy's keywords are found in a text, find_keyword_matches of    *)
(* detectors/common/pii_patterns.py, and how a match in the text of a      *)
(* frame is placed on words of that frame, _bbox_for_match of              *)
(* detectors/text/ocr_detector.py.                                         *)
(*                                                                         *)
(* A text is the sequence of its characters, counted from 0 as in the      *)
(* code.  One character may have more than one in lower case: that of "İ"  *)
(* is "i" and a combining dot.  The one letter whose lower case depends on *)
(* its neighbours, the final sigma, is left out.                           *)
(***************************************************************************)
EXTENDS Integers, SequencesExt, FiniteSetsExt

CONSTANTS
    Blanks,      \* white space
    LowerCase    \* character -> what lower() makes of it, a text

\* Mutant of Lower: upper case stays.
LowerNot(text) == text

Lower(text) == FlattenSeq([i \in DOMAIN text |-> LowerCase[text[i]]])

Strip(text) ==
    LET said == {i \in DOMAIN text : text[i] \notin Blanks}
    IN  IF said = {} THEN <<>> ELSE SubSeq(text, Min(said), Max(said))

OccursAt(needle, text, i) == SubSeq(text, i + 1, i + Len(needle)) = needle

HasText(text, needle) == \E i \in 0 .. Len(text) - Len(needle) : OccursAt(needle, text, i)

\* Where needle is found in text: first from the left, then behind what was found.
Finds(text, needle) ==
    LET from[k \in 0 .. Len(text)] ==
            LET next == {i \in k .. Len(text) - Len(needle) : OccursAt(needle, text, i)}
            IN  IF next = {} THEN <<>> ELSE <<Min(next)>> \o from[Min(next) + Len(needle)]
    IN  from[0]

\* Offsets into the lowered text are used as offsets into the text.
KeywordMatches(text, keywords) ==
    LET matches(kw) ==
            IF Lower(kw) = <<>> THEN <<>>
            ELSE LET found == Finds(Lower(text), Lower(kw))
                 IN  [n \in DOMAIN found |-> [start |-> found[n], end |-> found[n] + Len(kw)]]
    IN  FlattenSeq([k \in DOMAIN keywords |-> matches(keywords[k])])

\* matched_text: a slice ends where the text ends.
Matched(text, m) == SubSeq(text, m.start + 1, Min({m.end, Len(text)}))

\* The boxes of the words read off a frame that lie in what was matched, or
\* that it lies in, anywhere in the frame.
MatchedBoxes(text, m, read) ==
    LET needle == Lower(Strip(Matched(text, m)))
        lines(word) == word # <<>> /\ (HasText(needle, word) \/ HasText(word, needle))
    IN  IF needle = <<>> THEN {}
        ELSE {read[i].box : i \in {k \in DOMAIN read : lines(Lower(Strip(read[k].chars)))}}

-----------------------------------------------------------------------------
\* Reference: the characters of the text from i on are those of the keyword,
\* whatever their case.
SameAt(kw, text, i) ==
    /\ i + Len(kw) <= Len(text)
    /\ \A k \in DOMAIN kw : LowerCase[text[i + k]] = LowerCase[kw[k]]

\* A keyword that is not white space stands at i.
StandsAt(kw, text, i) == Strip(kw) # <<>> /\ SameAt(kw, text, i)

\* Lowering the text leaves offsets up to i as they are.
Straight(text, i) == \A k \in 1 .. i : Len(LowerCase[text[k]]) = 1

\* A word of a frame holds the keyword or is part of it.
Concerns(kw, word) ==
    \/ \E i \in 0 .. Len(word) : StandsAt(kw, word, i)
    \/ \E i \in 0 .. Len(kw) : StandsAt(word, kw, i)

\* The places where it stands, but for those that overlap an earlier one, and
\* where lower() lengthens neither what comes before nor the keyword itself.
Stands(kw, text) ==
    {i \in 0 .. Len(text) : /\ StandsAt(kw, text, i)
                            /\ Straight(text, i) /\ Straight(kw, Len(kw))
                            /\ \A j \in 0 .. i - 1 : StandsAt(kw, text, j) => j + Len(kw) <= i}
=============================================================================
