----------------------------- MODULE Transcript -----------------------------
(***************************************************************************)
(* The way back from a match in a transcript to a time, of                 *)
(* redactguard_core/detectors/audio/whisper_detector.py: the words are     *)
(* joined into a text, each with the range of characters it got, and a     *)
(* match takes the time of the words whose ranges it meets.                *)
(*                                                                         *)
(* A word is its characters without the blanks around them, and its times. *)
(* Which ranges of the text match is for Detectors to say.                 *)
(***************************************************************************)
EXTENDS Integers, Sequences, FiniteSetsExt

CONSTANTS
    Blank,        \* what stands between two words
    Recordings,   \* the lists of words that may be recognised
    NoTime        \* no range of time

VARIABLES
    words,     \* the words recognised
    indexed,   \* how many of them build_indexed_transcript() has handled
    ranges,    \* spans: [char_start, char_end, start, end] of the words that say something
    pos,       \* the length of the text
    text       \* the text: each character, and the number of its word, 0 for a blank

vars == <<words, indexed, ranges, pos, text>>

Init == words = <<>> /\ indexed = 0 /\ ranges = <<>> /\ pos = 0 /\ text = <<>>

Load(recording) ==
    /\ indexed = Len(words)
    /\ words' = recording /\ indexed' = 0 /\ ranges' = <<>> /\ pos' = 0 /\ text' = <<>>

IndexNext ==
    /\ indexed < Len(words)
    /\ indexed' = indexed + 1
    /\ UNCHANGED words

\* Nothing is left of the word without its blanks.
SkipBlank ==
    /\ IndexNext /\ words[indexed + 1].chars = <<>>
    /\ UNCHANGED <<ranges, pos, text>>

\* Mutant of CharStart: the blank between two words is not counted.
CharStartNoBlank == pos

\* Where the next word starts: after a blank, unless it is the first.
CharStart == IF ranges = <<>> THEN pos ELSE pos + 1

AddWord ==
    LET w == words[indexed + 1]
        blank == IF ranges = <<>> THEN <<>> ELSE << <<Blank, 0>> >>
    IN  /\ IndexNext /\ w.chars # <<>>
        /\ text' = text \o blank \o [k \in DOMAIN w.chars |-> <<w.chars[k], indexed + 1>>]
        /\ ranges' = Append(ranges, [char_start |-> CharStart, char_end |-> CharStart + Len(w.chars),
                                     start |-> w.start, end |-> w.end])
        /\ pos' = CharStart + Len(w.chars)

Next == SkipBlank \/ AddWord

Spec == Init /\ [][(\E recording \in Recordings : Load(recording)) \/ Next]_vars

Indexed == indexed = Len(words)

\* _time_range_for_match: the characters from s up to, but not including, e.
TimeRange(s, e) ==
    LET met == {i \in DOMAIN ranges : ranges[i].char_start < e /\ s < ranges[i].char_end}
    IN  IF met = {} THEN NoTime
        ELSE [start |-> Min({ranges[i].start : i \in met}),
              end   |-> Max({ranges[i].end : i \in met})]

-----------------------------------------------------------------------------
TypeOK ==
    /\ indexed \in 0 .. Len(words)
    /\ ranges \in Seq([char_start : Nat, char_end : Nat, start : Nat, end : Nat])
    /\ pos \in Nat
    /\ \A k \in DOMAIN text : text[k][2] \in 0 .. indexed

\* The words a match says something of.
Said(s, e) == {text[k][2] : k \in s + 1 .. Min({e, Len(text)})} \ {0}

\* A match gets exactly the time from the first to the last of the words its
\* characters belong to, and no match is dropped that has a character of a word.
TimesAreTheWords ==
    Indexed => /\ pos = Len(text)
               /\ \A s, e \in 0 .. Len(text) : s < e =>
                     TimeRange(s, e) =
                         IF Said(s, e) = {} THEN NoTime
                         ELSE [start |-> Min({words[w].start : w \in Said(s, e)}),
                               end   |-> Max({words[w].end : w \in Said(s, e)})]
=============================================================================
