---------------------------- MODULE MCDetectors -----------------------------
(***************************************************************************)
(* Instance of Detectors for TLC.  The media vary in one respect at a      *)
(* time: every list of blobs up to four, every track up to nine frames,    *)
(* every list of words up to three, every row of words read off a frame,   *)
(* or all of it at once on two frames.                                     *)
(***************************************************************************)
EXTENDS Detectors

LOCAL INSTANCE SequencesExt

MCPiiTypes == {"face", "text", "audio", "plate"}
MCDetectors == {"haar", "lbp", "ocr", "mser", "vad", "whisper"}
MCRegistered ==
    [type \in MCPiiTypes |->
        CASE type = "face" -> <<"haar", "lbp">>
          [] type = "text" -> <<"mser", "ocr">>
          [] type = "audio" -> <<"vad", "whisper">>
          [] type = "plate" -> <<>>]

BoxAt(x, y, w, h) == [x |-> x, y |-> y, w |-> w, h |-> h]

\* In a frame of 40 x 20 pixels.  Third and Fourth should be merged; only their
\* union reaches Second, and only the union of those three reaches First.  Twin
\* is a near-duplicate of First, Wall too large for text.
First  == BoxAt(24, 2, 4, 3)
Second == BoxAt(13, 3, 4, 2)
Third  == BoxAt(2, 1, 3, 2)
Fourth == BoxAt(6, 2, 2, 2)
Twin   == BoxAt(24, 2, 4, 2)
Wall   == BoxAt(0, 0, 40, 10)

Lists(S, n) == UNION {[1 .. k -> S] : k \in 0 .. n}

NoFaces == [d \in {"haar", "lbp"} |-> <<>>]
Still(time, blobs) == [time |-> time, blobs |-> blobs, faces |-> NoFaces,
                       text |-> <<>>, read |-> <<>>]
Silent == [frames |-> <<Still(0, <<>>)>>, audio |-> FALSE, track |-> <<>>, words |-> <<>>]
SayWord(chars, start, end) == [chars |-> chars, start |-> start, end |-> end]
ReadWord(chars, box) == [chars |-> chars, box |-> box]

\* "I." stands for the one character that lower() turns into two.
MCLowerCase == [c \in {"a", "A", "b", "i", ".", "I.", " ", "\n"} |->
                   CASE c = "A" -> <<"a">> [] c = "I." -> <<"i", ".">> [] OTHER -> <<c>>]
MCBlanks == {" ", "\n"}
MCKeywords == << <<"A", "b">>, <<"b", " ", "a">>, <<>>, <<"I.", " ", "I.">>, <<" ">> >>

Busy(time) ==
    [time |-> time, blobs |-> <<Third, First>>,
     text |-> <<"b", " ", "A">>, read |-> <<ReadWord(<<"b">>, Third), ReadWord(<<" ", "A">>, Fourth)>>,
     faces |-> [d \in {"haar", "lbp"} |-> IF d = "haar" THEN <<First>> ELSE <<First, Second>>]]

\* What Tesseract reads: at most three words in a row, a string of white
\* space, a string without words.
ReadWords == {ReadWord(<<"b">>, First), ReadWord(<<"A">>, Second), ReadWord(<<"a", "b", "A">>, Third),
              ReadWord(<<"I.">>, Wall)}
Join(read) ==
    FlattenSeq([i \in DOMAIN read |-> read[i].chars \o <<IF i < Len(read) THEN " " ELSE "\n">>])
Pages == {[text |-> Join(read), read |-> read] : read \in Lists(ReadWords, 3)}
            \cup {[text |-> <<" ">>, read |-> <<>>], [text |-> <<"a", "b">>, read |-> <<>>]}

MCMedias ==
    {[Silent EXCEPT !.frames = <<Still(0, blobs)>>] : blobs \in Lists({First, Second, Third, Fourth, Twin, Wall}, 4)}
    \cup {[Silent EXCEPT !.audio = TRUE, !.track = track] : track \in Lists(BOOLEAN, 9)}
    \cup {[Silent EXCEPT !.audio = TRUE, !.words = said] :
            said \in Lists({SayWord(<<>>, 0, 9), SayWord(<<"I.">>, 0, 2), SayWord(<<"a", "b">>, 3, 4)}, 3)}
    \cup {[Silent EXCEPT !.audio = TRUE, !.words =
              <<SayWord(<<"i", ".">>, 0, 1), SayWord(<<"I.">>, 2, 3), SayWord(<<"I.">>, 4, 5)>>]}
    \cup {[Silent EXCEPT !.frames[1].text = page.text, !.frames[1].read = page.read] : page \in Pages}
    \cup {[frames |-> <<Busy(0), Busy(1000)>>, audio |-> TRUE,
           track |-> <<FALSE, TRUE, TRUE, TRUE, TRUE, TRUE, TRUE, TRUE>>,
           words |-> <<SayWord(<<"a", "b">>, 0, 9), SayWord(<<"a">>, 10, 12)>>]}

MCPolicies ==
    {<< <<"text", TRUE>>, <<"face", FALSE>>, <<"audio", TRUE>> >>,
     << <<"audio", TRUE>>, <<"face", TRUE>>, <<"text", TRUE>> >>,
     << <<"face", TRUE>>, <<"plate", TRUE>> >>}
=============================================================================
