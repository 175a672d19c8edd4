----------------------------- MODULE MCCommands -----------------------------
(***************************************************************************)
(* Instance of Commands for TLC: three files, two of them in different     *)
(* folders under one base name.                                            *)
(***************************************************************************)
EXTENDS Commands

CONSTANTS clip1, clip2, talk   \* a/clip.mp4, b/clip.mov and talk.mp4

MCFiles == {clip1, clip2, talk}
MCBase == [f \in MCFiles |-> IF f = talk THEN "talk" ELSE "clip"]
MCLimits == {0, 1}
=============================================================================
