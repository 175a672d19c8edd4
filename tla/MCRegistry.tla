---------------------------- MODULE MCRegistry -----------------------------
(***************************************************************************)
(* Instance of Registry for TLC: the two threads of the pool, two of the   *)
(* built-in packages, and a plugin with two classes, one of them for a     *)
(* type that is built in.                                                  *)
(***************************************************************************)
EXTENDS Registry

MCPackages == <<"face", "text", "plugin">>
MCModules == [face |-> <<"haar", "lbp">>, text |-> <<"mser", "ocr">>, plugin |-> <<"tattoos">>]
MCRegisters ==
    [haar |-> << <<"face", "haar">> >>, lbp |-> << <<"face", "lbp">> >>,
     mser |-> << <<"text", "mser">> >>, ocr |-> << <<"text", "ocr">> >>,
     tattoos |-> << <<"tattoo", "contour">>, <<"text", "caption">> >>]

\* A run and its verification; a run for one type, and two more.
MCCalls == [first |-> << <<"face", "text">>, <<"face", "text">> >>,
           second |-> << <<"text">>, <<"tattoo", "text">>, <<"face">> >>]
=============================================================================
