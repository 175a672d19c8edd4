------------------------------ MODULE JobBoard ------------------------------
(***************************************************************************)
(* What the web application promises of its jobs, as the pages show them:  *)
(* an accepted upload waits, is started once, and gets one verdict, which  *)
(* is final; only then is there a file to download, the one the verdict    *)
(* is about.  WebJobs implements this module.                              *)
(***************************************************************************)
EXTENDS Sequences

CONSTANTS
    Nothing,   \* no file to download
    Verdicts   \* what a redaction may end with

VARIABLES
    status,     \* job id -> "queued", "running", "done" or "failed"
    download    \* job id -> Nothing, or the verdict of the file behind the link

vars == <<status, download>>

Init == status = <<>> /\ download = <<>>

Accept ==
    /\ status' = Append(status, "queued")
    /\ download' = Append(download, Nothing)

Start(j) ==
    /\ status[j] = "queued"
    /\ status' = [status EXCEPT ![j] = "running"]
    /\ UNCHANGED download

Finish(j) ==
    /\ status[j] = "running"
    /\ status' = [status EXCEPT ![j] = "done"]
    /\ \E v \in Verdicts : download' = [download EXCEPT ![j] = v]

Fail(j) ==
    /\ status[j] = "running"
    /\ status' = [status EXCEPT ![j] = "failed"]
    /\ UNCHANGED download

Next == Accept \/ \E j \in DOMAIN status : Start(j) \/ Finish(j) \/ Fail(j)

Spec == Init /\ [][Next]_vars
=============================================================================
