----------------------------- MODULE MCWebJobs ------------------------------
(***************************************************************************)
(* Instance of WebJobs for TLC: three uploads on two threads, so that one  *)
(* job waits while two run.                                                *)
(***************************************************************************)
EXTENDS WebJobs

CONSTANTS u1, u2, u3, w1, w2

MCUploads == {u1, u2, u3}
MCWorkers == {w1, w2}
=============================================================================
