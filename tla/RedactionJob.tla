---------------------------- MODULE RedactionJob ----------------------------
(***************************************************************************)
(* What one call of the orchestrator promises, without its stages: it      *)
(* makes and verifies one draft at a time, stops at the first clean one or *)
(* when the attempts are used up, and only then writes the output.  It may *)
(* fail at any time, also after that: the output is then as it was before, *)
(* incomplete, or that last draft, never another.  Orchestrator implements *)
(* this module.                                                            *)
(***************************************************************************)
EXTENDS Integers, FiniteSetsExt

CONSTANTS
    Limits,                  \* values of policy.retry.max_attempts, integers
    Absent, Stale, Partial   \* what the output file may hold besides a draft

VARIABLES
    dryRun,   \* the call is scan(): nothing is redacted
    limit,    \* max_attempts of the policy
    tries,    \* drafts made and verified
    clean,    \* the verifier saw nothing in the last one
    phase,    \* "working", "listed", "resolved", "unresolved" or "aborted"
    out       \* the output file: the number of a draft, or one of the above

vars == <<dryRun, limit, tries, clean, phase, out>>

\* One attempt, and one more for each retry.
Attempts == Max({0, limit}) + 1

Init ==
    /\ dryRun \in BOOLEAN
    /\ limit \in Limits
    /\ tries = 0
    /\ clean = FALSE
    /\ phase = "working"
    /\ out \in {Absent, Stale}

Try ==
    /\ phase = "working" /\ ~dryRun
    /\ ~clean /\ tries < Attempts
    /\ tries' = tries + 1
    /\ clean' \in BOOLEAN
    /\ UNCHANGED <<dryRun, limit, phase, out>>

\* The last draft is good enough, or the last there will be.
Final == tries > 0 /\ (clean \/ tries = Attempts)

\* That draft is copied to the output, or a part of it.
Write ==
    /\ phase = "working" /\ Final
    /\ out \in {Absent, Stale}
    /\ out' \in {Partial, tries - 1}
    /\ UNCHANGED <<dryRun, limit, tries, clean, phase>>

\* The call returns only with the whole of it written.
Deliver ==
    /\ phase = "working" /\ Final
    /\ out = tries - 1
    /\ phase' = IF clean THEN "resolved" ELSE "unresolved"
    /\ UNCHANGED <<dryRun, limit, tries, clean, out>>

List ==
    /\ phase = "working" /\ dryRun
    /\ phase' = "listed"
    /\ UNCHANGED <<dryRun, limit, tries, clean, out>>

\* The call fails, with whatever the output holds by then.
Abort ==
    /\ phase = "working"
    /\ phase' = "aborted"
    /\ UNCHANGED <<dryRun, limit, tries, clean, out>>

Next == Try \/ Write \/ Deliver \/ List \/ Abort

Spec == Init /\ [][Next]_vars /\ WF_vars(Next)
=============================================================================
