----------------------------- MODULE MCAccounts -----------------------------
(***************************************************************************)
(* Instance of Accounts for TLC: two browsers, two addresses, two          *)
(* passwords, three requests at once, and a restart of the server.         *)
(***************************************************************************)
EXTENDS Accounts, TLC

CONSTANTS r1, r2, r3, b1, b2, ann, bob, pw1, pw2

MCRequests == {r1, r2, r3}
MCBrowsers == {b1, b2}
MCEmails == {ann, bob}
MCPasswords == {pw1, pw2}

Symmetric == Permutations(MCRequests) \cup Permutations(MCBrowsers)
                 \cup Permutations(MCEmails) \cup Permutations(MCPasswords)
=============================================================================
