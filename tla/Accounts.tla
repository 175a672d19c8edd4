------------------------------ MODULE Accounts ------------------------------
(***************************************************************************)
(* Signup, login and sessions of redactguard_webapp: the handlers of       *)
(* routes/pages.py, the users table behind auth.py, and the signed cookie  *)
(* that is the session.                                                    *)
(*                                                                         *)
(* The handlers are run on threads, each with a connection of its own, so  *)
(* requests interleave at every database call.  An INSERT takes SQLite's   *)
(* write lock until its commit; readers see committed rows only.  Answers  *)
(* reach a browser in any order.  The cookie is SessionMiddleware's,       *)
(* modelled from how app.py uses it: an answer carries the session that    *)
(* its request ends with, if there is one, and takes back the one it came  *)
(* with, if not.                                                           *)
(***************************************************************************)
EXTENDS Integers, Sequences, FiniteSets

CONSTANTS
    Requests,     \* requests, each made once
    Browsers,
    Emails,       \* addresses, stripped and in lower case
    Passwords,    \* passwords long enough, and repeated right
    None,
    MaxRestarts   \* bound on the restarts of the server

ASSUME NoneIsNobody == None \notin Nat \cup Requests
ASSUME RestartsAreBounded == MaxRestarts \in Nat

VARIABLES
    request,    \* request -> who makes it, what with, and its step
    users,      \* the users table, committed: id -> email, password
    writing,    \* the request that holds the write lock, or None
    key,        \* secret_key, as a number
    fixedKey,   \* the operator has set it in the environment
    cookie,     \* browser -> its session cookie, or None
    restarts

vars == <<request, users, writing, key, fixedKey, cookie, restarts>>

Unused == [kind |-> "none", by |-> None, email |-> None, password |-> None,
           came |-> None, session |-> None, step |-> "unused"]

Init ==
    /\ request = [r \in Requests |-> Unused]
    /\ users = <<>>
    /\ writing = None
    /\ key = 0
    /\ fixedKey \in BOOLEAN
    /\ cookie = [b \in Browsers |-> None]
    /\ restarts = 0

\* The session in a cookie: none, if another key has signed it.
SessionOf(c) == IF c # None /\ c.key = key THEN c.user ELSE None

\* A browser sends a request with the cookie it has.
Send(r, b, kind, e, p) ==
    /\ request[r] = Unused
    /\ request' = [request EXCEPT ![r] =
           [kind |-> kind, by |-> b, email |-> e, password |-> p, came |-> SessionOf(cookie[b]),
            session |-> SessionOf(cookie[b]), step |-> "begin"]]
    /\ UNCHANGED <<users, writing, key, fixedKey, cookie, restarts>>

Ask(r, b) ==
    \/ \E kind \in {"signup", "login"}, e \in Emails, p \in Passwords : Send(r, b, kind, e, p)
    \/ \E kind \in {"logout", "page"} : Send(r, b, kind, None, None)

Go(r, kind, from) == request[r].kind = kind /\ request[r].step = from
Answer(r, session, step) == request' = [request EXCEPT ![r].session = session, ![r].step = step]

IdsWith(email) == {id \in DOMAIN users : users[id].email = email}

-----------------------------------------------------------------------------
\* create_user() looks for the email first: it is registered ...
SignupRefused(r) ==
    /\ Go(r, "signup", "begin")
    /\ IdsWith(request[r].email) # {}
    /\ Answer(r, request[r].session, "refused")
    /\ UNCHANGED <<users, writing, key, fixedKey, cookie, restarts>>

\* ... or it is not, yet.
SignupSelect(r) ==
    /\ Go(r, "signup", "begin")
    /\ IdsWith(request[r].email) = {}
    /\ Answer(r, request[r].session, "insert")
    /\ UNCHANGED <<users, writing, key, fixedKey, cookie, restarts>>

\* Mutant of Unique: the column has no UNIQUE constraint.
NotUnique(r) == TRUE

\* The UNIQUE constraint of the email column holds for the new row.
Unique(r) == IdsWith(request[r].email) = {}

\* The INSERT: it takes the write lock.
SignupInsert(r) ==
    /\ Go(r, "signup", "insert")
    /\ writing = None /\ Unique(r)
    /\ writing' = r
    /\ Answer(r, request[r].session, "commit")
    /\ UNCHANGED <<users, key, fixedKey, cookie, restarts>>

\* Mutants of SignupCommit: the session is the first user's; the lock is not
\* given back.
SignupFirstUser(r) ==
    /\ Go(r, "signup", "commit")
    /\ users' = Append(users, [email |-> request[r].email, password |-> request[r].password])
    /\ writing' = None
    /\ Answer(r, 1, "welcome")
    /\ UNCHANGED <<key, fixedKey, cookie, restarts>>

SignupKeepsLock(r) ==
    /\ Go(r, "signup", "commit")
    /\ users' = Append(users, [email |-> request[r].email, password |-> request[r].password])
    /\ Answer(r, Len(users) + 1, "welcome")
    /\ UNCHANGED <<writing, key, fixedKey, cookie, restarts>>

\* The commit; the session is the new user's.
SignupCommit(r) ==
    /\ Go(r, "signup", "commit")
    /\ users' = Append(users, [email |-> request[r].email, password |-> request[r].password])
    /\ writing' = None
    /\ Answer(r, Len(users) + 1, "welcome")
    /\ UNCHANGED <<key, fixedKey, cookie, restarts>>

\* verify_password(): the request has the password of the row.  Two passwords
\* that bcrypt takes for one are one member of Passwords.
Verified(r, id) == users[id].password = request[r].password

\* authenticate() finds the email, with this password.
Login(r) ==
    /\ Go(r, "login", "begin")
    /\ \E id \in IdsWith(request[r].email) : Verified(r, id) /\ Answer(r, id, "welcome")
    /\ UNCHANGED <<users, writing, key, fixedKey, cookie, restarts>>

LoginRefused(r) ==
    /\ Go(r, "login", "begin")
    /\ \A id \in IdsWith(request[r].email) : ~Verified(r, id)
    /\ Answer(r, request[r].session, "refused")
    /\ UNCHANGED <<users, writing, key, fixedKey, cookie, restarts>>

Logout(r) ==
    /\ Go(r, "logout", "begin")
    /\ Answer(r, None, "goodbye")
    /\ UNCHANGED <<users, writing, key, fixedKey, cookie, restarts>>

\* Any page: current_user() only reads.
Page(r) ==
    /\ Go(r, "page", "begin")
    /\ Answer(r, request[r].session, "page")
    /\ UNCHANGED <<users, writing, key, fixedKey, cookie, restarts>>

\* A call of the database raises and ends the request.  The INSERT does if
\* another signup has the email by now; any may, as nobody waits for a lock for
\* ever and disks are full.  A row that is not committed is lost.
DatabaseRaises(r) ==
    /\ \/ request[r].kind \in {"signup", "login"}
       \/ request[r].kind = "page" /\ request[r].session # None
    /\ request[r].step \in {"begin", "insert", "commit"}
    /\ writing' = IF request[r].step = "commit" THEN None ELSE writing
    /\ Answer(r, request[r].came, "error")
    /\ UNCHANGED <<users, key, fixedKey, cookie, restarts>>

Answers == {"refused", "welcome", "goodbye", "page"}

\* The answer reaches the browser, with or without a cookie.  An answer to an
\* exception has none.
Receive(r) ==
    /\ request[r].step \in Answers \cup {"error"}
    /\ cookie' = IF request[r].step = "error" THEN cookie
                 ELSE IF request[r].session # None
                 THEN [cookie EXCEPT ![request[r].by] = [user |-> request[r].session, key |-> key]]
                 ELSE IF request[r].came # None
                 THEN [cookie EXCEPT ![request[r].by] = None]
                 ELSE cookie
    /\ request' = [request EXCEPT ![r].step = "over"]
    /\ UNCHANGED <<users, writing, key, fixedKey, restarts>>

\* The key of a new Settings object: a new one, unless it is set.
NewKey == IF fixedKey THEN key ELSE key + 1

\* The server is killed and starts again: what it was doing is lost, a row
\* that is not committed too.
Restart ==
    /\ restarts < MaxRestarts
    /\ restarts' = restarts + 1
    /\ key' = NewKey
    /\ writing' = None
    /\ request' = [r \in Requests |-> IF request[r].step \in {"unused", "over"} THEN request[r]
                                      ELSE [request[r] EXCEPT !.step = "over"]]
    /\ UNCHANGED <<users, fixedKey, cookie>>

Handle(r) ==
    \/ SignupRefused(r) \/ SignupSelect(r) \/ SignupInsert(r) \/ SignupCommit(r)
    \/ Login(r) \/ LoginRefused(r) \/ Logout(r) \/ Page(r)
    \/ DatabaseRaises(r) \/ Receive(r)

Next ==
    \/ \E r \in Requests, b \in Browsers : Ask(r, b)
    \/ \E r \in Requests : Handle(r)
    \/ Restart

Spec == Init /\ [][Next]_vars

-----------------------------------------------------------------------------
\* The values the state ranges over; the lock is held by the signup that is
\* about to commit.
TypeOK ==
    /\ \A r \in Requests :
          /\ request[r].step \in {"unused", "begin", "insert", "commit", "error", "over"} \cup Answers
          /\ request[r] # Unused => request[r].by \in Browsers
    /\ users \in Seq([email : Emails, password : Passwords])
    /\ {r \in Requests : request[r].step = "commit"} = {writing} \ {None}
    /\ key \in 0 .. restarts /\ restarts \in 0 .. MaxRestarts
    /\ \A b \in Browsers : cookie[b] = None \/ cookie[b].key <= key

\* An email has one account, however many signups for it run at once: login
\* finds the row that signup made.
OneAccountPerEmail ==
    \A i, j \in DOMAIN users : users[i].email = users[j].email => i = j

\* A browser's session names a committed row, through restarts of the server
\* in the middle of a signup, and it is the row of an account whose email and
\* password were sent from that browser, in a signup or login.
SessionIsEarned ==
    \A b \in Browsers :
        LET u == SessionOf(cookie[b])
        IN  u # None =>
              /\ u \in DOMAIN users
              /\ \E r \in Requests :
                  /\ request[r].by = b /\ request[r].kind \in {"signup", "login"}
                  /\ users[u] = [email |-> request[r].email, password |-> request[r].password]
=============================================================================
