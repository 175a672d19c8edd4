--------------------------- MODULE AccountsProofs ---------------------------
(***************************************************************************)
(* Theorems about Accounts, for any number of browsers, requests and       *)
(* restarts: however signups and logins interleave, an email has one       *)
(* account, and a session is that of an account its browser has shown the  *)
(* password of.                                                            *)
(***************************************************************************)
EXTENDS Accounts, SequenceTheorems, TLAPS

Forms == {"signup", "login"}
Asked == [kind : Forms \cup {"logout", "page"}, by : Browsers, email : Emails \cup {None},
          password : Passwords \cup {None}, came : Nat \cup {None}, session : Nat \cup {None},
          step : {"begin", "insert", "commit", "error", "over"} \cup Answers]
User == [email : Emails, password : Passwords]

\* TypeOK, with the fields of the requests and the cookies.
Types ==
    /\ TypeOK
    /\ request \in [Requests -> Asked \cup {Unused}]
    /\ \A r \in Requests : request[r].kind \in Forms =>
          request[r].email \in Emails /\ request[r].password \in Passwords
    /\ cookie \in [Browsers -> [user : Nat, key : Nat] \cup {None}]

\* The signup that holds the write lock: no row has its email yet.
LockInv == \A r \in Requests : request[r].step = "commit" => IdsWith(request[r].email) = {}

\* u is the row of an account whose email and password browser b has sent.
Earned(u, b) ==
    /\ u \in DOMAIN users
    /\ \E r \in Requests :
          /\ request[r].by = b /\ request[r].kind \in Forms
          /\ users[u] = [email |-> request[r].email, password |-> request[r].password]

\* The sessions that a request may yet answer with.
AnswersInv ==
    \A r \in Requests : request[r].step \notin {"unused", "over"} =>
        \A u \in {request[r].session, request[r].came} \ {None} : Earned(u, request[r].by)

\* The inductive invariant.
Inv == Types /\ LockInv /\ OneAccountPerEmail /\ AnswersInv /\ SessionIsEarned

-----------------------------------------------------------------------------
LEMMA NoneIsApart == None \notin Nat /\ None \notin Requests
  BY NoneIsNobody

\* A request that is made, field by field.
LEMMA MadeRequest ==
    ASSUME Types, NEW r \in Requests, request[r].step # "unused"
    PROVE  /\ request[r] \in Asked /\ request[r] # Unused
           /\ request[r] = [kind |-> request[r].kind, by |-> request[r].by, email |-> request[r].email,
                            password |-> request[r].password, came |-> request[r].came,
                            session |-> request[r].session, step |-> request[r].step]
           /\ request[r].by \in Browsers /\ request[r].kind \in Forms \cup {"logout", "page"}
           /\ request[r].came \in Nat \cup {None} /\ request[r].session \in Nat \cup {None}
  <1>1. request[r] # Unused
    BY DEF Unused
  <1>2. request[r] \in Asked
    BY <1>1 DEF Types
  <1> QED
    BY <1>1, <1>2 DEF Asked

\* The users table, and its rows.
LEMMA Rows ==
    ASSUME TypeOK
    PROVE  /\ users \in Seq(User) /\ Len(users) \in Nat /\ DOMAIN users = 1 .. Len(users)
           /\ \A id \in DOMAIN users :
                 /\ users[id] \in User /\ id \in Nat
                 /\ users[id] = [email |-> users[id].email, password |-> users[id].password]
  <1>1. users \in Seq(User)
    BY DEF TypeOK, User
  <1>2. Len(users) \in Nat /\ DOMAIN users = 1 .. Len(users)
    BY <1>1, LenProperties
  <1>3. \A id \in DOMAIN users : users[id] \in User
    BY <1>1, <1>2, ElementOfSeq
  <1> QED
    BY <1>1, <1>2, <1>3 DEF User

\* A request goes on to another step, with a session.
LEMMA Answered ==
    ASSUME Types, NEW r \in Requests, request[r].step # "unused", NEW session \in Nat \cup {None},
           NEW step \in {"begin", "insert", "commit", "error", "over"} \cup Answers,
           Answer(r, session, step)
    PROVE  /\ request' \in [Requests -> Asked \cup {Unused}]
           /\ request'[r].kind = request[r].kind /\ request'[r].by = request[r].by
           /\ request'[r].email = request[r].email /\ request'[r].password = request[r].password
           /\ request'[r].came = request[r].came /\ request'[r].session = session
           /\ request'[r].step = step /\ request'[r] # Unused
           /\ \A q \in Requests \ {r} : request'[q] = request[q]
  <1>1. request[r] \in Asked
    BY MadeRequest
  <1>2. PICK new : new = [request[r] EXCEPT !.session = session, !.step = step]
    OBVIOUS
  <1>3. /\ new \in Asked /\ new.kind = request[r].kind /\ new.by = request[r].by
        /\ new.email = request[r].email /\ new.password = request[r].password
        /\ new.came = request[r].came /\ new.session = session /\ new.step = step
    BY <1>1, <1>2 DEF Asked
  <1>4. request \in [Requests -> Asked \cup {Unused}] /\ request' = [request EXCEPT ![r] = new]
    BY <1>2 DEF Types, Answer
  <1>5. new # Unused
    BY <1>3 DEF Unused, Answers
  <1> QED
    BY <1>3, <1>4, <1>5

\* The fields that say who a request is from stay, rows stay ...
Lasting ==
    /\ \A id \in DOMAIN users : id \in DOMAIN users' /\ users'[id] = users[id]
    /\ \A r \in Requests : request[r].kind \in Forms =>
          /\ request'[r].kind = request[r].kind /\ request'[r].by = request[r].by
          /\ request'[r].email = request[r].email /\ request'[r].password = request[r].password

\* ... so what was earned remains so.
LEMMA EarnedLasts ==
    ASSUME Lasting, NEW u, NEW b, Earned(u, b)
    PROVE  Earned(u, b)'
  <1>1. PICK r \in Requests : /\ request[r].by = b /\ request[r].kind \in Forms
                              /\ users[u] = [email |-> request[r].email, password |-> request[r].password]
    BY DEF Earned
  <1>2. u \in DOMAIN users' /\ users'[u] = users[u]
    BY DEF Earned, Lasting
  <1>3. /\ request'[r].by = b /\ request'[r].kind \in Forms
        /\ users'[u] = [email |-> request'[r].email, password |-> request'[r].password]
    BY <1>1, <1>2 DEF Lasting
  <1> QED
    BY <1>2, <1>3 DEF Earned

\* A session is earned: the property, in terms of Earned.
LEMMA SessionsAreEarned ==
    SessionIsEarned <=> \A b \in Browsers : \A u : (u = SessionOf(cookie[b]) /\ u # None) => Earned(u, b)
  BY DEF SessionIsEarned, Earned, Forms

-----------------------------------------------------------------------------
\* The steps of a handler that leave the database as it is; the write lock is
\* given back, if it was held.
LEMMA AnswerKeepsInv ==
    ASSUME Inv, NEW r \in Requests, request[r].step \notin {"unused", "over"},
           NEW session \in Nat \cup {None}, NEW step \in {"insert", "error"} \cup Answers,
           Answer(r, session, step), session # None => Earned(session, request[r].by),
           writing' = IF request[r].step = "commit" THEN None ELSE writing,
           UNCHANGED <<users, key, fixedKey, cookie, restarts>>
    PROVE  Inv'
  <1>1. /\ request' \in [Requests -> Asked \cup {Unused}]
        /\ request'[r].kind = request[r].kind /\ request'[r].by = request[r].by
        /\ request'[r].email = request[r].email /\ request'[r].password = request[r].password
        /\ request'[r].came = request[r].came /\ request'[r].session = session
        /\ request'[r].step = step /\ request'[r] # Unused
        /\ \A q \in Requests \ {r} : request'[q] = request[q]
    BY Answered DEF Inv
  <1>2. step # "commit" /\ step # "unused"
    BY DEF Answers
  <1>3. request[r].by \in Browsers
    BY MadeRequest DEF Inv
  <1>4. Types'
    <2>1. {q \in Requests : request'[q].step = "commit"} = {q \in Requests : request[q].step = "commit"} \ {r}
      BY <1>1, <1>2
    <2>2. {q \in Requests : request'[q].step = "commit"} = {writing'} \ {None}
      <3>1. {q \in Requests : request[q].step = "commit"} = {writing} \ {None}
        BY DEF Inv, Types, TypeOK
      <3>2. CASE request[r].step = "commit"
        <4>1. r \in {writing} \ {None}
          BY <3>1, <3>2
        <4> QED
          BY <2>1, <3>1, <3>2, <4>1
      <3>3. CASE request[r].step # "commit"
        <4>1. r \notin {q \in Requests : request[q].step = "commit"} /\ writing' = writing
          BY <3>3
        <4> QED
          BY <2>1, <3>1, <4>1
      <3> QED
        BY <3>2, <3>3
    <2>3. TypeOK'
      BY <1>1, <1>3, <2>2 DEF Inv, Types, TypeOK
    <2> QED
      BY <1>1, <2>3 DEF Inv, Types
  <1>5. LockInv'
    BY <1>1, <1>2 DEF Inv, LockInv, IdsWith
  <1>6. Lasting
    BY <1>1 DEF Lasting
  <1>7. AnswersInv'
    <2> SUFFICES ASSUME NEW q \in Requests, request'[q].step \notin {"unused", "over"},
                        NEW u \in {request'[q].session, request'[q].came}, u # None,
                        NEW b, b = request'[q].by
                 PROVE  Earned(u, b)'
      BY DEF AnswersInv
    <2>1. b = request[q].by
      BY <1>1
    <2>2. Earned(u, b)
      BY <1>1, <2>1 DEF Inv, AnswersInv
    <2> QED
      BY <1>6, <2>2, EarnedLasts
  <1>8. SessionIsEarned'
    <2> SUFFICES ASSUME NEW b \in Browsers, NEW u, u = SessionOf(cookie[b])', u # None
                 PROVE  Earned(u, b)'
      BY DEF SessionIsEarned, Earned, Forms
    <2>1. u = SessionOf(cookie[b])
      BY DEF SessionOf
    <2>2. Earned(u, b)
      BY <2>1, SessionsAreEarned DEF Inv
    <2> QED
      BY <1>6, <2>2, EarnedLasts
  <1>9. OneAccountPerEmail'
    BY DEF Inv, OneAccountPerEmail
  <1> QED
    BY <1>4, <1>5, <1>7, <1>8, <1>9 DEF Inv

LEMMA LoginKeepsInv ==
    ASSUME Inv, NEW r \in Requests, Login(r)
    PROVE  Inv'
  <1>1. PICK id \in IdsWith(request[r].email) : Verified(r, id) /\ Answer(r, id, "welcome")
    BY DEF Login
  <1>2. id \in DOMAIN users /\ users[id].email = request[r].email /\ users[id].password = request[r].password
    BY <1>1 DEF IdsWith, Verified
  <1>3. users[id] = [email |-> request[r].email, password |-> request[r].password] /\ id \in Nat
    BY <1>2, Rows DEF Inv, Types
  <1>4. request[r].kind \in Forms /\ request[r].step = "begin"
    BY DEF Login, Go, Forms
  <1>5. Earned(id, request[r].by)
    BY <1>2, <1>3, <1>4 DEF Earned
  <1>6. UNCHANGED <<users, key, fixedKey, cookie, restarts>> /\ writing' = writing
    BY DEF Login
  <1> QED
    BY <1>1, <1>3, <1>4, <1>5, <1>6, AnswerKeepsInv DEF Answers

LEMMA ReadersKeepInv ==
    ASSUME Inv, NEW r \in Requests,
           \/ SignupRefused(r) \/ SignupSelect(r) \/ DatabaseRaises(r)
           \/ LoginRefused(r) \/ Logout(r) \/ Page(r)
    PROVE  Inv'
  <1>1. /\ UNCHANGED <<users, key, fixedKey, cookie, restarts>>
        /\ writing' = IF request[r].step = "commit" THEN None ELSE writing
        /\ request[r].step \in {"begin", "insert", "commit"}
    BY DEF SignupRefused, SignupSelect, DatabaseRaises, LoginRefused, Logout, Page, Go
  <1>2. \A u \in {request[r].session, request[r].came} : u # None => Earned(u, request[r].by)
    BY <1>1 DEF Inv, AnswersInv
  <1>3. request[r].session \in Nat \cup {None} /\ request[r].came \in Nat \cup {None}
    BY <1>1, MadeRequest DEF Inv
  <1>4. \E session \in {request[r].session, request[r].came, None} :
           \E step \in {"insert", "error"} \cup Answers : Answer(r, session, step)
    BY DEF SignupRefused, SignupSelect, DatabaseRaises, LoginRefused, Logout, Page, Answers
  <1> QED
    BY <1>1, <1>2, <1>3, <1>4, AnswerKeepsInv

\* Nobody else is about to commit while a request holds the write lock.
LEMMA OneWriter ==
    ASSUME Inv, NEW r \in Requests, request[r].step = "commit", NEW q \in Requests, request[q].step = "commit"
    PROVE  q = r /\ r = writing
  <1>1. {p \in Requests : request[p].step = "commit"} = {writing} \ {None}
    BY DEF Inv, Types, TypeOK
  <1>2. r \in {writing} \ {None} /\ q \in {writing} \ {None}
    BY <1>1
  <1> QED
    BY <1>2

LEMMA InsertKeepsInv ==
    ASSUME Inv, NEW r \in Requests, SignupInsert(r)
    PROVE  Inv'
  <1>1. /\ request[r].step = "insert" /\ writing = None /\ IdsWith(request[r].email) = {} /\ writing' = r
        /\ Answer(r, request[r].session, "commit")
        /\ UNCHANGED <<users, key, fixedKey, cookie, restarts>>
    BY DEF SignupInsert, Go, Unique
  <1>2. request[r].session \in Nat \cup {None} /\ request[r].by \in Browsers
    BY <1>1, MadeRequest DEF Inv
  <1>3. /\ request' \in [Requests -> Asked \cup {Unused}]
        /\ request'[r].kind = request[r].kind /\ request'[r].by = request[r].by
        /\ request'[r].email = request[r].email /\ request'[r].password = request[r].password
        /\ request'[r].came = request[r].came /\ request'[r].session = request[r].session
        /\ request'[r].step = "commit" /\ request'[r] # Unused
        /\ \A q \in Requests \ {r} : request'[q] = request[q]
    BY <1>1, <1>2, Answered DEF Inv
  <1>4. \A q \in Requests : request[q].step # "commit"
    BY <1>1 DEF Inv, Types, TypeOK
  <1>5. Types'
    <2>1. {q \in Requests : request'[q].step = "commit"} = {writing'} \ {None}
      BY <1>1, <1>3, <1>4, NoneIsApart
    <2>2. TypeOK'
      BY <1>1, <1>2, <1>3, <2>1 DEF Inv, Types, TypeOK
    <2> QED
      BY <1>1, <1>3, <2>2 DEF Inv, Types
  <1>6. LockInv'
    BY <1>1, <1>3, <1>4 DEF LockInv, IdsWith
  <1>7. Lasting
    BY <1>1, <1>3 DEF Lasting
  <1>8. AnswersInv'
    <2> SUFFICES ASSUME NEW q \in Requests, request'[q].step \notin {"unused", "over"},
                        NEW u \in {request'[q].session, request'[q].came}, u # None,
                        NEW b, b = request'[q].by
                 PROVE  Earned(u, b)'
      BY DEF AnswersInv
    <2>1. /\ request[q].step \notin {"unused", "over"} /\ b = request[q].by
          /\ u \in {request[q].session, request[q].came}
      BY <1>1, <1>3
    <2>2. Earned(u, b)
      BY <2>1 DEF Inv, AnswersInv
    <2> QED
      BY <1>7, <2>2, EarnedLasts
  <1>9. SessionIsEarned'
    <2> SUFFICES ASSUME NEW b \in Browsers, NEW u, u = SessionOf(cookie[b])', u # None
                 PROVE  Earned(u, b)'
      BY DEF SessionIsEarned, Earned, Forms
    <2>1. u = SessionOf(cookie[b])
      BY <1>1 DEF SessionOf
    <2>2. Earned(u, b)
      BY <2>1, SessionsAreEarned DEF Inv
    <2> QED
      BY <1>7, <2>2, EarnedLasts
  <1>10. OneAccountPerEmail'
    BY <1>1 DEF Inv, OneAccountPerEmail
  <1> QED
    BY <1>5, <1>6, <1>8, <1>9, <1>10 DEF Inv

\* The commit: the row the lock has been held for.
LEMMA CommitKeepsInv ==
    ASSUME Inv, NEW r \in Requests, SignupCommit(r)
    PROVE  Inv'
  <1>1. PICK n : n = Len(users) + 1
    OBVIOUS
  <1>2. PICK row : row = [email |-> request[r].email, password |-> request[r].password]
    OBVIOUS
  <1>3. /\ request[r].step = "commit" /\ request[r].kind \in Forms /\ users' = Append(users, row)
        /\ writing' = None /\ Answer(r, n, "welcome") /\ UNCHANGED <<key, fixedKey, cookie, restarts>>
    BY <1>1, <1>2 DEF SignupCommit, Go, Forms
  <1>4. row \in User /\ request[r].email \in Emails /\ row.email = request[r].email
    BY <1>2, <1>3 DEF Inv, Types, User
  <1>5. users \in Seq(User) /\ Len(users) \in Nat /\ DOMAIN users = 1 .. Len(users)
    BY Rows DEF Inv, Types
  <1>6. /\ users' \in Seq(User) /\ Len(users') = n /\ users'[n] = row
        /\ \A id \in 1 .. Len(users) : users'[id] = users[id]
    BY ONLY <1>1, <1>3, <1>4, <1>5, AppendProperties
  <1>7. DOMAIN users' = DOMAIN users \cup {n} /\ n \in Nat /\ n \notin DOMAIN users
    <2>1. DOMAIN users' = 1 .. n
      BY <1>6, LenProperties
    <2> QED
      BY <1>1, <1>5, <2>1
  <1>8. \A id \in DOMAIN users : id \in DOMAIN users' /\ users'[id] = users[id]
    BY <1>5, <1>6, <1>7
  <1>9. request[r].by \in Browsers
    BY <1>3, MadeRequest DEF Inv
  <1>10. /\ request' \in [Requests -> Asked \cup {Unused}]
         /\ request'[r].kind = request[r].kind /\ request'[r].by = request[r].by
         /\ request'[r].email = request[r].email /\ request'[r].password = request[r].password
         /\ request'[r].came = request[r].came /\ request'[r].session = n
         /\ request'[r].step = "welcome" /\ request'[r] # Unused
         /\ \A q \in Requests \ {r} : request'[q] = request[q]
    BY <1>3, <1>7, Answered DEF Inv, Answers
  <1>11. \A q \in Requests : request'[q].step # "commit"
    BY <1>3, <1>10, OneWriter
  <1>12. Types'
    <2>1. {q \in Requests : request'[q].step = "commit"} = {writing'} \ {None}
      BY <1>3, <1>11
    <2>2. TypeOK'
      BY <1>3, <1>6, <1>9, <1>10, <2>1 DEF Inv, Types, TypeOK, User, Answers
    <2> QED
      BY <1>3, <1>10, <2>2 DEF Inv, Types
  <1>13. LockInv'
    BY <1>11 DEF LockInv
  <1>14. Lasting
    BY <1>8, <1>10 DEF Lasting
  <1>15. AnswersInv'
    <2> SUFFICES ASSUME NEW q \in Requests, request'[q].step \notin {"unused", "over"},
                        NEW u \in {request'[q].session, request'[q].came}, u # None,
                        NEW b, b = request'[q].by
                 PROVE  Earned(u, b)'
      BY DEF AnswersInv
    <2>1. CASE u = n /\ q = r
      <3>1. /\ request'[r].by = b /\ request'[r].kind \in Forms /\ u \in DOMAIN users'
            /\ users'[u] = [email |-> request'[r].email, password |-> request'[r].password]
        BY <1>2, <1>3, <1>6, <1>7, <1>10, <2>1
      <3> QED
        BY <3>1 DEF Earned
    <2>2. CASE ~(u = n /\ q = r)
      <3>1. /\ request[q].step \notin {"unused", "over"} /\ b = request[q].by
            /\ u \in {request[q].session, request[q].came}
        BY <1>3, <1>10, <2>2
      <3>2. Earned(u, b)
        BY <3>1 DEF Inv, AnswersInv
      <3> QED
        BY <1>14, <3>2, EarnedLasts
    <2> QED
      BY <2>1, <2>2
  <1>16. SessionIsEarned'
    <2> SUFFICES ASSUME NEW b \in Browsers, NEW u, u = SessionOf(cookie[b])', u # None
                 PROVE  Earned(u, b)'
      BY DEF SessionIsEarned, Earned, Forms
    <2>1. u = SessionOf(cookie[b])
      BY <1>3 DEF SessionOf
    <2>2. Earned(u, b)
      BY <2>1, SessionsAreEarned DEF Inv
    <2> QED
      BY <1>14, <2>2, EarnedLasts
  <1>17. OneAccountPerEmail'
    <2>1. \A id \in DOMAIN users : users[id].email # row.email
      BY <1>3, <1>4 DEF Inv, LockInv, IdsWith
    <2> SUFFICES ASSUME NEW i \in DOMAIN users', NEW j \in DOMAIN users', users'[i].email = users'[j].email
                 PROVE  i = j
      BY DEF OneAccountPerEmail
    <2>2. CASE i = n \/ j = n
      BY <1>6, <1>7, <1>8, <2>1, <2>2
    <2>3. CASE i # n /\ j # n
      BY <1>7, <1>8, <2>3 DEF Inv, OneAccountPerEmail
    <2> QED
      BY <2>2, <2>3
  <1> QED
    BY <1>12, <1>13, <1>15, <1>16, <1>17 DEF Inv

\* The answer reaches the browser.
LEMMA ReceiveKeepsInv ==
    ASSUME Inv, NEW r \in Requests, Receive(r)
    PROVE  Inv'
  <1>1. PICK b : b = request[r].by
    OBVIOUS
  <1>2. /\ request[r].step \in Answers \cup {"error"} /\ request[r].step \notin {"unused", "over", "commit"}
        /\ request' = [request EXCEPT ![r].step = "over"]
        /\ UNCHANGED <<users, writing, key, fixedKey, restarts>>
    BY DEF Receive, Answers
  <1>3. /\ request[r] \in Asked /\ b \in Browsers /\ request[r].session \in Nat \cup {None}
        /\ request[r] # Unused
    BY <1>1, <1>2, MadeRequest DEF Inv
  <1>4. /\ request' \in [Requests -> Asked \cup {Unused}] /\ request'[r].step = "over" /\ request'[r] # Unused
        /\ request'[r].kind = request[r].kind /\ request'[r].by = request[r].by
        /\ request'[r].email = request[r].email /\ request'[r].password = request[r].password
        /\ \A q \in Requests \ {r} : request'[q] = request[q]
    <2>1. PICK new : new = [request[r] EXCEPT !.step = "over"]
      OBVIOUS
    <2>2. /\ new \in Asked /\ new.step = "over" /\ new.kind = request[r].kind /\ new.by = request[r].by
          /\ new.email = request[r].email /\ new.password = request[r].password
      BY <1>3, <2>1 DEF Asked
    <2>3. request \in [Requests -> Asked \cup {Unused}] /\ request' = [request EXCEPT ![r] = new]
      BY <1>2, <2>1 DEF Inv, Types
    <2>4. new # Unused
      BY <2>2 DEF Unused
    <2> QED
      BY <2>2, <2>3, <2>4
  <1>5. Lasting
    BY <1>2, <1>4 DEF Lasting
  <1>6. key \in Nat /\ cookie \in [Browsers -> [user : Nat, key : Nat] \cup {None}]
    BY RestartsAreBounded DEF Inv, Types, TypeOK
  <1>7. /\ cookie' \in [Browsers -> [user : Nat, key : Nat] \cup {None}]
        /\ \A x \in Browsers : \/ cookie'[x] = cookie[x] \/ cookie'[x] = None
                               \/ /\ x = b /\ request[r].session # None
                                  /\ cookie'[x] = [user |-> request[r].session, key |-> key]
    <2>1. \/ cookie' = cookie \/ cookie' = [cookie EXCEPT ![b] = None]
          \/ /\ request[r].session # None
             /\ cookie' = [cookie EXCEPT ![b] = [user |-> request[r].session, key |-> key]]
      BY <1>1 DEF Receive
    <2> QED
      BY <1>3, <1>6, <2>1
  <1>8. Types'
    <2>1. {q \in Requests : request'[q].step = "commit"} = {q \in Requests : request[q].step = "commit"}
      BY <1>2, <1>4
    <2>2. \A x \in Browsers : cookie'[x] = None \/ cookie'[x].key <= key'
      BY <1>2, <1>6, <1>7 DEF Inv, Types, TypeOK
    <2>3. \A q \in Requests :
             /\ request'[q].step \in {"unused", "begin", "insert", "commit", "error", "over"} \cup Answers
             /\ request'[q] # Unused => request'[q].by \in Browsers
      BY <1>1, <1>3, <1>4 DEF Inv, Types, TypeOK
    <2>4. TypeOK'
      BY <1>2, <2>1, <2>2, <2>3 DEF Inv, Types, TypeOK
    <2>5. \A q \in Requests : request'[q].kind \in Forms =>
              request'[q].email \in Emails /\ request'[q].password \in Passwords
      BY <1>4 DEF Inv, Types
    <2> QED
      BY <1>4, <1>7, <2>4, <2>5 DEF Types
  <1>9. LockInv'
    BY <1>2, <1>4 DEF Inv, LockInv, IdsWith
  <1>10. AnswersInv'
    <2> SUFFICES ASSUME NEW q \in Requests, request'[q].step \notin {"unused", "over"},
                        NEW u \in {request'[q].session, request'[q].came}, u # None,
                        NEW c, c = request'[q].by
                 PROVE  Earned(u, c)'
      BY DEF AnswersInv
    <2>1. request'[q] = request[q]
      BY <1>4
    <2>2. Earned(u, c)
      BY <2>1 DEF Inv, AnswersInv
    <2> QED
      BY <1>5, <2>2, EarnedLasts
  <1>11. SessionIsEarned'
    <2> SUFFICES ASSUME NEW x \in Browsers, NEW u, u = SessionOf(cookie[x])', u # None
                 PROVE  Earned(u, x)'
      BY DEF SessionIsEarned, Earned, Forms
    <2>1. Earned(u, x)
      <3>1. CASE cookie'[x] = cookie[x]
        <4>1. u = SessionOf(cookie[x])
          BY <1>2, <3>1 DEF SessionOf
        <4> QED
          BY <4>1, SessionsAreEarned DEF Inv
      <3>2. CASE cookie'[x] = None
        BY <3>2 DEF SessionOf
      <3>3. CASE x = b /\ request[r].session # None /\ cookie'[x] = [user |-> request[r].session, key |-> key]
        <4>1. u = request[r].session
          BY <1>2, <3>3 DEF SessionOf
        <4> QED
          BY <1>1, <1>2, <3>3, <4>1 DEF Inv, AnswersInv
      <3> QED
        BY <1>7, <3>1, <3>2, <3>3
    <2> QED
      BY <1>5, <2>1, EarnedLasts
  <1>12. OneAccountPerEmail'
    BY <1>2 DEF Inv, OneAccountPerEmail
  <1> QED
    BY <1>8, <1>9, <1>10, <1>11, <1>12 DEF Inv

\* A browser sends a request with the session it has.
LEMMA SendKeepsInv ==
    ASSUME Inv, NEW r \in Requests, NEW b \in Browsers, NEW kind \in Forms \cup {"logout", "page"},
           NEW e \in Emails \cup {None}, NEW p \in Passwords \cup {None},
           kind \in Forms => e \in Emails /\ p \in Passwords, Send(r, b, kind, e, p)
    PROVE  Inv'
  <1>1. PICK s : s = SessionOf(cookie[b])
    OBVIOUS
  <1>2. PICK new : new = [kind |-> kind, by |-> b, email |-> e, password |-> p,
                          came |-> s, session |-> s, step |-> "begin"]
    OBVIOUS
  <1>3. /\ request[r] = Unused /\ request' = [request EXCEPT ![r] = new]
        /\ UNCHANGED <<users, writing, key, fixedKey, cookie, restarts>>
    BY <1>1, <1>2 DEF Send
  <1>4. s \in Nat \cup {None}
    <2>1. cookie[b] \in [user : Nat, key : Nat] \cup {None}
      BY DEF Inv, Types
    <2> QED
      BY <1>1, <2>1 DEF SessionOf
  <1>5. /\ new \in Asked /\ new # Unused /\ new.step = "begin" /\ new.by = b /\ new.kind = kind
        /\ new.email = e /\ new.password = p /\ new.came = s /\ new.session = s
    BY <1>2, <1>4 DEF Asked, Unused
  <1>6. /\ request' \in [Requests -> Asked \cup {Unused}] /\ request'[r] = new
        /\ \A q \in Requests \ {r} : request'[q] = request[q]
    BY <1>3, <1>5 DEF Inv, Types
  <1>7. request[r].step = "unused" /\ request[r].kind = "none"
    BY <1>3 DEF Unused
  <1>8. Lasting
    BY <1>3, <1>6, <1>7 DEF Lasting, Forms
  <1>9. Types'
    <2>1. {q \in Requests : request'[q].step = "commit"} = {q \in Requests : request[q].step = "commit"}
      BY <1>5, <1>6, <1>7
    <2>2. \A q \in Requests :
             /\ request'[q].step \in {"unused", "begin", "insert", "commit", "error", "over"} \cup Answers
             /\ request'[q] # Unused => request'[q].by \in Browsers
      BY <1>5, <1>6 DEF Inv, Types, TypeOK
    <2>3. TypeOK'
      BY <1>3, <2>1, <2>2 DEF Inv, Types, TypeOK
    <2>4. \A q \in Requests : request'[q].kind \in Forms =>
              request'[q].email \in Emails /\ request'[q].password \in Passwords
      BY <1>5, <1>6 DEF Inv, Types
    <2> QED
      BY <1>3, <1>6, <2>3, <2>4 DEF Inv, Types
  <1>10. LockInv'
    BY <1>3, <1>5, <1>6 DEF Inv, LockInv, IdsWith
  <1>11. AnswersInv'
    <2> SUFFICES ASSUME NEW q \in Requests, request'[q].step \notin {"unused", "over"},
                        NEW u \in {request'[q].session, request'[q].came}, u # None,
                        NEW c, c = request'[q].by
                 PROVE  Earned(u, c)'
      BY DEF AnswersInv
    <2>1. Earned(u, c)
      <3>1. CASE q = r
        <4>1. u = SessionOf(cookie[b]) /\ c = b
          BY <1>1, <1>5, <1>6, <3>1
        <4> QED
          BY <4>1, SessionsAreEarned DEF Inv
      <3>2. CASE q # r
        BY <1>6, <3>2 DEF Inv, AnswersInv
      <3> QED
        BY <3>1, <3>2
    <2> QED
      BY <1>8, <2>1, EarnedLasts
  <1>12. SessionIsEarned'
    <2> SUFFICES ASSUME NEW x \in Browsers, NEW u, u = SessionOf(cookie[x])', u # None
                 PROVE  Earned(u, x)'
      BY DEF SessionIsEarned, Earned, Forms
    <2>1. u = SessionOf(cookie[x])
      BY <1>3 DEF SessionOf
    <2>2. Earned(u, x)
      BY <2>1, SessionsAreEarned DEF Inv
    <2> QED
      BY <1>8, <2>2, EarnedLasts
  <1>13. OneAccountPerEmail'
    BY <1>3 DEF Inv, OneAccountPerEmail
  <1> QED
    BY <1>9, <1>10, <1>11, <1>12, <1>13 DEF Inv

\* A new key makes every cookie worthless, the one it has leaves them.
LEMMA RestartKeepsInv ==
    ASSUME Inv, Restart
    PROVE  Inv'
  <1>1. /\ restarts \in Nat /\ restarts' = restarts + 1 /\ restarts' \in 0 .. MaxRestarts
        /\ key \in 0 .. restarts /\ key' \in {key, key + 1} /\ writing' = None
        /\ UNCHANGED <<users, fixedKey, cookie>>
    BY RestartsAreBounded DEF Restart, NewKey, Inv, Types, TypeOK
  <1>2. ASSUME NEW r \in Requests
        PROVE  /\ request'[r] \in Asked \cup {Unused}
               /\ request'[r].step \in {"unused", "over"}
               /\ request'[r].kind = request[r].kind /\ request'[r].by = request[r].by
               /\ request'[r].email = request[r].email /\ request'[r].password = request[r].password
               /\ request'[r] # Unused => request[r] # Unused
    <2>1. /\ request[r] \in Asked \cup {Unused}
          /\ request'[r] = IF request[r].step \in {"unused", "over"} THEN request[r]
                           ELSE [request[r] EXCEPT !.step = "over"]
      BY DEF Restart, Inv, Types
    <2>2. CASE request[r].step \in {"unused", "over"}
      BY <2>1, <2>2
    <2>3. CASE request[r].step \notin {"unused", "over"}
      <3>1. request[r] \in Asked
        BY <2>1, <2>3 DEF Unused
      <3> QED
        BY <2>1, <2>3, <3>1 DEF Asked, Unused
    <2> QED
      BY <2>2, <2>3
  <1>3. request' \in [Requests -> Asked \cup {Unused}]
    BY <1>2 DEF Restart
  <1>4. Types'
    <2>1. {q \in Requests : request'[q].step = "commit"} = {writing'} \ {None}
      BY <1>1, <1>2
    <2>2. \A q \in Requests :
             /\ request'[q].step \in {"unused", "begin", "insert", "commit", "error", "over"} \cup Answers
             /\ request'[q] # Unused => request'[q].by \in Browsers
      BY <1>2 DEF Inv, Types, TypeOK
    <2>3. \A b \in Browsers : cookie'[b] = None \/ cookie'[b].key <= key'
      <3> TAKE b \in Browsers
      <3>1. cookie[b] = None \/ (cookie[b].key \in Nat /\ cookie[b].key <= key)
        BY DEF Inv, Types, TypeOK
      <3>2. key \in Nat
        BY <1>1
      <3> QED
        BY <1>1, <3>1, <3>2
    <2>4. key' \in 0 .. restarts'
      BY <1>1
    <2>5. TypeOK'
      BY <1>1, <2>1, <2>2, <2>3, <2>4 DEF Inv, Types, TypeOK
    <2>6. \A q \in Requests : request'[q].kind \in Forms =>
              request'[q].email \in Emails /\ request'[q].password \in Passwords
      BY <1>2 DEF Inv, Types
    <2> QED
      BY <1>1, <1>3, <2>5, <2>6 DEF Inv, Types
  <1>5. LockInv' /\ AnswersInv'
    BY <1>2 DEF LockInv, AnswersInv
  <1>6. Lasting
    BY <1>1, <1>2 DEF Lasting
  <1>7. SessionIsEarned'
    <2> SUFFICES ASSUME NEW x \in Browsers, NEW u, u = SessionOf(cookie[x])', u # None
                 PROVE  Earned(u, x)'
      BY DEF SessionIsEarned, Earned, Forms
    <2>1. cookie[x] # None /\ cookie[x].key = key' /\ u = cookie[x].user
      BY <1>1 DEF SessionOf
    <2>2. cookie[x].key <= key /\ key \in Nat
      BY <1>1, <2>1 DEF Inv, Types, TypeOK
    <2>3. cookie[x].key = key
      BY <1>1, <2>1, <2>2
    <2>4. u = SessionOf(cookie[x])
      BY <2>1, <2>3 DEF SessionOf
    <2>5. Earned(u, x)
      BY <2>4, SessionsAreEarned DEF Inv
    <2> QED
      BY <1>6, <2>5, EarnedLasts
  <1>8. OneAccountPerEmail'
    BY <1>1 DEF Inv, OneAccountPerEmail
  <1> QED
    BY <1>4, <1>5, <1>7, <1>8 DEF Inv

-----------------------------------------------------------------------------
LEMMA InitEstablishesInv == Init => Inv
  <1> SUFFICES ASSUME Init PROVE Inv
    OBVIOUS
  <1>1. \A r \in Requests : request[r] = Unused /\ request[r].step = "unused" /\ request[r].kind = "none"
    BY DEF Init, Unused
  <1>2. Types
    <2>1. {r \in Requests : request[r].step = "commit"} = {writing} \ {None}
      BY <1>1 DEF Init
    <2>2. TypeOK
      BY <1>1, <2>1, RestartsAreBounded DEF Init, TypeOK
    <2> QED
      BY <1>1, <2>2 DEF Init, Types, Forms
  <1>3. LockInv /\ AnswersInv
    BY <1>1 DEF LockInv, AnswersInv
  <1>4. OneAccountPerEmail /\ SessionIsEarned
    BY DEF Init, OneAccountPerEmail, SessionIsEarned, SessionOf
  <1> QED
    BY <1>2, <1>3, <1>4 DEF Inv

LEMMA NextKeepsInv == Inv /\ [Next]_vars => Inv'
  <1> SUFFICES ASSUME Inv, [Next]_vars PROVE Inv'
    OBVIOUS
  <1>1. ASSUME NEW r \in Requests, NEW b \in Browsers, Ask(r, b) PROVE Inv'
    <2>1. CASE \E kind \in {"signup", "login"}, e \in Emails, p \in Passwords : Send(r, b, kind, e, p)
      BY <2>1, SendKeepsInv DEF Forms
    <2>2. CASE \E kind \in {"logout", "page"} : Send(r, b, kind, None, None)
      BY <2>2, SendKeepsInv DEF Forms
    <2> QED
      BY <1>1, <2>1, <2>2 DEF Ask
  <1>2. ASSUME NEW r \in Requests, Handle(r) PROVE Inv'
    BY <1>2, ReadersKeepInv, LoginKeepsInv, InsertKeepsInv, CommitKeepsInv, ReceiveKeepsInv DEF Handle
  <1>3. CASE UNCHANGED vars
    <2>1. Types'
      BY <1>3 DEF vars, Inv, Types, TypeOK
    <2>2. LockInv' /\ OneAccountPerEmail'
      BY <1>3 DEF vars, Inv, LockInv, IdsWith, OneAccountPerEmail
    <2>3. AnswersInv'
      BY <1>3 DEF vars, Inv, AnswersInv, Earned
    <2>4. SessionIsEarned'
      BY <1>3 DEF vars, Inv, SessionIsEarned, SessionOf
    <2> QED
      BY <2>1, <2>2, <2>3, <2>4 DEF Inv
  <1> QED
    BY <1>1, <1>2, <1>3, RestartKeepsInv DEF Next

LEMMA InvHolds == Spec => []Inv
  BY InitEstablishesInv, NextKeepsInv, PTL DEF Spec

\* The variables have their types, and the write lock is held by the signup
\* that is about to commit, and by no other.
THEOREM Typed == Spec => []TypeOK
  <1>1. Inv => TypeOK
    BY DEF Inv, Types
  <1> QED
    BY <1>1, InvHolds, PTL

\* However many signups for an email run at once, it has one account.
THEOREM Unambiguous == Spec => []OneAccountPerEmail
  <1>1. Inv => OneAccountPerEmail
    BY DEF Inv
  <1> QED
    BY <1>1, InvHolds, PTL

\* A browser is logged in only as a committed account whose email and password
\* were sent from it, through restarts and late answers.
THEOREM Authentic == Spec => []SessionIsEarned
  <1>1. Inv => SessionIsEarned
    BY DEF Inv
  <1> QED
    BY <1>1, InvHolds, PTL
=============================================================================
