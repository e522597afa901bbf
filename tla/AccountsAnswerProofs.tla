------------------------ MODULE AccountsAnswerProofs ------------------------
(***************************************************************************)
(* What the handlers of Accounts tell a client is true of the tables, for  *)
(* every number of workers, whatever the others do meanwhile.              *)
(*                                                                         *)
(* The invariant follows the one worker that owns the buffer, own.by, from *)
(* place to place.                                                         *)
(***************************************************************************)
EXTENDS AccountsProofs

(* There is no profile without an account.                                 *)
NoOrphans == \A m \in Mails : info[m] # 0 => account[m] # None

(* Only registrations insert, and only they and logins look at a row.      *)
Inserts(w) == pc[w] \in {"mail", "passwd", "insert", "info", "insert_info"}
OnlyRegistrations == \A w \in Workers :
  /\ Inserts(w) => job[w].kind = "register"
  /\ pc[w] \in {"profile", "get_info", "check", "select"} =>
       job[w].kind \in {"login", "register"}

(* The owner has been given the buffer by Receive.                         *)
OwnerActs(w) == buf.mail \in Mails /\ pc[w] \notin {"idle", "dead"}

LoginAt(w) == job[w].kind = "login" =>
  /\ pc[w] \in {"profile", "get_info", "check", "select", "compare", "reply"}
  /\ pc[w] \in {"get_info", "select"} => job[w].stmt.mail = buf.mail
  /\ pc[w] \in {"check", "select", "compare"} => account[buf.mail] # None
  /\ pc[w] = "compare" => job[w].row = account[buf.mail]
  /\ own.known => account[buf.mail] = buf.passwd /\ info[buf.mail] # 0
  /\ pc[w] = "reply" => /\ job[w].result = "right" => account[buf.mail] = buf.passwd
                        /\ own.known => job[w].result = "right"

RegisterAt(w) == job[w].kind = "register" =>
  /\ own.alone => \A v \in Workers \ {w} : ~Registering(v)
  /\ pc[w] \in {"check", "select", "mail", "passwd", "insert", "info", "insert_info", "reply"}
  /\ pc[w] \in {"select", "passwd", "insert", "insert_info"} => job[w].stmt.mail = buf.mail
  /\ pc[w] = "insert" => job[w].stmt.passwd = buf.passwd
  /\ own.alone /\ pc[w] \in {"mail", "passwd", "insert"} => account[buf.mail] = None
  /\ pc[w] \in {"info", "insert_info"} =>
       /\ account[buf.mail] # None
       /\ own.alone => account[buf.mail] = buf.passwd /\ info[buf.mail] = 0
  /\ pc[w] = "reply" =>
       /\ account[buf.mail] # None
       /\ own.alone /\ job[w].result = "success" =>
            account[buf.mail] = buf.passwd /\ info[buf.mail] = 1

OwnedAt(w) == OwnerActs(w) /\ LoginAt(w) /\ RegisterAt(w)

AnswerInv ==
  /\ TypeOK /\ NoOrphans /\ OnlyRegistrations
  /\ \A w \in Workers : own.by = w => OwnedAt(w)

LEMMA InitAnswer == Init => AnswerInv
<1> SUFFICES ASSUME Init PROVE AnswerInv
  OBVIOUS
<1>1. \A w \in Workers : own.by # w
  BY AccountsAssumption DEF Init, NoOwner
<1>2. NoOrphans /\ OnlyRegistrations
  BY DEF Init, NoOrphans, OnlyRegistrations, Inserts, Book!Init
<1> QED BY <1>1, <1>2, InitType DEF AnswerInv

-----------------------------------------------------------------------------
(* The tables.                                                             *)

(* An account keeps its password and its profiles.                         *)
LEMMA Kept ==
  ASSUME TypeOK, [Next]_vars, NEW m \in Mails
  PROVE  /\ account[m] # None => account'[m] = account[m]
         /\ info[m] # 0 => info'[m] # 0
<1>1. CASE UNCHANGED <<account, info>>
  BY <1>1
<1>2. ASSUME NEW n \in Mails, NEW p \in Passwds \cup {Blank}, Book!Open(n, p)
      PROVE  account[m] # None => account'[m] = account[m] /\ info' = info
  BY <1>2 DEF Book!Open, TypeOK
<1>3. ASSUME NEW n \in Mails, Book!AddProfile(n)
      PROVE  account' = account /\ (info[m] # 0 => info'[m] # 0)
  BY <1>3 DEF Book!AddProfile, Book!More, Book!Many, TypeOK
<1>4. Book!Next \/ UNCHANGED <<account, info>>
  BY StepBook
<1>5. ASSUME NEW n \in Mails, NEW p \in Passwds \cup {Blank}, Book!Open(n, p)
      PROVE  info' = info
  BY <1>5 DEF Book!Open
<1> QED BY <1>1, <1>2, <1>3, <1>4, <1>5 DEF Book!Next

LEMMA StepNoOrphans == TypeOK /\ NoOrphans /\ [Next]_vars => NoOrphans'
<1> SUFFICES ASSUME TypeOK, NoOrphans, [Next]_vars, NEW m \in Mails, info'[m] # 0
             PROVE  account'[m] # None
  BY DEF NoOrphans
<1>1. CASE UNCHANGED <<account, info>>
  BY <1>1 DEF NoOrphans
<1>2. ASSUME NEW n \in Mails, NEW p \in Passwds \cup {Blank}, Book!Open(n, p)
      PROVE  account'[m] # None
  BY <1>2, AccountsAssumption DEF Book!Open, TypeOK, NoOrphans
<1>3. ASSUME NEW n \in Mails, Book!AddProfile(n)
      PROVE  account'[m] # None
  BY <1>3 DEF Book!AddProfile, TypeOK, NoOrphans
<1>4. Book!Next \/ UNCHANGED <<account, info>>
  BY StepBook
<1> QED BY <1>1, <1>2, <1>3, <1>4 DEF Book!Next
-----------------------------------------------------------------------------
(* What a step of one worker leaves alone.                                 *)

LEMMA Elsewhere ==
  ASSUME TypeOK, NEW u \in Workers, WorkerStep(u)
  PROVE  /\ buf' = buf
         /\ \A v \in Workers \ {u} : pc'[v] = pc[v] /\ job'[v] = job[v]
         /\ own' = own \/ (own.by = u /\ own' = NoOwner)
<1>1. \E l, j : Goto(u, l, j)
  <2>1. CASE CheckUserInfo(u)
    BY <2>1 DEF CheckUserInfo
  <2>2. CASE ~CheckUserInfo(u)
    BY <2>2 DEF WorkerStep, ProfileMail, GetUserInfo, CheckMail, Compare, InsertMail,
       InsertPasswd, InsertUser, InfoMail, InsertInfo, SendMail, IncLoad, IncStore,
       ModLoad, ModStore, Reply
  <2> QED BY <2>1, <2>2
<1>2. own' = own \/ (own.by = u /\ own' = NoOwner)
  BY DEF WorkerStep, ProfileMail, GetUserInfo, CheckMail, CheckUserInfo, Compare,
     InsertMail, InsertPasswd, InsertUser, InfoMail, InsertInfo, SendMail, IncLoad,
     IncStore, ModLoad, ModStore, Reply, Disown
<1>3. PICK l, j : Goto(u, l, j)
  BY <1>1
<1>4. buf' = buf
  BY <1>3 DEF Goto
<1>5. \A v \in Workers \ {u} : pc'[v] = pc[v] /\ job'[v] = job[v]
  BY <1>3 DEF Goto, TypeOK
<1> QED BY <1>2, <1>4, <1>5

(* A worker keeps its kind until it is idle or dead.                       *)
LEMMA KeepsKind ==
  ASSUME TypeOK, NEW u \in Workers, WorkerStep(u)
  PROVE  pc'[u] \in {"idle", "dead"} \/ job'[u].kind = job[u].kind
<1>1. CASE Reply(u)
  BY <1>1 DEF Reply, Goto, TypeOK
<1>2. CASE CheckUserInfo(u)
  <2>1. job[u] \in Jobs
    BY DEF TypeOK
  <2>2. \E l, p, r : \/ Goto(u, l, job[u])
                    \/ Goto(u, l, [job[u] EXCEPT !.row = p])
                    \/ Goto(u, l, Result(u, r))
    BY <1>2 DEF CheckUserInfo
  <2>3. PICK l, p, r : \/ Goto(u, l, job[u])
                      \/ Goto(u, l, [job[u] EXCEPT !.row = p])
                      \/ Goto(u, l, Result(u, r))
    BY <2>2
  <2>4. [job[u] EXCEPT !.row = p].kind = job[u].kind /\ Result(u, r).kind = job[u].kind
    BY <2>1 DEF Jobs, Result, NoJob
  <2>5. \A l1, j1 : Goto(u, l1, j1) => job'[u] = j1
    BY DEF Goto, TypeOK
  <2> QED BY <2>3, <2>4, <2>5
<1>3. CASE GetUserInfo(u) \/ Compare(u) \/ ModStore(u) \/ InsertUser(u) \/ InsertInfo(u)
  BY <1>3 DEF GetUserInfo, Compare, ModStore, InsertUser, InsertInfo, Goto, TypeOK, Result,
     NoJob, Jobs
<1>4. CASE \/ ProfileMail(u) \/ CheckMail(u) \/ InsertMail(u) \/ InsertPasswd(u)
           \/ InfoMail(u) \/ SendMail(u) \/ IncLoad(u) \/ IncStore(u) \/ ModLoad(u)
  BY <1>4 DEF ProfileMail, CheckMail, InsertMail, InsertPasswd, InfoMail, SendMail,
     IncLoad, IncStore, ModLoad, TakeMail, TakePasswd, Goto, TypeOK, Jobs
<1> QED BY <1>1, <1>2, <1>3, <1>4 DEF WorkerStep

LEMMA NoNewRegistration ==
  ASSUME TypeOK, NEW u \in Workers, WorkerStep(u), NEW v \in Workers, Registering(v)'
  PROVE  Registering(v)
<1>1. CASE v = u
  <2>1. pc[u] \notin {"idle", "dead"}
    BY DEF WorkerStep, ProfileMail, GetUserInfo, CheckMail, CheckUserInfo, Compare,
       InsertMail, InsertPasswd, InsertUser, InfoMail, InsertInfo, SendMail, IncLoad,
       IncStore, ModLoad, ModStore, Reply, At
  <2> QED BY <1>1, <2>1, KeepsKind DEF Registering
<1>2. CASE v # u
  BY <1>2, Elsewhere DEF Registering
<1> QED BY <1>1, <1>2

(* Only registrations change the tables.                                   *)
LEMMA Untouched ==
  ASSUME TypeOK, OnlyRegistrations, NEW u \in Workers, WorkerStep(u), ~Registering(u)
  PROVE  account' = account /\ info' = info
<1>1. pc[u] \notin {"insert", "insert_info"}
  BY DEF OnlyRegistrations, Inserts, Registering
<1> QED BY <1>1 DEF WorkerStep, ProfileMail, GetUserInfo, CheckMail, CheckUserInfo,
     Compare, InsertMail, InsertPasswd, InsertUser, InfoMail, InsertInfo, SendMail, IncLoad,
     IncStore, ModLoad, ModStore, Reply, At, tables

LEMMA StepOnly == TypeOK /\ OnlyRegistrations /\ [Next]_vars => OnlyRegistrations'
<1> SUFFICES ASSUME TypeOK, OnlyRegistrations, [Next]_vars PROVE OnlyRegistrations'
  OBVIOUS
<1>1. CASE UNCHANGED vars \/ Clear \/ ReceiveOther \/ Restart \/ Crash
  BY <1>1 DEF vars, Clear, ReceiveOther, Restart, Crash, OnlyRegistrations, Inserts
<1>2. ASSUME NEW u \in Workers, NEW k \in Kinds, NEW m \in Mails,
             NEW p \in Passwds \cup {Blank}, Receive(u, k, m, p)
      PROVE  OnlyRegistrations'
  <2>1. \A v \in Workers : v # u => pc'[v] = pc[v] /\ job'[v] = job[v]
    BY <1>2 DEF Receive, TypeOK
  <2>2. pc'[u] = FirstStep(k) /\ job'[u].kind = k
    BY <1>2 DEF Receive, TypeOK, Jobs
  <2> QED BY <2>1, <2>2 DEF OnlyRegistrations, Inserts, FirstStep, Kinds
<1>3. ASSUME NEW u \in Workers, WorkerStep(u) PROVE OnlyRegistrations'
  <2>1. CASE CheckUserInfo(u)
    <3>1. /\ pc[u] = "select"
          /\ pc'[u] \in {"reply", "compare", "mail"}
          /\ pc'[u] = "mail" => job[u].kind # "login" /\ job'[u] = job[u]
      BY <2>1 DEF CheckUserInfo, At, Goto, TypeOK
    <3> QED BY <1>3, <3>1, Elsewhere DEF OnlyRegistrations, Inserts
  <2>2. CASE ~CheckUserInfo(u)
    <3>1. \/ pc'[u] \in {"idle", "dead", "reply", "inc_load", "inc_store", "mod_load", "mod_store"}
          \/ /\ pc[u] \in {"profile", "get_info", "check"}
             /\ pc'[u] \in {"get_info", "check", "select"}
          \/ Inserts(u) /\ pc'[u] \in {"mail", "passwd", "insert", "info", "insert_info"}
      BY <1>3, <2>2 DEF WorkerStep, ProfileMail, GetUserInfo, CheckMail, Compare, InsertMail,
         InsertPasswd, InsertUser, InfoMail, InsertInfo, SendMail, IncLoad, IncStore,
         ModLoad, ModStore, Reply, Inserts, Goto, At, TypeOK
    <3> QED BY <1>3, <3>1, Elsewhere, KeepsKind DEF OnlyRegistrations, Inserts
  <2> QED BY <2>1, <2>2
<1> QED BY <1>1, <1>2, <1>3 DEF Next
-----------------------------------------------------------------------------
(* The owner of the buffer, when somebody else steps.                      *)

LEMMA Undisturbed ==
  ASSUME TypeOK, [Next]_vars, NEW w \in Workers, OwnedAt(w),
         buf' = buf, own' = own, pc'[w] = pc[w], job'[w] = job[w],
         \A v \in Workers \ {w} : Registering(v)' => Registering(v),
         own.alone /\ Registering(w) => account' = account /\ info' = info
  PROVE  OwnedAt(w)'
<1> DEFINE m == buf.mail
<1>1. m \in Mails /\ m' = m
  BY DEF OwnedAt, OwnerActs
<1>2. /\ account[m] # None => account'[m] = account[m]
      /\ info[m] # 0 => info'[m] # 0
  BY <1>1, Kept
<1>3. buf.passwd # None
  BY AccountsAssumption DEF TypeOK, Fields
<1>4. OwnerActs(w)'
  BY DEF OwnedAt, OwnerActs
<1>5. LoginAt(w)'
  BY <1>1, <1>2, <1>3 DEF OwnedAt, LoginAt
<1>6. RegisterAt(w)'
  <2> SUFFICES ASSUME job[w].kind = "register" PROVE RegisterAt(w)'
    BY DEF RegisterAt
  <2>1. Registering(w)
    BY DEF OwnedAt, OwnerActs, Registering
  <2>2. own.alone => account' = account /\ info' = info
    BY <2>1
  <2>3. own'.alone => \A v \in Workers \ {w} : ~Registering(v)'
    BY DEF OwnedAt, RegisterAt
  <2> QED BY <1>1, <1>2, <2>2, <2>3 DEF OwnedAt, RegisterAt
<1> QED BY <1>4, <1>5, <1>6 DEF OwnedAt

-----------------------------------------------------------------------------
(* The owner's own steps.                                                  *)

LEMMA Answers ==
  ASSUME NEW w, NEW r
  PROVE  Result(w, r).result = r /\ Result(w, r).kind = job[w].kind
BY DEF Result, NoJob

LEMMA OwnerLogin ==
  ASSUME AnswerInv, NEW w \in Workers, own.by = w, WorkerStep(w), own' = own, buf' = buf,
         job'[w].kind = "login", job[w].kind = "login"
  PROVE  LoginAt(w)'
<1> DEFINE m == buf.mail
<1>1. TypeOK /\ OnlyRegistrations /\ LoginAt(w) /\ m \in Mails /\ NoOrphans
  BY DEF AnswerInv, OwnedAt, OwnerActs
<1>2. account' = account /\ info' = info
  BY <1>1, Untouched DEF Registering
<1>3. pc[w] \in {"profile", "get_info", "check", "select", "compare", "reply"}
  BY <1>1 DEF LoginAt
<1>4. own.known => account[m] = buf.passwd /\ info[m] # 0
  BY <1>1 DEF LoginAt
<1>5. buf.passwd # None
  BY <1>1, AccountsAssumption DEF TypeOK, Fields
<1>6. job[w] \in Jobs /\ m # Blank
  BY <1>1, AccountsAssumption DEF TypeOK
<1>7. \A l, j : Goto(w, l, j) => pc'[w] = l /\ job'[w] = j
  BY <1>1 DEF Goto, TypeOK
<1>8. own # NoOwner
  BY AccountsAssumption DEF NoOwner
<1>9. CASE ProfileMail(w)
  BY <1>1, <1>2, <1>4, <1>6, <1>7, <1>9 DEF ProfileMail, TakeMail, LoginAt, Jobs, Fields
<1>10. CASE GetUserInfo(w)
  <2>1. pc[w] = "get_info" /\ job[w].stmt.mail = m
    BY <1>1, <1>10 DEF GetUserInfo, At, LoginAt
  <2>2. ~Disown(w)
    BY <1>8 DEF Disown
  <2>3. PICK found \in Fetches(m, HasInfo(m)) :
          /\ IF found THEN Goto(w, "check", job[w])
                      ELSE Goto(w, "reply", Result(w, "not_exist"))
          /\ IF HasInfo(m) /\ ~found THEN Disown(w) ELSE UNCHANGED own
    BY <1>10, <2>1, <2>2 DEF GetUserInfo
  <2>4. found \in BOOLEAN /\ (found <=> HasInfo(m))
    BY <1>6, <2>2, <2>3 DEF Fetches, HasInfo
  <2>5. CASE found
    <3>1. account[m] # None
      BY <1>1, <2>4, <2>5 DEF HasInfo, NoOrphans, TypeOK
    <3> QED BY <1>2, <1>4, <1>7, <2>3, <2>5, <3>1 DEF LoginAt
  <2>6. CASE ~found
    <3> info[m] \in Nat
      BY <1>1 DEF TypeOK
    <3>1. info[m] = 0
      BY <1>6, <2>4, <2>6 DEF HasInfo
    <3>2. pc'[w] = "reply" /\ job'[w].result = "not_exist"
      <4>1. Goto(w, "reply", Result(w, "not_exist"))
        BY <2>3, <2>6
      <4> QED BY <1>7, <4>1, Answers
    <3> QED BY <1>4, <3>1, <3>2 DEF LoginAt
  <2> QED BY <2>4, <2>5, <2>6
<1>11. CASE CheckMail(w)
  BY <1>1, <1>2, <1>4, <1>6, <1>7, <1>11 DEF CheckMail, At, TakeMail, LoginAt, Jobs, Fields
<1>12. CASE CheckUserInfo(w)
  <2>1. pc[w] = "select" /\ job[w].stmt.mail = m /\ account[m] # None
    BY <1>1, <1>12 DEF CheckUserInfo, At, LoginAt
  <2>2. ~Disown(w)
    BY <1>8 DEF Disown
  <2>3. HasAccount(m)
    BY <1>6, <2>1 DEF HasAccount
  <2>4. PICK found \in Fetches(m, HasAccount(m)), p \in Passwds \cup {None, Blank} :
          /\ p \in Returned(m, found)
          /\ found => Goto(w, "compare", [job[w] EXCEPT !.row = p])
          /\ IF HasAccount(m) /\ ~found THEN Disown(w) ELSE UNCHANGED own
    BY <1>12, <2>1, <2>2 DEF CheckUserInfo
  <2>5. found \in BOOLEAN /\ found
    BY <1>6, <2>2, <2>3, <2>4 DEF Fetches
  <2>6. p = account[m]
    BY <1>6, <2>4, <2>5 DEF Returned
  <2>7. pc'[w] = "compare" /\ job'[w].row = account[m]
    BY <1>6, <1>7, <2>4, <2>5, <2>6 DEF Jobs
  <2> QED BY <1>2, <1>4, <2>1, <2>7 DEF LoginAt
<1>13. CASE Compare(w)
  <2>1. job[w].row = account[m]
    BY <1>1, <1>13 DEF Compare, At, LoginAt
  <2>2. /\ pc'[w] = "reply"
        /\ job'[w] = Result(w, IF SamePasswd(w) THEN "right" ELSE "wrong")
    BY <1>7, <1>13 DEF Compare
  <2>3. job'[w].result = IF account[m] = buf.passwd THEN "right" ELSE "wrong"
    BY <2>1, <2>2, Answers DEF SamePasswd
  <2> QED BY <1>2, <1>4, <2>2, <2>3 DEF LoginAt
<1>14. ~Reply(w)
  BY <1>8 DEF Reply, Disown
<1> QED BY <1>3, <1>9, <1>10, <1>11, <1>12, <1>13, <1>14
     DEF WorkerStep, At, InsertMail, InsertPasswd, InsertUser, InfoMail, InsertInfo, SendMail,
     IncLoad, IncStore, ModLoad, ModStore

LEMMA OwnerRegisters ==
  ASSUME AnswerInv, NEW w \in Workers, own.by = w, WorkerStep(w), own' = own, buf' = buf,
         job'[w].kind = "register", job[w].kind = "register"
  PROVE  RegisterAt(w)'
<1> DEFINE m == buf.mail
<1>1. TypeOK /\ OnlyRegistrations /\ RegisterAt(w) /\ m \in Mails /\ NoOrphans
  BY DEF AnswerInv, OwnedAt, OwnerActs
<1>2. own'.alone => \A v \in Workers \ {w} : ~Registering(v)'
  BY <1>1, NoNewRegistration DEF RegisterAt
<1>3. pc[w] \in {"check", "select", "mail", "passwd", "insert", "info", "insert_info", "reply"}
  BY <1>1 DEF RegisterAt
<1>4. buf.passwd # None /\ job[w] \in Jobs /\ m # Blank
  BY <1>1, AccountsAssumption DEF TypeOK, Fields
<1>5. \A l, j : Goto(w, l, j) => pc'[w] = l /\ job'[w] = j
  BY <1>1 DEF Goto, TypeOK
<1>6. ~Disown(w)
  BY AccountsAssumption DEF Disown, NoOwner
<1>7. CASE CheckMail(w)
  <2>1. pc'[w] = "select" /\ job'[w].stmt.mail = m
    BY <1>4, <1>5, <1>7 DEF CheckMail, TakeMail, Jobs, Fields
  <2> QED BY <1>2, <2>1 DEF RegisterAt
<1>8. CASE CheckUserInfo(w)
  <2>1. pc[w] = "select" /\ job[w].stmt.mail = m
    BY <1>1, <1>8 DEF CheckUserInfo, At, RegisterAt
  <2> DEFINE n == job[w].stmt.mail
             login == job[w].kind = "login"
  <2>2. ~login /\ account' = account
    BY <1>8 DEF CheckUserInfo, tables
  <2>3. PICK found \in Fetches(n, HasAccount(n)) :
          /\ found /\ ~login => Goto(w, "reply", Result(w, "exist"))
          /\ ~found /\ ~login => Goto(w, "mail", job[w])
          /\ IF HasAccount(n) /\ ~found THEN Disown(w) ELSE UNCHANGED own
    <3>1. \E found \in Fetches(n, HasAccount(n)), p \in Passwds \cup {None, Blank} :
            /\ CASE found /\ login   -> Goto(w, "compare", [job[w] EXCEPT !.row = p])
                 [] found /\ ~login  -> Goto(w, "reply", Result(w, "exist"))
                 [] ~found /\ login  -> Goto(w, "reply", Result(w, "right"))
                 [] ~found /\ ~login -> Goto(w, "mail", job[w])
            /\ IF HasAccount(n) /\ ~found THEN Disown(w) ELSE UNCHANGED own
      BY <1>6, <1>8, Zenon DEF CheckUserInfo
    <3> QED BY <3>1
  <2>4. found \in BOOLEAN /\ (found <=> HasAccount(m))
    BY <1>4, <1>6, <2>1, <2>3 DEF Fetches, HasAccount
  <2>5. CASE found
    <3>1. account'[m] # None
      BY <2>2, <2>4, <2>5 DEF HasAccount
    <3>2. Goto(w, "reply", Result(w, "exist"))
      BY <2>2, <2>3, <2>5
    <3>3. pc'[w] = "reply" /\ job'[w].result = "exist"
      BY <1>5, <3>2, Answers
    <3> QED BY <1>2, <3>1, <3>3 DEF RegisterAt
  <2>6. CASE ~found
    <3>1. account'[m] = None
      BY <1>4, <2>2, <2>4, <2>6 DEF HasAccount
    <3>2. Goto(w, "mail", job[w])
      BY <2>2, <2>3, <2>6
    <3>3. pc'[w] = "mail"
      BY <1>5, <3>2
    <3> QED BY <1>2, <3>1, <3>3 DEF RegisterAt
  <2> QED BY <2>4, <2>5, <2>6
<1>9. CASE InsertMail(w)
  <2>1. pc[w] = "mail" /\ pc'[w] = "passwd" /\ job'[w].stmt.mail = m /\ account' = account
    BY <1>4, <1>5, <1>9 DEF InsertMail, At, TakeMail, Jobs, Fields, tables
  <2> QED BY <1>1, <1>2, <2>1 DEF RegisterAt
<1>10. CASE InsertPasswd(w)
  <2>1. pc[w] = "passwd" /\ pc'[w] = "insert" /\ account' = account
    BY <1>5, <1>10 DEF InsertPasswd, At, tables
  <2>2. job'[w].stmt.mail = job[w].stmt.mail /\ job'[w].stmt.passwd = buf.passwd
    BY <1>4, <1>5, <1>10 DEF InsertPasswd, TakePasswd, Jobs, Fields
  <2> QED BY <1>1, <1>2, <2>1, <2>2 DEF RegisterAt
<1>11. CASE InsertUser(w)
  <2>1. pc[w] = "insert" /\ job[w].stmt.mail = m /\ job[w].stmt.passwd = buf.passwd
    BY <1>1, <1>11 DEF InsertUser, At, RegisterAt
  <2>2. account' = Inserted(m, buf.passwd) /\ Goto(w, "info", job[w]) /\ info' = info
    BY <1>6, <1>11, <2>1 DEF InsertUser
  <2>3. pc'[w] = "info"
    BY <1>5, <2>2
  <2>4. account'[m] = IF account[m] = None THEN buf.passwd ELSE account[m]
    BY <1>1, <1>4, <2>2 DEF Inserted, HasAccount, TypeOK
  <2>5. own.alone => account[m] = None /\ info'[m] = 0
    BY <1>1, <2>1, <2>2 DEF RegisterAt, NoOrphans
  <2> QED BY <1>2, <1>4, <2>3, <2>4, <2>5 DEF RegisterAt
<1>12. CASE InfoMail(w)
  <2>1. /\ pc[w] = "info" /\ pc'[w] = "insert_info" /\ job'[w].stmt.mail = m
        /\ account' = account /\ info' = info
    BY <1>4, <1>5, <1>12 DEF InfoMail, At, TakeMail, Jobs, Fields, tables
  <2> QED BY <1>1, <1>2, <2>1 DEF RegisterAt
<1>13. CASE InsertInfo(w)
  <2>1. pc[w] = "insert_info" /\ job[w].stmt.mail = m /\ account[m] # None
    BY <1>1, <1>13 DEF InsertInfo, At, RegisterAt
  <2>2. /\ info' = InfoInserted(m) /\ account' = account
        /\ Goto(w, "reply", Result(w, "success"))
    BY <1>6, <1>13, <2>1 DEF InsertInfo
  <2>3. pc'[w] = "reply"
    BY <1>5, <2>2
  <2>4. info'[m] = Book!More(info[m])
    BY <1>1, <1>4, <2>1, <2>2 DEF InfoInserted, HasAccount, TypeOK
  <2>5. own.alone => account[m] = buf.passwd /\ info'[m] = 1
    BY <1>1, <2>1, <2>4 DEF RegisterAt, Book!More, Book!Many
  <2> QED BY <1>2, <2>1, <2>2, <2>3, <2>5 DEF RegisterAt
<1>14. ~Reply(w)
  BY <1>6 DEF Reply
<1> QED BY <1>3, <1>7, <1>8, <1>9, <1>10, <1>11, <1>12, <1>13, <1>14
     DEF WorkerStep, At, ProfileMail, GetUserInfo, Compare, SendMail, IncLoad, IncStore,
     ModLoad, ModStore

LEMMA OwnStep ==
  ASSUME AnswerInv, NEW w \in Workers, own.by = w, WorkerStep(w), own'.by = w
  PROVE  OwnedAt(w)'
<1>1. TypeOK
  BY DEF AnswerInv
<1>2. own' = own /\ buf' = buf
  BY <1>1, Elsewhere, AccountsAssumption DEF NoOwner
<1>3. ~Reply(w)
  BY AccountsAssumption DEF Reply, Disown, NoOwner
<1>4. pc'[w] \notin {"idle", "dead"}
  <2>1. CASE CheckUserInfo(w)
    BY <1>1, <2>1 DEF CheckUserInfo, Goto, TypeOK
  <2>2. CASE ~CheckUserInfo(w)
    BY <1>1, <1>3, <2>2 DEF WorkerStep, ProfileMail, GetUserInfo, CheckMail, Compare,
       InsertMail, InsertPasswd, InsertUser, InfoMail, InsertInfo, SendMail, IncLoad,
       IncStore, ModLoad, ModStore, Goto, TypeOK
  <2> QED BY <2>1, <2>2
<1>5. OwnerActs(w)'
  BY <1>2, <1>4 DEF OwnerActs, OwnedAt, AnswerInv
<1>6. job'[w].kind = job[w].kind
  BY <1>1, <1>4, KeepsKind
<1>7. LoginAt(w)'
  BY <1>2, <1>6, OwnerLogin DEF LoginAt
<1>8. RegisterAt(w)'
  BY <1>2, <1>6, OwnerRegisters DEF RegisterAt
<1> QED BY <1>5, <1>7, <1>8 DEF OwnedAt

LEMMA StepOwned ==
  ASSUME AnswerInv, [Next]_vars, NEW w \in Workers, own'.by = w
  PROVE  OwnedAt(w)'
<1>1. TypeOK /\ OnlyRegistrations
  BY DEF AnswerInv
<1>2. CASE UNCHANGED vars \/ ReceiveOther \/ Restart
  <2>1. UNCHANGED <<buf, own, pc, job, account, info>>
    BY <1>2 DEF vars, tables, ReceiveOther, Restart
  <2>2. OwnedAt(w)
    BY <2>1 DEF AnswerInv
  <2>3. \A v \in Workers \ {w} : Registering(v)' => Registering(v)
    BY <2>1 DEF Registering
  <2> QED BY <1>1, <2>1, <2>2, <2>3, Undisturbed
<1>3. CASE Clear \/ Crash
  BY <1>3, AccountsAssumption DEF Clear, Crash, NoOwner
<1>4. ASSUME NEW u \in Workers, NEW k \in Kinds, NEW m \in Mails,
             NEW p \in Passwds \cup {Blank}, Receive(u, k, m, p)
      PROVE  OwnedAt(w)'
  <2>1. /\ w = u /\ pc[u] = "idle"
        /\ own'.alone = (\A v \in Workers : ~Registering(v))
        /\ own'.known = (account[m] = p /\ info[m] > 0)
        /\ buf' = [mail |-> m, passwd |-> p]
        /\ account' = account /\ info' = info
    BY <1>4 DEF Receive, tables
  <2>2. pc'[w] = FirstStep(k) /\ job'[w].kind = k
    BY <1>1, <1>4, <2>1 DEF Receive, TypeOK, Jobs
  <2>3. OwnerActs(w)'
    BY <2>1, <2>2 DEF OwnerActs, FirstStep, Kinds
  <2>4. own'.known => account'[m] = p /\ info'[m] # 0
    <3>1. info[m] \in Nat
      BY <1>1 DEF TypeOK
    <3>2. info[m] > 0 => info[m] # 0
      BY <3>1
    <3> QED BY <2>1, <3>2
  <2>5. LoginAt(w)'
    BY <2>1, <2>2, <2>4 DEF LoginAt, FirstStep
  <2>6. own'.alone => \A v \in Workers \ {w} : ~Registering(v)'
    <3>1. \A v \in Workers \ {w} : pc'[v] = pc[v] /\ job'[v] = job[v]
      BY <1>1, <1>4, <2>1 DEF Receive, TypeOK
    <3> QED BY <2>1, <3>1 DEF Registering
  <2>7. RegisterAt(w)'
    BY <2>2, <2>6 DEF RegisterAt, FirstStep
  <2> QED BY <2>3, <2>5, <2>7 DEF OwnedAt
<1>5. ASSUME NEW u \in Workers, WorkerStep(u) PROVE OwnedAt(w)'
  <2>1. own.by = w
    BY <1>1, <1>5, Elsewhere, AccountsAssumption DEF NoOwner
  <2>2. CASE u = w
    BY <1>5, <2>1, <2>2, OwnStep
  <2>3. CASE u # w
    <3>1. buf' = buf /\ own' = own /\ pc'[w] = pc[w] /\ job'[w] = job[w]
      BY <1>1, <1>5, <2>1, <2>3, Elsewhere
    <3>2. OwnedAt(w)
      BY <2>1 DEF AnswerInv
    <3>3. \A v \in Workers \ {w} : Registering(v)' => Registering(v)
      BY <1>1, <1>5, NoNewRegistration
    <3>4. own.alone /\ Registering(w) => account' = account /\ info' = info
      BY <1>1, <1>5, <2>3, <3>2, Untouched DEF OwnedAt, RegisterAt, Registering
    <3> QED BY <1>1, <3>1, <3>2, <3>3, <3>4, Undisturbed
  <2> QED BY <2>2, <2>3
<1> QED BY <1>2, <1>3, <1>4, <1>5 DEF Next

LEMMA StepAnswer == AnswerInv /\ [Next]_vars => AnswerInv'
<1> SUFFICES ASSUME AnswerInv, [Next]_vars PROVE AnswerInv'
  OBVIOUS
<1>1. TypeOK' /\ NoOrphans' /\ OnlyRegistrations'
  BY StepType, StepNoOrphans, StepOnly DEF AnswerInv
<1>2. ASSUME NEW w \in Workers, own'.by = w PROVE OwnedAt(w)'
  BY <1>2, StepOwned
<1> QED BY <1>1, <1>2 DEF AnswerInv

LEMMA AlwaysAnswer == Spec => []AnswerInv
BY InitAnswer, StepAnswer, PTL DEF Spec

(* A login whose queries all ran and whose request stayed in the buffer is *)
(* let in only with the password of the account, and always with it once   *)
(* the account is complete (deal_login_request.c:29-57), whatever the      *)
(* other handlers do between its two queries.                              *)
THEOREM LoginsSound == Spec => []LoginSound
<1>1. AnswerInv => LoginSound
  BY DEF AnswerInv, OwnedAt, LoginAt, LoginSound, Fair
<1> QED BY <1>1, AlwaysAnswer, PTL

(* What such a registration is told is true: the address is taken, and     *)
(* after a `success' without a rival the account is the one it asked for   *)
(* (deal_register_request.c:24-32).                                        *)
THEOREM RegistrationsSound == Spec => []RegisterSound
<1>1. AnswerInv => RegisterSound
  BY DEF AnswerInv, OwnedAt, RegisterAt, RegisterSound, Fair
<1> QED BY <1>1, AlwaysAnswer, PTL
-----------------------------------------------------------------------------
(* The two inserts.  WholeAccounts is not inductive: that a registration   *)
(* about to add a profile adds the first one rests on the buffer.  Only    *)
(* its owner gets from one insert to the other unhurt, and it has found    *)
(* the address free since the last owner left, who was the last that could *)
(* be about to add a profile to it.                                        *)
Adds(w, m) == pc[w] = "insert_info" /\ job[w].stmt.mail = m
Untaken(m) == info[m] = 0 /\ \A v \in Workers : ~Adds(v, m)

Opened == \A w \in Workers, m \in Mails :
  pc[w] \in {"info", "insert_info"} /\ job[w].stmt.mail = m => account[m] # None
AddsFirst == \A w \in Workers, m \in Mails :
  Adds(w, m) => info[m] = 0 /\ \A v \in Workers : Adds(v, m) => v = w
OwnerFirst == \A w \in Workers : own.by = w =>
  /\ pc[w] \in {"mail", "passwd", "insert", "info"} => Untaken(buf.mail)
  /\ pc[w] = "info" => job[w].stmt.mail = buf.mail
Whole == \A m \in Mails :
  /\ info[m] <= 1
  /\ account[m] # None /\ info[m] = 0 => AboutToAdd(m)

WholeInv == ~hurt => Opened /\ AddsFirst /\ OwnerFirst /\ Whole

LEMMA InitWhole == Init => WholeInv
<1> SUFFICES ASSUME Init PROVE Opened /\ AddsFirst /\ OwnerFirst /\ Whole
  BY DEF WholeInv
<1>1. \A w \in Workers : pc[w] = "idle"
  BY DEF Init
<1>2. \A m \in Mails : account[m] = None /\ info[m] = 0
  BY DEF Init, Book!Init
<1> QED BY <1>1, <1>2 DEF Opened, AddsFirst, OwnerFirst, Adds, Whole

(* A step that leaves the tables alone and nobody at another of the two    *)
(* inserts, and the owner, if it is on its way to them, where it was or    *)
(* with an address nobody has taken.                                       *)
LEMMA WholeKept ==
  ASSUME AnswerInv, Opened, AddsFirst, OwnerFirst, Whole, UNCHANGED tables,
         \A w \in Workers : (pc[w] \in {"info", "insert_info"} \/ pc'[w] \in {"info", "insert_info"})
           => pc'[w] = pc[w] /\ job'[w] = job[w],
         \A w \in Workers : own'.by = w /\ pc'[w] \in {"mail", "passwd", "insert", "info"} =>
           /\ own.by = w /\ buf'.mail = buf.mail
           /\ pc[w] \in {"mail", "passwd", "insert", "info"} \/ Untaken(buf.mail)
  PROVE  Opened' /\ AddsFirst' /\ OwnerFirst' /\ Whole'
<1>1. account' = account /\ info' = info
  BY DEF tables
<1>2. \A w \in Workers : \A m : Adds(w, m)' <=> Adds(w, m)
  BY DEF Adds
<1>3. Opened'
  BY <1>1 DEF Opened
<1>4. AddsFirst'
  BY <1>1, <1>2 DEF AddsFirst
<1>5. \A m : Untaken(m) => Untaken(m)'
  BY <1>1, <1>2 DEF Untaken
<1>6. OwnerFirst'
  <2> SUFFICES ASSUME NEW w \in Workers, own'.by = w,
                      pc'[w] \in {"mail", "passwd", "insert", "info"}
               PROVE  Untaken(buf.mail)' /\ (pc'[w] = "info" => job'[w].stmt.mail = buf'.mail)
    BY DEF OwnerFirst
  <2>1. Untaken(buf.mail) /\ buf'.mail = buf.mail /\ own.by = w
    BY DEF OwnerFirst
  <2>2. pc'[w] = "info" => pc[w] = "info" /\ job'[w] = job[w]
    OBVIOUS
  <2> QED BY <1>5, <2>1, <2>2 DEF OwnerFirst
<1>7. \A m \in Mails : AboutToAdd(m) => AboutToAdd(m)'
  BY DEF AboutToAdd
<1>8. Whole'
  BY <1>1, <1>7 DEF Whole
<1> QED BY <1>3, <1>4, <1>6, <1>8

(* The select that finds the address of the owner free.                    *)
LEMMA WholeCheck ==
  ASSUME AnswerInv, Opened, AddsFirst, OwnerFirst, Whole, NEW u \in Workers,
         CheckUserInfo(u), ~hurt'
  PROVE  Opened' /\ AddsFirst' /\ OwnerFirst' /\ Whole'
<1>1. /\ pc[u] = "select" /\ UNCHANGED tables /\ buf' = buf
      /\ pc'[u] \in {"reply", "compare", "mail"}
      /\ \A v \in Workers \ {u} : pc'[v] = pc[v] /\ job'[v] = job[v]
      /\ own' = own \/ own' = NoOwner
  BY Elsewhere DEF CheckUserInfo, At, Goto, WorkerStep, AnswerInv, TypeOK
<1>2. \A w \in Workers : own'.by = w => own.by = w
  BY <1>1, AccountsAssumption DEF NoOwner
<1>3. ASSUME own'.by = u, pc'[u] = "mail" PROVE Untaken(buf.mail)
  <2> DEFINE m == buf.mail
             n == job[u].stmt.mail
             login == job[u].kind = "login"
  <2>1. m \in Mails /\ m # Blank /\ own.by = u /\ NoOrphans
        /\ info[m] \in Nat
    BY <1>2, <1>3, AccountsAssumption DEF AnswerInv, OwnedAt, OwnerActs, TypeOK, Book!Many
  <2>2. ~Disown(u)
    BY <1>3, AccountsAssumption DEF Disown, NoOwner
  <2>3. job[u].kind \in {"login", "register"}
    BY <1>1 DEF AnswerInv, OnlyRegistrations
  <2>4. n = m
    BY <1>1, <2>1, <2>3 DEF AnswerInv, OwnedAt, LoginAt, RegisterAt
  <2>5. PICK found \in Fetches(n, HasAccount(n)) :
          /\ found /\ login   => \E j : Goto(u, "compare", j)
          /\ found /\ ~login  => \E j : Goto(u, "reply", j)
          /\ ~found /\ login  => \E j : Goto(u, "reply", j)
          /\ ~(HasAccount(n) /\ ~found)
    <3>1. \E found \in Fetches(n, HasAccount(n)), p \in Passwds \cup {None, Blank} :
            /\ CASE found /\ login   -> Goto(u, "compare", [job[u] EXCEPT !.row = p])
                 [] found /\ ~login  -> Goto(u, "reply", Result(u, "exist"))
                 [] ~found /\ login  -> Goto(u, "reply", Result(u, "right"))
                 [] ~found /\ ~login -> Goto(u, "mail", job[u])
            /\ IF HasAccount(n) /\ ~found THEN Disown(u) ELSE UNCHANGED own
      BY <2>2, Zenon DEF CheckUserInfo
    <3> QED BY <2>2, <3>1
  <2>6. \A l, j : Goto(u, l, j) => pc'[u] = l
    BY DEF Goto, AnswerInv, TypeOK
  <2>7. found \in BOOLEAN /\ ~found
    BY <1>3, <2>1, <2>4, <2>5, <2>6 DEF Fetches, HasAccount
  <2>8. account[m] = None
    BY <2>1, <2>4, <2>5, <2>7 DEF HasAccount
  <2>9. info[m] = 0
    BY <2>1, <2>8 DEF NoOrphans
  <2>10. \A v \in Workers : ~Adds(v, m)
    BY <2>1, <2>8 DEF Adds, Opened
  <2> QED BY <2>9, <2>10 DEF Untaken
<1> QED BY <1>1, <1>2, <1>3, WholeKept

LEMMA WholeInsertUser ==
  ASSUME AnswerInv, Opened, AddsFirst, OwnerFirst, Whole, NEW u \in Workers,
         InsertUser(u), ~hurt'
  PROVE  Opened' /\ AddsFirst' /\ OwnerFirst' /\ Whole'
<1> DEFINE m == job[u].stmt.mail
           p == job[u].stmt.passwd
<1>1. /\ pc[u] = "insert" /\ info' = info /\ account' = Inserted(m, p)
      /\ Goto(u, "info", job[u]) /\ own' = own
  BY DEF InsertUser, At
<1>2. pc'[u] = "info" /\ job' = job /\ buf' = buf
      /\ \A v \in Workers : v # u => pc'[v] = pc[v]
  BY <1>1 DEF Goto, AnswerInv, TypeOK
<1>3. \A n \in Mails : /\ account[n] # None => account'[n] # None
                       /\ account'[n] # None => account[n] # None \/ n = m
  BY <1>1 DEF Inserted, HasAccount, AnswerInv, TypeOK
<1>4. m \in Mails => account'[m] # None
  <2>1. p # None
    BY StmtTypes, AccountsAssumption DEF AnswerInv
  <2>2. m \in Mails => account'[m] = IF m = Blank \/ account[m] # None THEN account[m] ELSE p
    BY <1>1 DEF Inserted, HasAccount, AnswerInv, TypeOK
  <2> QED BY <2>1, <2>2, AccountsAssumption
<1>5. \A w \in Workers : \A n : Adds(w, n)' <=> Adds(w, n)
  BY <1>1, <1>2 DEF Adds
<1>6. Opened'
  BY <1>2, <1>3, <1>4 DEF Opened
<1>7. AddsFirst'
  BY <1>1, <1>5 DEF AddsFirst
<1>8. OwnerFirst'
  <2>1. \A n : Untaken(n) => Untaken(n)'
    BY <1>1, <1>5 DEF Untaken
  <2>2. own.by = u => m = buf.mail
    <3>1. job[u].kind = "register"
      BY <1>1 DEF AnswerInv, OnlyRegistrations, Inserts
    <3> QED BY <1>1, <3>1 DEF AnswerInv, OwnedAt, RegisterAt
  <2> QED BY <1>1, <1>2, <2>1, <2>2 DEF OwnerFirst
<1>9. Whole'
  <2>1. \A n \in Mails : AboutToAdd(n) => AboutToAdd(n)'
    BY <1>1, <1>2 DEF AboutToAdd
  <2>2. \A n \in Mails : n = m => AboutToAdd(n)'
    BY <1>2 DEF AboutToAdd
  <2> QED BY <1>1, <1>3, <2>1, <2>2 DEF Whole
<1> QED BY <1>6, <1>7, <1>8, <1>9

(* From the first insert to the second, which only the owner does unhurt.  *)
LEMMA WholeInfoMail ==
  ASSUME AnswerInv, Opened, AddsFirst, OwnerFirst, Whole, NEW u \in Workers,
         InfoMail(u), ~hurt'
  PROVE  Opened' /\ AddsFirst' /\ OwnerFirst' /\ Whole'
<1> DEFINE m == buf.mail
<1>1. /\ pc[u] = "info" /\ UNCHANGED tables /\ own.by = u /\ own' = own
      /\ Goto(u, "insert_info", TakeMail(u))
  BY DEF InfoMail, At, Lapsed
<1>2. Untaken(m) /\ job[u].stmt.mail = m
  BY <1>1 DEF OwnerFirst
<1>3. pc'[u] = "insert_info" /\ job'[u].stmt.mail = m
  BY <1>1 DEF Goto, TakeMail, AnswerInv, TypeOK, Jobs, Fields
<1>4. account' = account /\ info' = info
      /\ \A v \in Workers : v # u => pc'[v] = pc[v] /\ job'[v] = job[v]
  BY <1>1 DEF Goto, tables, AnswerInv, TypeOK
<1>5. \A v \in Workers : \A n : Adds(v, n)' <=> Adds(v, n) \/ (v = u /\ n = m)
  BY <1>1, <1>3, <1>4 DEF Adds
<1>6. Opened'
  BY <1>1, <1>2, <1>3, <1>4 DEF Opened
<1>7. AddsFirst'
  BY <1>2, <1>4, <1>5 DEF AddsFirst, Untaken
<1>8. OwnerFirst'
  BY <1>1, <1>3 DEF OwnerFirst
<1>9. \A n \in Mails : AboutToAdd(n) => AboutToAdd(n)'
  BY <1>1, <1>2, <1>3, <1>4 DEF AboutToAdd
<1>10. Whole'
  BY <1>4, <1>9 DEF Whole
<1> QED BY <1>6, <1>7, <1>8, <1>10

LEMMA WholeInsertInfo ==
  ASSUME AnswerInv, Opened, AddsFirst, OwnerFirst, Whole, NEW u \in Workers,
         InsertInfo(u), ~hurt'
  PROVE  Opened' /\ AddsFirst' /\ OwnerFirst' /\ Whole'
<1> DEFINE m == job[u].stmt.mail
<1>1. /\ pc[u] = "insert_info" /\ account' = account /\ info' = InfoInserted(m)
      /\ Goto(u, "reply", Result(u, "success")) /\ own' = own
  BY DEF InsertInfo, At
<1>2. /\ pc'[u] = "reply" /\ buf' = buf
      /\ \A v \in Workers : v # u => pc'[v] = pc[v] /\ job'[v] = job[v]
  BY <1>1 DEF Goto, AnswerInv, TypeOK
<1>3. Adds(u, m)
  BY <1>1 DEF Adds
<1>4. \A n \in Mails : n # m => info'[n] = info[n]
  BY <1>1 DEF InfoInserted, AnswerInv, TypeOK
<1>5. m \in Mails => info'[m] = 1
  <2> HAVE m \in Mails
  <2>1. info[m] = 0 /\ account[m] # None /\ m # Blank
    BY <1>1, <1>3, AccountsAssumption DEF AddsFirst, Opened, Adds
  <2> QED BY <1>1, <2>1 DEF InfoInserted, HasAccount, Book!More, Book!Many, AnswerInv, TypeOK
<1>6. \A v \in Workers : \A n : Adds(v, n)' => Adds(v, n) /\ v # u
  BY <1>2 DEF Adds
<1>7. Opened'
  BY <1>1, <1>2 DEF Opened
<1>8. AddsFirst'
  <2> SUFFICES ASSUME NEW w \in Workers, NEW n \in Mails, Adds(w, n)'
               PROVE  info'[n] = 0 /\ \A v \in Workers : Adds(v, n)' => v = w
    BY DEF AddsFirst
  <2>1. Adds(w, n) /\ w # u
    BY <1>6
  <2>2. n # m
    BY <1>3, <2>1 DEF AddsFirst
  <2> QED BY <1>4, <1>6, <2>1, <2>2 DEF AddsFirst
<1>9. OwnerFirst'
  <2> SUFFICES ASSUME NEW w \in Workers, own'.by = w,
                      pc'[w] \in {"mail", "passwd", "insert", "info"}
               PROVE  Untaken(buf.mail)' /\ (pc'[w] = "info" => job'[w].stmt.mail = buf'.mail)
    BY DEF OwnerFirst
  <2>1. w # u /\ pc'[w] = pc[w] /\ job'[w] = job[w] /\ own.by = w
    BY <1>1, <1>2
  <2>2. Untaken(buf.mail) /\ buf.mail \in Mails
    BY <2>1 DEF OwnerFirst, AnswerInv, OwnedAt, OwnerActs
  <2>3. buf.mail # m
    BY <1>3, <2>2 DEF Untaken
  <2>4. Untaken(buf.mail)'
    BY <1>2, <1>4, <1>6, <2>2, <2>3 DEF Untaken
  <2> QED BY <1>2, <2>1, <2>4 DEF OwnerFirst
<1>10. Whole'
  <2> SUFFICES ASSUME NEW n \in Mails
               PROVE  /\ info'[n] <= 1
                      /\ account'[n] # None /\ info'[n] = 0 => AboutToAdd(n)'
    BY DEF Whole
  <2>1. CASE n = m
    BY <1>5, <2>1
  <2>2. CASE n # m
    <3>1. AboutToAdd(n) => AboutToAdd(n)'
      BY <1>2, <2>2 DEF AboutToAdd
    <3> QED BY <1>1, <1>4, <2>2, <3>1 DEF Whole
  <2> QED BY <2>1, <2>2
<1> QED BY <1>7, <1>8, <1>9, <1>10

LEMMA StepWhole == AnswerInv /\ WholeInv /\ [Next]_vars => WholeInv'
<1> SUFFICES ASSUME AnswerInv, WholeInv, [Next]_vars, ~hurt'
             PROVE  Opened' /\ AddsFirst' /\ OwnerFirst' /\ Whole'
  BY DEF WholeInv
<1>1. ~hurt
  <2>1. CASE UNCHANGED vars \/ Clear \/ ReceiveOther \/ Restart \/ Crash
    BY <2>1 DEF vars, Clear, ReceiveOther, Restart, Crash
  <2>2. ASSUME NEW u \in Workers, NEW k \in Kinds, NEW m \in Mails,
               NEW p \in Passwds \cup {Blank}, Receive(u, k, m, p)
        PROVE  ~hurt
    BY <2>2 DEF Receive
  <2>3. ASSUME NEW u \in Workers, WorkerStep(u) PROVE ~hurt
    <3>1. CASE CheckUserInfo(u)
      BY <3>1 DEF CheckUserInfo
    <3>2. CASE ~CheckUserInfo(u)
      BY <2>3, <3>2 DEF WorkerStep, ProfileMail, GetUserInfo, CheckMail, Compare,
         InsertMail, InsertPasswd, InsertUser, InfoMail, InsertInfo, SendMail, IncLoad,
         IncStore, ModLoad, ModStore, Reply, Lapsed
    <3> QED BY <3>1, <3>2
  <2> QED BY <2>1, <2>2, <2>3 DEF Next
<1>2. Opened /\ AddsFirst /\ OwnerFirst /\ Whole
  BY <1>1 DEF WholeInv
<1>3. CASE UNCHANGED vars \/ ReceiveOther \/ Restart
  <2>1. UNCHANGED <<tables, pc, job, own, buf>>
    BY <1>3 DEF vars, ReceiveOther, Restart
  <2> QED BY <1>2, <2>1, WholeKept
<1>4. CASE Clear \/ Crash
  <2>1. UNCHANGED tables /\ \A w \in Workers : own'.by # w
    BY <1>4, AccountsAssumption DEF Clear, Crash, NoOwner
  <2>2. \A w \in Workers :
          (pc[w] \in {"info", "insert_info"} \/ pc'[w] \in {"info", "insert_info"})
            => pc'[w] = pc[w] /\ job'[w] = job[w]
    BY <1>4 DEF Clear, Crash
  <2> QED BY <1>2, <2>1, <2>2, WholeKept
<1>5. ASSUME NEW u \in Workers, NEW k \in Kinds, NEW m \in Mails,
             NEW p \in Passwds \cup {Blank}, Receive(u, k, m, p)
      PROVE  Opened' /\ AddsFirst' /\ OwnerFirst' /\ Whole'
  <2>1. /\ UNCHANGED tables /\ own'.by = u /\ pc[u] = "idle"
        /\ pc'[u] \in {"send", "check", "profile"}
        /\ \A v \in Workers : v # u => pc'[v] = pc[v] /\ job'[v] = job[v]
    BY <1>5 DEF Receive, FirstStep, Kinds, AnswerInv, TypeOK
  <2>2. \A w \in Workers :
          (pc[w] \in {"info", "insert_info"} \/ pc'[w] \in {"info", "insert_info"})
            => pc'[w] = pc[w] /\ job'[w] = job[w]
    BY <2>1
  <2> QED BY <1>2, <2>1, <2>2, WholeKept
<1>6. ASSUME NEW u \in Workers, WorkerStep(u)
      PROVE  Opened' /\ AddsFirst' /\ OwnerFirst' /\ Whole'
  <2>1. CASE CheckUserInfo(u)
    BY <1>2, <2>1, WholeCheck
  <2>2. CASE InsertUser(u)
    BY <1>2, <2>2, WholeInsertUser
  <2>3. CASE InfoMail(u)
    BY <1>2, <2>3, WholeInfoMail
  <2>4. CASE InsertInfo(u)
    BY <1>2, <2>4, WholeInsertInfo
  <2>5. CASE ~(CheckUserInfo(u) \/ InsertUser(u) \/ InfoMail(u) \/ InsertInfo(u))
    <3>1. /\ UNCHANGED tables
          /\ pc[u] \notin {"info", "insert_info"} /\ pc'[u] \notin {"info", "insert_info"}
          /\ pc'[u] \in {"mail", "passwd", "insert"} => pc[u] \in {"mail", "passwd", "insert"}
      BY <1>6, <2>5 DEF WorkerStep, ProfileMail, GetUserInfo, CheckMail, Compare,
         InsertMail, InsertPasswd, SendMail, IncLoad, IncStore, ModLoad, ModStore, Reply,
         At, Goto, tables, AnswerInv, TypeOK
    <3>2. /\ buf' = buf
          /\ \A v \in Workers \ {u} : pc'[v] = pc[v] /\ job'[v] = job[v]
          /\ own' = own \/ own' = NoOwner
      BY <1>6, Elsewhere DEF AnswerInv
    <3>3. \A w \in Workers : own'.by = w => own.by = w
      BY <3>2, AccountsAssumption DEF NoOwner
    <3> QED BY <1>2, <3>1, <3>2, <3>3, WholeKept
  <2> QED BY <2>1, <2>2, <2>3, <2>4, <2>5
<1> QED BY <1>3, <1>4, <1>5, <1>6 DEF Next

(* The two inserts of insert_user are no transaction, and yet, whatever    *)
(* requests are handled at once: unless a registration failed, was cut     *)
(* short or lost its buffer, every account has its one profile or a        *)
(* registration about to add it.                                           *)
THEOREM AccountsWhole == Spec => []WholeAccounts
<1>1. Init => AnswerInv /\ WholeInv
  BY InitAnswer, InitWhole
<1>2. AnswerInv /\ WholeInv /\ [Next]_vars => (AnswerInv /\ WholeInv)'
  BY StepAnswer, StepWhole
<1>3. WholeInv => WholeAccounts
  BY DEF WholeInv, Whole, WholeAccounts
<1> QED BY <1>1, <1>2, <1>3, PTL DEF Spec
=============================================================================
