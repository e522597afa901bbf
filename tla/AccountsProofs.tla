--------------------------- MODULE AccountsProofs ---------------------------
(***************************************************************************)
(* Theorems about Accounts, for every number of workers, every set of      *)
(* addresses and passwords, and every set of faults.                       *)
(***************************************************************************)
EXTENDS Accounts, TLAPS

LEMMA NoJobType == NoJob \in Jobs
<1>1. Nothing \in Fields
  BY DEF Nothing, Fields
<1> QED BY <1>1 DEF NoJob, Jobs, Kinds, Indices, ConfigLen, Results

LEMMA InitType == Init => TypeOK
<1> SUFFICES ASSUME Init PROVE TypeOK
  OBVIOUS
<1>1. Nothing \in Fields
  BY DEF Nothing, Fields
<1>2. job \in [Workers -> Jobs]
  BY NoJobType DEF Init
<1>3. account \in [Mails -> Passwds \cup {None, Blank}] /\ info \in [Mails -> 0 .. Book!Many]
  BY DEF Init, Book!Init, Book!Many
<1>4. pc \in [Workers -> PCs] /\ index \in Indices /\ own \in Owners
  BY DEF Init, PCs, Indices, ConfigLen, NoOwner, Owners
<1> QED BY <1>1, <1>2, <1>3, <1>4 DEF Init, TypeOK

-----------------------------------------------------------------------------
(* What the steps are made of keeps to its types.                          *)

LEMMA GotoTypes ==
  ASSUME TypeOK, NEW w \in Workers, NEW l \in PCs, NEW j \in Jobs, Goto(w, l, j)
  PROVE  /\ pc' \in [Workers -> PCs] /\ job' \in [Workers -> Jobs]
         /\ UNCHANGED <<up, mpc, buf>>
BY DEF Goto, TypeOK

LEMMA TakeTypes ==
  ASSUME TypeOK, NEW w \in Workers
  PROVE  TakeMail(w) \in Jobs /\ TakePasswd(w) \in Jobs
<1>1. job[w] \in Jobs /\ buf \in Fields
  BY DEF TypeOK
<1>2. buf.mail \in Mails \cup {Blank} /\ buf.passwd \in Passwds \cup {Blank}
  BY <1>1 DEF Fields
<1>3. job[w].stmt \in Fields
  BY <1>1 DEF Jobs
<1>4. /\ [job[w].stmt EXCEPT !.mail = buf.mail] \in Fields
      /\ [job[w].stmt EXCEPT !.passwd = buf.passwd] \in Fields
  BY <1>2, <1>3 DEF Fields
<1> QED BY <1>1, <1>4 DEF TakeMail, TakePasswd, Jobs

LEMMA ResultTypes ==
  ASSUME TypeOK, NEW w \in Workers, NEW r \in Results
  PROVE  Result(w, r) \in Jobs
<1>1. job[w].kind \in Kinds
  BY DEF TypeOK, Jobs
<1> QED BY <1>1, NoJobType DEF Result, Jobs

LEMMA RegTypes ==
  ASSUME TypeOK, NEW w \in Workers, NEW i \in Indices
  PROVE  [job[w] EXCEPT !.reg = i] \in Jobs
BY DEF TypeOK, Jobs

LEMMA DisownTypes ==
  ASSUME TypeOK, NEW w \in Workers, Disown(w)
  PROVE  own' \in Owners
BY DEF TypeOK, Disown, NoOwner, Owners

LEMMA InsertedTypes ==
  ASSUME TypeOK, NEW m \in Mails \cup {Blank}, NEW p \in Passwds \cup {Blank}
  PROVE  /\ Inserted(m, p) \in [Mails -> Passwds \cup {None, Blank}]
         /\ InfoInserted(m) \in [Mails -> 0 .. Book!Many]
BY DEF TypeOK, Inserted, InfoInserted, HasAccount, Book!More, Book!Many

LEMMA StmtTypes ==
  ASSUME TypeOK, NEW w \in Workers
  PROVE  /\ job[w] \in Jobs
         /\ job[w].stmt.mail \in Mails \cup {Blank}
         /\ job[w].stmt.passwd \in Passwds \cup {Blank}
<1>1. job[w] \in Jobs
  BY DEF TypeOK
<1>2. job[w].stmt \in Fields
  BY <1>1 DEF Jobs
<1> QED BY <1>1, <1>2 DEF Fields

-----------------------------------------------------------------------------
(* The steps keep the types.                                               *)

(* A step that keeps the tables, and leaves the index, the owner and the   *)
(* history within their types.                                             *)
LEMMA QuietStep ==
  ASSUME TypeOK, NEW w \in Workers, NEW l \in PCs, NEW j \in Jobs, Goto(w, l, j),
         account' \in [Mails -> Passwds \cup {None, Blank}],
         info' \in [Mails -> 0 .. Book!Many],
         index' \in Indices, own' \in Owners, hurt' \in BOOLEAN
  PROVE  TypeOK'
BY GotoTypes DEF TypeOK

LEMMA FetchTypes ==
  ASSUME TypeOK, NEW w \in Workers, NEW p \in Passwds \cup {None, Blank}
  PROVE  [job[w] EXCEPT !.row = p] \in Jobs
BY DEF TypeOK, Jobs

LEMMA StepType == TypeOK /\ [Next]_vars => TypeOK'
<1> SUFFICES ASSUME TypeOK, [Next]_vars PROVE TypeOK'
  OBVIOUS
<1>1. CASE UNCHANGED vars
  BY <1>1 DEF vars, tables, TypeOK
<1>2. CASE Clear
  BY <1>2 DEF Clear, tables, TypeOK, Nothing, Fields, NoOwner, Owners
<1>3. CASE ReceiveOther
  BY <1>3 DEF ReceiveOther, tables, TypeOK
<1>4. ASSUME NEW w \in Workers, NEW k \in Kinds, NEW m \in Mails,
             NEW p \in Passwds \cup {Blank}, Receive(w, k, m, p)
      PROVE  TypeOK'
  <2>1. buf' \in Fields
    BY <1>4 DEF Receive, Fields
  <2>2. pc' \in [Workers -> PCs]
    BY <1>4 DEF Receive, FirstStep, Kinds, PCs, TypeOK
  <2>3. job' \in [Workers -> Jobs]
    <3>1. [job[w] EXCEPT !.kind = k] \in Jobs
      BY DEF TypeOK, Jobs
    <3> QED BY <1>4, <3>1 DEF Receive, TypeOK
  <2>4. own' \in Owners
    BY <1>4 DEF Receive, Owners
  <2> QED BY <1>4, <2>1, <2>2, <2>3, <2>4 DEF Receive, tables, TypeOK
<1>5. ASSUME NEW w \in Workers, WorkerStep(w) PROVE TypeOK'
  <2> USE StmtTypes, QuietStep
  <2>0. /\ UNCHANGED tables => /\ account' \in [Mails -> Passwds \cup {None, Blank}]
                                /\ info' \in [Mails -> 0 .. Book!Many]
        /\ index \in Indices /\ own \in Owners /\ hurt \in BOOLEAN
    BY DEF TypeOK, tables
  <2>1. CASE ProfileMail(w)
    BY <2>0, <2>1, TakeTypes DEF ProfileMail, PCs
  <2>2. CASE GetUserInfo(w)
    BY <2>0, <2>2, ResultTypes, DisownTypes DEF GetUserInfo, PCs, Results
  <2>3. CASE CheckMail(w)
    BY <2>0, <2>3, TakeTypes DEF CheckMail, PCs
  <2>4. CASE CheckUserInfo(w)
    <3>1. \E l \in PCs, j \in Jobs : Goto(w, l, j)
      BY <2>4, ResultTypes, FetchTypes DEF CheckUserInfo, PCs, Results
    <3>2. own' \in Owners /\ hurt' \in BOOLEAN
      BY <2>0, <2>4, DisownTypes DEF CheckUserInfo
    <3> QED BY <2>0, <2>4, <3>1, <3>2 DEF CheckUserInfo
  <2>5. CASE Compare(w)
    BY <2>0, <2>5, ResultTypes DEF Compare, PCs, Results
  <2>6. CASE InsertMail(w)
    BY <2>0, <2>6, TakeTypes DEF InsertMail, Lapsed, PCs
  <2>7. CASE InsertPasswd(w)
    BY <2>0, <2>7, TakeTypes DEF InsertPasswd, Lapsed, PCs
  <2>8. CASE InsertUser(w)
    <3> DEFINE new == Inserted(job[w].stmt.mail, job[w].stmt.passwd)
    <3>1. account' \in {account, new} /\ UNCHANGED <<info, index>>
      BY <2>8 DEF InsertUser
    <3>2. new \in [Mails -> Passwds \cup {None, Blank}]
      BY InsertedTypes
    <3>3. /\ account' \in [Mails -> Passwds \cup {None, Blank}]
          /\ info' \in [Mails -> 0 .. Book!Many]
      BY <3>1, <3>2 DEF TypeOK
    <3>4. own' \in Owners /\ hurt' \in BOOLEAN
      BY <2>0, <2>8, DisownTypes DEF InsertUser
    <3>5. \E l \in PCs, j \in Jobs : Goto(w, l, j)
      BY <2>8, ResultTypes DEF InsertUser, PCs, Results
    <3> QED BY <2>0, <3>1, <3>3, <3>4, <3>5
  <2>9. CASE InfoMail(w)
    BY <2>0, <2>9, TakeTypes DEF InfoMail, Lapsed, PCs
  <2>10. CASE InsertInfo(w)
    BY <2>0, <2>10, ResultTypes, DisownTypes, InsertedTypes
    DEF InsertInfo, PCs, Results, TypeOK
  <2>11. CASE SendMail(w)
    BY <2>0, <2>11 DEF SendMail, PCs
  <2>12. CASE IncLoad(w)
    <3>1. Near(index + 1) \in Indices
      BY <2>0 DEF Near, Indices, ConfigLen
    <3> QED BY <2>0, <2>12, <3>1, RegTypes DEF IncLoad, PCs
  <2>13. CASE IncStore(w)
    <3>1. job[w].reg \in Indices /\ 0 \in Indices
      BY DEF TypeOK, Jobs, Indices, ConfigLen
    <3> QED BY <2>0, <2>13, <3>1, RegTypes DEF IncStore, tables, PCs
  <2>14. CASE ModLoad(w)
    <3>1. Wrapped(index) \in Indices
      BY <2>0 DEF Wrapped, Indices, ConfigLen
    <3> QED BY <2>0, <2>14, <3>1, RegTypes DEF ModLoad, PCs
  <2>15. CASE ModStore(w)
    <3>1. job[w].reg \in Indices
      BY DEF TypeOK, Jobs
    <3> QED BY <2>0, <2>15, <3>1, ResultTypes DEF ModStore, PCs, Results
  <2>16. CASE Reply(w)
    BY <2>0, <2>16, NoJobType, DisownTypes DEF Reply, PCs
  <2> QED BY <1>5, <2>1, <2>2, <2>3, <2>4, <2>5, <2>6, <2>7, <2>8, <2>9, <2>10, <2>11,
             <2>12, <2>13, <2>14, <2>15, <2>16 DEF WorkerStep
<1>6. CASE Crash
  <2>1. job' \in [Workers -> Jobs] /\ pc' \in [Workers -> PCs]
    BY <1>6, NoJobType DEF Crash, PCs
  <2>2. buf' \in Fields /\ own' \in Owners /\ index' \in Indices
    BY <1>6 DEF Crash, Nothing, Fields, NoOwner, Owners, Indices, ConfigLen
  <2>3. hurt' \in BOOLEAN /\ up' \in BOOLEAN /\ mpc' \in {"wait", "read"}
    BY <1>6 DEF Crash, TypeOK
  <2> QED BY <1>6, <2>1, <2>2, <2>3 DEF Crash, tables, TypeOK
<1>7. CASE Restart
  BY <1>7 DEF Restart, tables, TypeOK
<1> QED BY <1>1, <1>2, <1>3, <1>4, <1>5, <1>6, <1>7 DEF Next

(* Every variable keeps its type: whatever the shared buffer holds when a  *)
(* statement takes its fields, the tables hold addresses and passwords and *)
(* the index of the mail account stays within the next cycle.              *)
THEOREM TypeCorrect == Spec => []TypeOK
<1> QED BY InitType, StepType, PTL DEF Spec

-----------------------------------------------------------------------------
(* The index of the mail account.                                          *)

(* A thread about to store a remainder has a remainder to store.           *)
Remainders == \A w \in Workers : pc[w] = "mod_store" => job[w].reg < ConfigLen
Wrapping(w) == pc[w] \in {"mod_load", "mod_store"}
IndexInv == TypeOK /\ IndexWraps /\ Remainders

LEMMA InitIndex == Init => IndexInv
<1> SUFFICES ASSUME Init PROVE IndexInv
  OBVIOUS
<1> QED BY InitType DEF Init, IndexInv, IndexWraps, Remainders, ConfigLen

(* A step of w that keeps the index, and w at the same of the three places *)
(* or away from them.                                                      *)
LEMMA SameIndex ==
  ASSUME IndexInv, NEW w \in Workers, NEW l \in PCs, NEW j \in Jobs, Goto(w, l, j),
         ~Wrapping(w), l \notin {"mod_load", "mod_store"}, UNCHANGED index
  PROVE  IndexWraps' /\ Remainders'
<1>1. \A v \in Workers : v # w => pc'[v] = pc[v] /\ job'[v] = job[v]
  BY DEF Goto, IndexInv, TypeOK
<1>2. pc'[w] = l
  BY DEF Goto, IndexInv, TypeOK
<1>3. Remainders'
  BY <1>1, <1>2 DEF IndexInv, Remainders
<1>4. IndexWraps'
  BY <1>1 DEF IndexInv, IndexWraps, Wrapping
<1> QED BY <1>3, <1>4

LEMMA StepIndex == IndexInv /\ [Next]_vars => IndexInv'
<1> SUFFICES ASSUME IndexInv, [Next]_vars PROVE IndexWraps' /\ Remainders'
  BY StepType DEF IndexInv
<1> USE DEF IndexInv
<1>1. CASE UNCHANGED vars
  BY <1>1 DEF vars, IndexWraps, Remainders
<1>2. CASE Clear \/ ReceiveOther \/ Restart
  BY <1>2 DEF Clear, ReceiveOther, Restart, IndexWraps, Remainders
<1>3. ASSUME NEW w \in Workers, NEW k \in Kinds, NEW m \in Mails,
             NEW p \in Passwds \cup {Blank}, Receive(w, k, m, p)
      PROVE  IndexWraps' /\ Remainders'
  <2>1. \A v \in Workers : v # w => pc'[v] = pc[v] /\ job'[v] = job[v]
    BY <1>3 DEF Receive, TypeOK
  <2>2. pc[w] = "idle" /\ pc'[w] \in {"send", "check", "profile"} /\ index' = index
    BY <1>3 DEF Receive, TypeOK, FirstStep, Kinds
  <2>3. Remainders'
    BY <2>1, <2>2 DEF Remainders
  <2>4. IndexWraps'
    BY <2>1, <2>2 DEF IndexWraps
  <2> QED BY <2>3, <2>4
<1>4. ASSUME NEW w \in Workers, WorkerStep(w) PROVE IndexWraps' /\ Remainders'
  <2> USE StmtTypes, SameIndex DEF Wrapping, At
  <2>1. CASE ProfileMail(w)
    BY <2>1, TakeTypes DEF ProfileMail, PCs
  <2>2. CASE GetUserInfo(w)
    BY <2>2, ResultTypes DEF GetUserInfo, PCs, Results
  <2>3. CASE CheckMail(w)
    BY <2>3, TakeTypes DEF CheckMail, PCs
  <2>4. CASE CheckUserInfo(w)
    <3>1. \E l \in PCs \ {"mod_load", "mod_store"}, j \in Jobs : Goto(w, l, j)
      BY <2>4, ResultTypes, FetchTypes DEF CheckUserInfo, PCs, Results
    <3> QED BY <2>4, <3>1 DEF CheckUserInfo
  <2>5. CASE Compare(w)
    BY <2>5, ResultTypes DEF Compare, PCs, Results
  <2>6. CASE InsertMail(w) \/ InsertPasswd(w) \/ InfoMail(w)
    BY <2>6, TakeTypes DEF InsertMail, InsertPasswd, InfoMail, PCs
  <2>7. CASE InsertUser(w)
    BY <2>7, ResultTypes DEF InsertUser, PCs, Results
  <2>8. CASE InsertInfo(w)
    BY <2>8, ResultTypes DEF InsertInfo, PCs, Results
  <2>9. CASE SendMail(w)
    BY <2>9 DEF SendMail, PCs
  <2>10. CASE IncLoad(w)
    <3>1. Near(index + 1) \in Indices
      BY DEF TypeOK, Near, Indices, ConfigLen
    <3> QED BY <2>10, <3>1, RegTypes DEF IncLoad, PCs
  <2>11. CASE Reply(w)
    BY <2>11, NoJobType DEF Reply, PCs
  <2>12. CASE IncStore(w)
    <3>1. \A v \in Workers : v # w => pc'[v] = pc[v] /\ job'[v] = job[v]
      BY <2>12 DEF IncStore, Goto, TypeOK
    <3>2. pc'[w] = "mod_load"
      BY <2>12 DEF IncStore, Goto, TypeOK
    <3> QED BY <3>1, <3>2 DEF IndexWraps, Remainders
  <2>13. CASE ModLoad(w)
    <3>1. \A v \in Workers : v # w => pc'[v] = pc[v] /\ job'[v] = job[v]
      BY <2>13 DEF ModLoad, Goto, TypeOK
    <3>2. pc'[w] = "mod_store" /\ job'[w].reg = Wrapped(index)
      BY <2>13 DEF ModLoad, Goto, TypeOK, Jobs
    <3>3. Wrapped(index) < ConfigLen
      BY DEF Wrapped, ConfigLen, TypeOK, Indices
    <3> QED BY <2>13, <3>1, <3>2, <3>3 DEF IndexWraps, Remainders
  <2>14. CASE ModStore(w)
    <3>1. \A v \in Workers : v # w => pc'[v] = pc[v] /\ job'[v] = job[v]
      BY <2>14 DEF ModStore, Goto, TypeOK
    <3>2. pc'[w] = "reply"
      BY <2>14 DEF ModStore, Goto, TypeOK
    <3>3. index' < ConfigLen /\ index' \in Nat
      BY <2>14 DEF ModStore, Remainders, TypeOK, Jobs, Indices, ConfigLen
    <3> QED BY <3>1, <3>2, <3>3 DEF IndexWraps, Remainders, ConfigLen
  <2> QED BY <1>4, <2>1, <2>2, <2>3, <2>4, <2>5, <2>6, <2>7, <2>8, <2>9, <2>10, <2>11,
             <2>12, <2>13, <2>14 DEF WorkerStep
<1>5. CASE Crash
  BY <1>5 DEF Crash, IndexWraps, Remainders, ConfigLen
<1> QED BY <1>1, <1>2, <1>3, <1>4, <1>5 DEF Next

(* However many threads send mail at once, the index is past the table of  *)
(* accounts only while one of them is still to take the remainder.         *)
THEOREM IndexInRange == Spec => []IndexWraps
<1>1. IndexInv => IndexWraps
  BY DEF IndexInv
<1> QED BY <1>1, InitIndex, StepIndex, PTL DEF Spec

-----------------------------------------------------------------------------
(* The handlers implement AccountBook.                                     *)

LEMMA InitBook == Init => Book!Init
BY DEF Init

LEMMA StepBook == TypeOK /\ [Next]_vars => [Book!Next]_<<account, info>>
<1> SUFFICES ASSUME TypeOK, [Next]_vars PROVE [Book!Next]_<<account, info>>
  OBVIOUS
<1>1. CASE UNCHANGED tables
  BY <1>1 DEF tables
<1>2. ASSUME NEW w \in Workers, InsertUser(w) PROVE [Book!Next]_<<account, info>>
  <2> DEFINE m == job[w].stmt.mail
             p == job[w].stmt.passwd
  <2>1. info' = info /\ account' \in {account, Inserted(m, p)}
    BY <1>2 DEF InsertUser
  <2>2. CASE account' = account
    BY <2>1, <2>2
  <2>3. CASE account' # account
    <3>1. m # Blank /\ account[m] = None /\ account' = [account EXCEPT ![m] = p]
      BY <2>1, <2>3 DEF Inserted, HasAccount
    <3>2. m \in Mails /\ p \in Passwds \cup {Blank}
      BY <3>1, StmtTypes
    <3>3. Book!Open(m, p)
      BY <2>1, <3>1 DEF Book!Open
    <3> QED BY <3>2, <3>3 DEF Book!Next
  <2> QED BY <2>2, <2>3
<1>3. ASSUME NEW w \in Workers, InsertInfo(w) PROVE [Book!Next]_<<account, info>>
  <2> DEFINE m == job[w].stmt.mail
  <2>1. account' = account /\ info' \in {info, InfoInserted(m)}
    BY <1>3 DEF InsertInfo
  <2>2. CASE info' = info
    BY <2>1, <2>2
  <2>3. CASE info' # info
    <3>1. m # Blank /\ account[m] # None /\ info' = [info EXCEPT ![m] = Book!More(@)]
      BY <2>1, <2>3 DEF InfoInserted, HasAccount
    <3>2. m \in Mails
      BY <3>1, StmtTypes
    <3>3. Book!AddProfile(m)
      BY <2>1, <3>1 DEF Book!AddProfile
    <3> QED BY <3>2, <3>3 DEF Book!Next
  <2> QED BY <2>2, <2>3
<1>4. CASE ~UNCHANGED tables
  <2>1. \E w \in Workers : InsertUser(w) \/ InsertInfo(w)
    <3>1. \A w \in Workers : WorkerStep(w) => InsertUser(w) \/ InsertInfo(w)
      BY <1>4 DEF WorkerStep, ProfileMail, GetUserInfo, CheckMail, CheckUserInfo, Compare,
         InsertMail, InsertPasswd, InfoMail, SendMail, IncLoad, IncStore, ModLoad,
         ModStore, Reply
    <3> QED BY <1>4, <3>1 DEF Next, vars, Clear, ReceiveOther, Receive, Crash, Restart
  <2> QED BY <1>2, <1>3, <2>1
<1> QED BY <1>1, <1>4

(* mysql_operation.c:72-119 with the keys of meta/: whatever fails, races  *)
(* or is cut short, an account keeps the password it was opened with, and  *)
(* a profile is only ever added to an account that is open.                *)
THEOREM BookKept == Spec => BookSpec
<1> QED BY InitBook, TypeCorrect, StepBook, PTL DEF Spec, BookSpec, Book!Spec
=============================================================================
