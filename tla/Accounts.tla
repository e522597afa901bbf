------------------------------ MODULE Accounts ------------------------------
(***************************************************************************)
(* The handlers of an account: deal_varify_code_request,                   *)
(* deal_register_request and deal_login_request, with the statements of    *)
(* mysql_operation.c on the tables of meta/*.sql and with send_mail.       *)
(*                                                                         *)
(* A handler's argument is main's szRecvBuff, which main clears and fills  *)
(* again for the next request while handlers run (RequestPath.tla), so a   *)
(* statement takes the address, and then the password, that are there when *)
(* it is put together: `buf'.                                              *)
(*                                                                         *)
(* Grain.  Main's bzero and read, each field a statement takes from the    *)
(* buffer, each statement, the comparison of the password and each access  *)
(* to nConfigIndex are steps.  Every statement commits by itself.  Which   *)
(* connection it runs on is ConnPool's matter: here a handler has its own. *)
(*                                                                         *)
(* MySQL is external.  Rows are kept for the addresses clients use; a      *)
(* statement on what else may be in the buffer, Blank, may go either way.  *)
(***************************************************************************)
EXTENDS Naturals, FiniteSets

CONSTANTS
  Workers,     \* pool threads running a handler
  Mails,       \* addresses the clients use
  Passwds,     \* passwords the clients use
  None,        \* no password
  Blank,       \* a field with zero bytes or text of another layout
  Faults       \* the environment events that may happen, see FaultKinds

FaultKinds ==
  { "sql",      \* mysql_query fails, whether or not the server ran it
    "fetch",    \* mysql_fetch_row fails: NULL, as for no row
    "sigpipe",  \* the client is gone when the handler replies
    "crash" }   \* the process ends; the operator starts it again

ASSUME AccountsAssumption ==
  /\ None \notin Passwds \cup Workers /\ Blank \notin Passwds \cup Mails
  /\ None # Blank
  /\ Faults \subseteq FaultKinds

Kinds   == {"varify", "register", "login"}
Fields  == [mail : Mails \cup {Blank}, passwd : Passwds \cup {Blank}]
Nothing == [mail |-> Blank, passwd |-> Blank]

VARIABLES
  up,              \* the process runs
  account, info,   \* the tables, see AccountBook
  index,           \* nConfigIndex, the mail account send_mail uses next
  mpc, buf,        \* main, and szRecvBuff
  pc, job,         \* per worker: where it is, its handler's locals
  own,             \* history: the task that the buffer belongs to
  hurt             \* history: a registration failed, was cut short, or wrote
                   \* what was no longer its request

tables == <<account, info>>
vars   == <<up, tables, index, mpc, buf, pc, job, own, hurt>>

Book == INSTANCE AccountBook WITH Passwds <- Passwds \cup {Blank}

PCs == {"idle", "dead", "reply",
        "profile", "get_info", "check", "select", "compare",
        "mail", "passwd", "insert", "info", "insert_info",
        "send", "inc_load", "inc_store", "mod_load", "mod_store"}
Results == {"none", "not_exist", "exist", "wrong", "right", "success", "code"}

ConfigLen == 2         \* entries of pConfig
Indices   == 0 .. 2 * ConfigLen - 1

(* stmt: the fields of the statement the handler builds or runs.  row: the *)
(* password a select has returned.  reg: nConfigIndex in a register.       *)
Jobs == [kind : Kinds, stmt : Fields, row : Passwds \cup {None, Blank}, reg : Indices,
         result : Results]
NoJob == [kind |-> "varify", stmt |-> Nothing, row |-> None, reg |-> 0, result |-> "none"]

(* by: the worker whose request is in the buffer, and none of whose calls  *)
(* to MySQL has failed; alone: no other registration runs beside it;       *)
(* known: its account was complete when it asked.                          *)
Owners  == [by : Workers \cup {None}, alone : BOOLEAN, known : BOOLEAN]
NoOwner == [by |-> None, alone |-> FALSE, known |-> FALSE]

TypeOK ==
  /\ up \in BOOLEAN
  /\ account \in [Mails -> Passwds \cup {None, Blank}]
  /\ info \in [Mails -> 0 .. Book!Many]
  /\ index \in Indices
  /\ mpc \in {"wait", "read"}
  /\ buf \in Fields
  /\ pc \in [Workers -> PCs]
  /\ job \in [Workers -> Jobs]
  /\ own \in Owners
  /\ hurt \in BOOLEAN

Init ==
  /\ Book!Init
  /\ up = TRUE /\ hurt = FALSE
  /\ index = 0
  /\ mpc = "wait" /\ buf = Nothing
  /\ pc = [w \in Workers |-> "idle"]
  /\ job = [w \in Workers |-> NoJob]
  /\ own = NoOwner

(* w's step to l, at the end of which its locals are j.                    *)
At(w, l)      == up /\ pc[w] = l
Goto(w, l, j) == /\ pc' = [pc EXCEPT ![w] = l]
                 /\ job' = [job EXCEPT ![w] = j]
                 /\ UNCHANGED <<up, mpc, buf>>

-----------------------------------------------------------------------------
(* main: bzero, then read and handle_request.  A request that is none of   *)
(* the three leaves text of its own layout in the buffer.                  *)

Clear ==
  /\ up /\ mpc = "wait"
  /\ mpc' = "read"
  /\ buf' = Nothing
  /\ own' = NoOwner
  /\ UNCHANGED <<up, tables, index, pc, job, hurt>>

ReceiveOther ==
  /\ up /\ mpc = "read"
  /\ mpc' = "wait"
  /\ UNCHANGED <<up, tables, index, buf, pc, job, own, hurt>>

Registering(w) == pc[w] \notin {"idle", "dead"} /\ job[w].kind = "register"

FirstStep(k) == CASE k = "varify"   -> "send"
                  [] k = "register" -> "check"
                  [] k = "login"    -> "profile"

Receive(w, k, m, p) ==
  /\ up /\ mpc = "read"
  /\ pc[w] = "idle"
  /\ k = "varify" <=> p = Blank
  /\ mpc' = "wait"
  /\ buf' = [mail |-> m, passwd |-> p]
  /\ pc' = [pc EXCEPT ![w] = FirstStep(k)]
  /\ job' = [job EXCEPT ![w].kind = k]
  /\ own' = [by |-> w, alone |-> \A u \in Workers : ~Registering(u),
             known |-> account[m] = p /\ info[m] > 0]
  /\ UNCHANGED <<up, tables, index, hurt>>

-----------------------------------------------------------------------------
(* Statements.  A select on m finds a row if there is one, unless the      *)
(* fetch fails; p is the password in it.                                   *)

HasAccount(m) == m # Blank /\ account[m] # None
HasInfo(m)    == m # Blank /\ info[m] > 0

Fetches(m, there) ==
  IF m = Blank \/ (there /\ "fetch" \in Faults) THEN BOOLEAN ELSE {there}
Returned(m, found) ==
  IF ~found THEN {None} ELSE IF m = Blank THEN Passwds \cup {Blank} ELSE {account[m]}

(* insert ignore: the primary key keeps the row that is there.             *)
Replaced(m, p) ==                                                 \* mutant
  IF m = Blank THEN account ELSE [account EXCEPT ![m] = p]
NotCommitted(m, p) == account                                     \* mutant
Inserted(m, p) ==
  IF m = Blank \/ HasAccount(m) THEN account ELSE [account EXCEPT ![m] = p]

(* insert ignore: without the account the foreign key refuses the row.     *)
InfoRefused(m) == info                                            \* mutant
InfoInserted(m) ==
  IF ~HasAccount(m) THEN info ELSE [info EXCEPT ![m] = Book!More(@)]

Result(w, r)  == [NoJob EXCEPT !.kind = job[w].kind, !.result = r]
TakeMail(w)   == [job[w] EXCEPT !.stmt.mail = buf.mail]
TakePasswd(w) == [job[w] EXCEPT !.stmt.passwd = buf.passwd]
Disown(w)     == own' = IF own.by = w THEN NoOwner ELSE own

-----------------------------------------------------------------------------
(* deal_login_request: get_user_info, then check_user_info.                *)

ProfileMail(w) ==
  /\ At(w, "profile")
  /\ Goto(w, "get_info", TakeMail(w))
  /\ UNCHANGED <<tables, index, own, hurt>>

(* Only an answer without a row ends the login here.                       *)
GetUserInfo(w) ==
  /\ At(w, "get_info")
  /\ LET m == job[w].stmt.mail IN
       \/ "sql" \in Faults /\ Goto(w, "check", job[w]) /\ Disown(w)
       \/ \E found \in Fetches(m, HasInfo(m)) :
            /\ IF found THEN Goto(w, "check", job[w])
                        ELSE Goto(w, "reply", Result(w, "not_exist"))
            /\ IF HasInfo(m) /\ ~found THEN Disown(w) ELSE UNCHANGED own
  /\ UNCHANGED <<tables, index, hurt>>

CheckMail(w) ==
  /\ At(w, "check")
  /\ Goto(w, "select", TakeMail(w))
  /\ UNCHANGED <<tables, index, own, hurt>>

(* check_user_info, and what the handlers make of it: a login is refused   *)
(* for a wrong password only, a registration goes on only without a row.   *)
CheckUserInfo(w) ==
  /\ At(w, "select")
  /\ LET m     == job[w].stmt.mail
         login == job[w].kind = "login"
     IN \/ /\ "sql" \in Faults
           /\ Goto(w, "reply", Result(w, IF login THEN "right" ELSE "exist"))
           /\ Disown(w)
           /\ UNCHANGED hurt
        \/ \E found \in Fetches(m, HasAccount(m)), p \in Passwds \cup {None, Blank} :
             LET missed == HasAccount(m) /\ ~found IN
             /\ p \in Returned(m, found)
             /\ CASE found /\ login   -> Goto(w, "compare", [job[w] EXCEPT !.row = p])
                  [] found /\ ~login  -> Goto(w, "reply", Result(w, "exist"))
                  [] ~found /\ login  -> Goto(w, "reply", Result(w, "right"))
                  [] ~found /\ ~login -> Goto(w, "mail", job[w])
             /\ IF missed THEN Disown(w) ELSE UNCHANGED own
             /\ hurt' = (hurt \/ (missed /\ ~login))
  /\ UNCHANGED <<tables, index>>

PasswdIgnored(w) == TRUE                                          \* mutant
SamePasswd(w)    == job[w].row = buf.passwd

Compare(w) ==
  /\ At(w, "compare")
  /\ Goto(w, "reply", Result(w, IF SamePasswd(w) THEN "right" ELSE "wrong"))
  /\ UNCHANGED <<tables, index, own, hurt>>

-----------------------------------------------------------------------------
(* deal_register_request: insert_user, whose result it does not look at.   *)

Lapsed(w) == hurt' = (hurt \/ own.by # w)

InsertMail(w) ==
  /\ At(w, "mail")
  /\ Goto(w, "passwd", TakeMail(w))
  /\ Lapsed(w)
  /\ UNCHANGED <<tables, index, own>>

InsertPasswd(w) ==
  /\ At(w, "passwd")
  /\ Goto(w, "insert", TakePasswd(w))
  /\ Lapsed(w)
  /\ UNCHANGED <<tables, index, own>>

(* The first insert; when it fails insert_user returns.                    *)
InsertUser(w) ==
  /\ At(w, "insert")
  /\ LET new == Inserted(job[w].stmt.mail, job[w].stmt.passwd) IN
       \/ /\ account' = new
          /\ Goto(w, "info", job[w])
          /\ UNCHANGED <<own, hurt>>
       \/ /\ "sql" \in Faults
          /\ account' \in {account, new}
          /\ Goto(w, "reply", Result(w, "success"))
          /\ Disown(w) /\ hurt' = TRUE
  /\ UNCHANGED <<info, index>>

InfoMail(w) ==
  /\ At(w, "info")
  /\ Goto(w, "insert_info", TakeMail(w))
  /\ Lapsed(w)
  /\ UNCHANGED <<tables, index, own>>

InsertInfo(w) ==
  /\ At(w, "insert_info")
  /\ LET new == InfoInserted(job[w].stmt.mail) IN
       \/ /\ info' = new
          /\ Goto(w, "reply", Result(w, "success"))
          /\ UNCHANGED <<own, hurt>>
       \/ /\ "sql" \in Faults
          /\ info' \in {info, new}
          /\ Goto(w, "reply", Result(w, "success"))
          /\ Disown(w) /\ hurt' = TRUE
  /\ UNCHANGED <<account, index>>

-----------------------------------------------------------------------------
(* deal_varify_code_request: send_mail takes the configuration at          *)
(* nConfigIndex, runs mail, and moves the index on in two statements that  *)
(* each load and store it.  An index past the end reads what is there: the *)
(* process ends (Crash), or the mail goes out with that text.              *)

SendMail(w) ==
  /\ At(w, "send")
  /\ Goto(w, "inc_load", job[w])
  /\ UNCHANGED <<tables, index, own, hurt>>

(* Two threads that take turns drive the index up without limit; past the  *)
(* end only its remainder tells, so that the model keeps it in 0 .. 3.     *)
Near(i) == IF i < 2 * ConfigLen THEN i ELSE i - ConfigLen

IncLoad(w) ==
  /\ At(w, "inc_load")
  /\ Goto(w, "inc_store", [job[w] EXCEPT !.reg = Near(index + 1)])
  /\ UNCHANGED <<tables, index, own, hurt>>

IncStore(w) ==
  /\ At(w, "inc_store")
  /\ index' = job[w].reg
  /\ Goto(w, "mod_load", [job[w] EXCEPT !.reg = 0])
  /\ UNCHANGED <<tables, own, hurt>>

WrappedPast(i) == i - ConfigLen                                   \* mutant
WrappedLate(i) == IF i > ConfigLen THEN 0 ELSE i                  \* mutant
Wrapped(i)     == i % ConfigLen

ModLoad(w) ==
  /\ At(w, "mod_load")
  /\ Goto(w, "mod_store", [job[w] EXCEPT !.reg = Wrapped(index)])
  /\ UNCHANGED <<tables, index, own, hurt>>

ModStore(w) ==
  /\ At(w, "mod_store")
  /\ index' = job[w].reg
  /\ Goto(w, "reply", Result(w, "code"))
  /\ UNCHANGED <<tables, own, hurt>>

-----------------------------------------------------------------------------
(* The write of the reply, which ends the handler, or its thread.          *)
Reply(w) ==
  /\ At(w, "reply")
  /\ \/ Goto(w, "idle", NoJob)
     \/ "sigpipe" \in Faults /\ Goto(w, "dead", NoJob)
  /\ Disown(w)
  /\ UNCHANGED <<tables, index, hurt>>

(* The process ends, by a read past pConfig or by anything else.           *)
Crash ==
  /\ up /\ up' = FALSE
  /\ \/ "crash" \in Faults
     \/ \E w \in Workers : pc[w] = "send" /\ index >= ConfigLen
  /\ hurt' = (hurt \/ \E w \in Workers : pc[w] \in {"info", "insert_info"})
  /\ mpc' = "wait" /\ buf' = Nothing /\ own' = NoOwner
  /\ pc' = [w \in Workers |-> "idle"]
  /\ job' = [w \in Workers |-> NoJob]
  /\ index' = 0
  /\ UNCHANGED tables

Restart ==
  /\ ~up /\ up' = TRUE
  /\ UNCHANGED <<tables, index, mpc, buf, pc, job, own, hurt>>

-----------------------------------------------------------------------------
WorkerStep(w) ==
  \/ ProfileMail(w) \/ GetUserInfo(w) \/ CheckMail(w) \/ CheckUserInfo(w) \/ Compare(w)
  \/ InsertMail(w) \/ InsertPasswd(w) \/ InsertUser(w) \/ InfoMail(w) \/ InsertInfo(w)
  \/ SendMail(w) \/ IncLoad(w) \/ IncStore(w) \/ ModLoad(w) \/ ModStore(w)
  \/ Reply(w)

Next ==
  \/ Clear \/ ReceiveOther
  \/ \E w \in Workers, k \in Kinds, m \in Mails, p \in Passwds \cup {Blank} :
       Receive(w, k, m, p)
  \/ \E w \in Workers : WorkerStep(w)
  \/ Crash \/ Restart

Spec == Init /\ [][Next]_vars

-----------------------------------------------------------------------------
(* Properties.                                                             *)

(* A request that had the buffer to itself and whose queries all ran.      *)
Fair(w) == pc[w] = "reply" /\ own.by = w

(* deal_login_request.c:29-57: such a login is let in only with the        *)
(* password of the account, whatever registrations of it go on meanwhile,  *)
(* and always with it once the account is complete.                        *)
LoginSound ==
  \A w \in Workers : Fair(w) /\ job[w].kind = "login" =>
    /\ job[w].result = "right" => account[buf.mail] = buf.passwd
    /\ own.known => job[w].result = "right"

(* deal_register_request.c:24-32: what such a registration is told is true *)
(* of the tables: with `exist' and with `success' the address is taken,    *)
(* and with no other registration beside it `success' means that its own   *)
(* password is in and that the account has exactly one profile.            *)
RegisterSound ==
  \A w \in Workers : Fair(w) /\ job[w].kind = "register" =>
    /\ account[buf.mail] # None
    /\ own.alone /\ job[w].result = "success" =>
         account[buf.mail] = buf.passwd /\ info[buf.mail] = 1

(* mysql_operation.c:72-119: the two inserts are no transaction.  Every    *)
(* account has its one profile, or a registration is about to add it: only *)
(* one that failed, was cut short or lost its buffer leaves an account     *)
(* that can neither be registered again nor log in.                        *)
AboutToAdd(m) ==
  \E w \in Workers : /\ pc[w] \in {"info", "insert_info"}
                     /\ job[w].stmt.mail = m
WholeAccounts ==
  ~hurt => \A m \in Mails :
    /\ info[m] <= 1
    /\ account[m] # None /\ info[m] = 0 => AboutToAdd(m)

(* mail_operation.c:26-44: the index of the mail account is past the table *)
(* only while a thread is between the increment and the store of the       *)
(* remainder, so that a mail sent alone never reads past it.               *)
IndexWraps ==
  index >= ConfigLen => \E w \in Workers : pc[w] \in {"mod_load", "mod_store"}

(* The handlers are users of the two tables, crashes included: a password  *)
(* once set is never replaced, not even by registrations that all found    *)
(* the address free, and there is no profile without an account.           *)
BookSpec == Book!Spec
=============================================================================
