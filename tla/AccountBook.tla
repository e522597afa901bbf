----------------------------- MODULE AccountBook -----------------------------
(***************************************************************************)
(* What the two tables of meta/ promise whoever runs statements on them:   *)
(* an account is opened once and keeps its password for good, and profiles *)
(* are only ever added, to accounts that are open.                         *)
(***************************************************************************)
EXTENDS Naturals

CONSTANTS
  Mails,       \* addresses
  Passwds,     \* passwords
  None         \* the password of an account that is not open

VARIABLES
  account,     \* check_user_t: c_mail, its primary key, to c_passwd
  info         \* user_info_t: rows per address, 2 for two or more

Many == 2
More(n) == IF n = Many THEN Many ELSE n + 1

Init ==
  /\ account = [m \in Mails |-> None]
  /\ info = [m \in Mails |-> 0]

Open(m, p) ==
  /\ account[m] = None
  /\ account' = [account EXCEPT ![m] = p]
  /\ UNCHANGED info

AddProfile(m) ==
  /\ account[m] # None
  /\ info' = [info EXCEPT ![m] = More(@)]
  /\ UNCHANGED account

Next == \E m \in Mails : AddProfile(m) \/ \E p \in Passwds : Open(m, p)

Spec == Init /\ [][Next]_<<account, info>>
=============================================================================
