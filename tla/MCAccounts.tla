----------------------------- MODULE MCAccounts -----------------------------
(* Instances of Accounts for TLC.                                          *)
EXTENDS Accounts, TLC

CONSTANTS w1, w2, m1, m2, p1, p2

TwoWorkers == {w1, w2}
TwoMails   == {m1, m2}
TwoPasswds == {p1, p2}

AllFaults == {"sql", "fetch", "sigpipe", "crash"}

(* Workers run the same code; addresses and passwords are only compared.   *)
Symmetry == Permutations(Workers) \cup Permutations(Mails) \cup Permutations(Passwds)
=============================================================================
