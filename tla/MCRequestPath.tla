---------------------------- MODULE MCRequestPath ----------------------------
(* Instances of RequestPath for TLC.                                       *)
EXTENDS RequestPath, TLC

CONSTANTS c1, c2, c3, t1, t2, t3

TwoClients   == {c1, c2}
ThreeClients == {c1, c2, c3}
TwoTasks     == {t1, t2}
ThreeTasks   == {t1, t2, t3}

NoFaults  == {}
AllFaults == FaultKinds

LoudKinds  == {"login", "news", "old"}   \* the handlers read from the client too
QuietKinds == {"varify", "register", "search", "video", "picture", "update"}
FewKinds   == {"varify", "picture"}

Symmetry == Permutations(Clients)
=============================================================================
