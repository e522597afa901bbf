---------------------------- MODULE MCThreadPool ----------------------------
(* TLC instances of ThreadPool; the cfg files choose the constants.        *)
EXTENDS ThreadPool, TLC

CONSTANTS t1, t2, t3, main

TwoTasks   == {t1, t2}
ThreeTasks == {t1, t2, t3}
OneCaller  == {main}

(* Tasks are interchangeable labels.                                       *)
Symmetry == Permutations(Tasks)

NoFaults   == {}
SigPipes   == {"sigpipe", "updater_sigpipe", "spurious"}
EveryFault == FaultKinds
=============================================================================
