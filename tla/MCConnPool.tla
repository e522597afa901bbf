----------------------------- MODULE MCConnPool -----------------------------
(* TLC instances of ConnPool; the cfg files choose the constants.          *)
EXTENDS ConnPool, TLC

CONSTANTS w1, w2, w3

TwoWorkers   == {w1, w2}
ThreeWorkers == {w1, w2, w3}

(* Workers run the same code.                                              *)
Symmetry == Permutations(Workers)

NoFaults  == {}
Deaths    == {"sigpipe", "refused"}
Drops     == {"dropped", "refused"}
=============================================================================
