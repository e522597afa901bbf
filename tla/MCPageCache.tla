----------------------------- MODULE MCPageCache -----------------------------
(* Instances of PageCache for TLC.                                         *)
EXTENDS PageCache, TLC

CONSTANTS w1, w2, w3, page, picture

TwoWorkers   == {w1, w2}
ThreeWorkers == {w1, w2, w3}

OnePage    == {page}
OnePicture == {picture}

AllFaults == {"web", "short", "sigpipe", "crash"}

(* Workers run the same code.                                              *)
Symmetry == Permutations(Workers)
=============================================================================
