----------------------------- MODULE MCNewsIndex -----------------------------
(* Instances of NewsIndex for TLC.                                         *)
EXTENDS NewsIndex, TLC

CONSTANTS a, b, c, w1, w2

TwoUrls   == {a, b}
ThreeUrls == {a, b, c}

(* Two items collide; a third, where there is one, has its own bucket.     *)
SomeCollide == [u \in Urls |-> IF u = c THEN 1 ELSE 0]
AllCollide  == [u \in Urls |-> 0]

NoWorkers  == {}
OneWorker  == {w1}
TwoWorkers == {w1, w2}

OneDay   == <<<<1, 11>>>>
FourDays == <<<<1, 10>>, <<1, 11>>, <<1, 12>>, <<11, 1>>>>   \* "111" twice

NoBlacklist   == {}
Blacklisted   == {b}
=============================================================================
