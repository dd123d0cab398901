------------------------------ MODULE MCFleet ------------------------------
(* One worker per host at most, one rented and one static provider; the    *)
(* rented hosts live for one tick, the static ones for ever or for one; or *)
(* a fleet that names one provider twice, with another time to live.       *)
EXTENDS Fleet

CONSTANTS cloud, static, w1, w2

MCFleets ==
  {<<[provider |-> cloud, weight |-> 60, ttl |-> 1],
     [provider |-> static, weight |-> 40, ttl |-> t]>> : t \in {0, 1}}
    \cup {<<[provider |-> cloud, weight |-> 0, ttl |-> 0],
            [provider |-> cloud, weight |-> 0, ttl |-> 1]>>}

MCWorkers == {w1, w2}
MCSymmetry == Permutations(MCWorkers)
============================================================================
