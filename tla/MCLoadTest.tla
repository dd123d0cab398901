----------------------------- MODULE MCLoadTest -----------------------------
(* A run is one load test on this machine, or one distributed load test.   *)
EXTENDS LoadTest, DistributedLoad

MCLoads == [concurrency : {0, 1, 3}, ramped : BOOLEAN]
MCRequests == [nodes : 1 .. 3, concurrency : {0, 2, 4}]

Here  == LoadInit /\ request = [nodes |-> 0, concurrency |-> 0] /\ phase = "off"
           /\ measured = <<>> /\ joined = Empty
There == DistInit /\ LoadStarts("returned") /\ load = [concurrency |-> 0, ramped |-> FALSE]

Init == Here \/ There

Next ==
  \/ phase = "off" /\ LoadNext /\ UNCHANGED distVars
  \/ DistNext /\ UNCHANGED loadVars

Spec == Init /\ [][Next]_<<loadVars, distVars>> /\ LoadFairness
=============================================================================
