------------------------- MODULE MCSerialDispatcher -------------------------
(* Instances for TLC: items without weight before and between others, and  *)
(* no weight at all.                                                       *)
EXTENDS SerialDispatcher

MCModes == {"sequential", "random", "weighted"}
MCWeightVectors == {<<0, 1, 0, 2>>, <<0, 0, 0>>}
=============================================================================
