------------------------- MODULE MCThresholdQueue -------------------------
(* Calls of Grow for ThresholdQueue.                                       *)
EXTENDS ThresholdQueue
NoGrows == {}
SomeGrows == {<<3, 1>>, <<2, 2>>}
====
