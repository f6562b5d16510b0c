----------------------- MODULE MCThresholdQueueBase -----------------------
(* Calls of Grow for ThresholdQueueBase: longer, with a larger threshold,  *)
(* and both.                                                               *)
EXTENDS ThresholdQueueBase
Grows == {<<4, 2>>, <<3, 3>>, <<5, 4>>}
====
