--------------------------- MODULE MCRemoteQueue ---------------------------
(* Constants for RemoteQueue: half of the length at each side, and a call  *)
(* of Grow.                                                                *)
EXTENDS RemoteQueue
Even == <<1, 2>>
ToFour == {<<4, 1>>}

(* A bound: two bytes are followed, and a call for a third that may block. *)
(* The first tags have arrived before the nodes make their first calls.  A *)
(* queue that has grown, for a threshold, for its peer or by a call, is    *)
(* followed without new tags; with two bytes, it or one with a new tag is  *)
(* followed until an end shuts.                                            *)
Grown == \E h \in Half : q[h].max > InitMaxThreshold \/ q[h].wlen > 1
NewTag == q["read"].tag + q["write"].tag > 2
Followed ==
  /\ written <= 2
  /\ (\E h \in Half : q[h].mock = 0) => \A h \in Half : q[h].pc = "idle" /\ ~Grown
  /\ ~(Grown /\ NewTag)
  /\ (Grown \/ NewTag) /\ written = 2 => \A h \in Half : q[h].shut = {} /\ q[h].pc # "ending"
====
