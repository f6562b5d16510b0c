------------------------------ MODULE MCD4R ------------------------------
(* Small process networks for D4R.                                         *)
EXTENDS D4R
CONSTANTS q1, q2, q3

(* A request and a reply queue between two nodes.                          *)
LoopReader == [q \in Queue |-> IF q = q1 THEN 2 ELSE 1]
LoopWriter == [q \in Queue |-> IF q = q1 THEN 1 ELSE 2]

(* Node 1 writes to node 2 directly and through node 3.  An artificial     *)
(* deadlock has one or two nodes blocked on full queues, of different      *)
(* lengths.                                                                *)
TriReader == [q \in Queue |-> IF q = q2 THEN 3 ELSE 2]
TriWriter == [q \in Queue |-> IF q = q3 THEN 3 ELSE 1]
TriLength == [q \in Queue |-> IF q = q3 THEN 3 ELSE 2]

UnitLength == [q \in Queue |-> 1]
====
