---------------------------- MODULE BoundedFifo ----------------------------
(***************************************************************************)
(* What a queue promises, whatever its storage: the elements come out in   *)
(* the order they were put in, none is lost, changed or repeated, there    *)
(* are never more of them than the length of the queue, and the length     *)
(* never shrinks.  Reads and writes move several elements at once.         *)
(***************************************************************************)
EXTENDS Integers, Sequences

VARIABLES items, length

vars == <<items, length>>

Init == items = <<>> /\ length \in Nat

Put ==
  /\ Len(items') \in Len(items) .. length
  /\ items = SubSeq(items', 1, Len(items))
  /\ UNCHANGED length

Take ==
  /\ \E n \in 0 .. Len(items) : items' = SubSeq(items, n + 1, Len(items))
  /\ UNCHANGED length

Grow == length' \in Nat /\ length' >= length /\ UNCHANGED items

Next == Put \/ Take \/ Grow

Spec == Init /\ [][Next]_vars
====
