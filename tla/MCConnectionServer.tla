------------------------- MODULE MCConnectionServer -------------------------
(* Two kernels and a queue between them.                                   *)
EXTENDS ConnectionServer, TLC
CONSTANTS k1, k2, q1

OneWay == q1 :> [read |-> k2, write |-> k1]
====
