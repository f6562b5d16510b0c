----------------------------- MODULE MCKernel -----------------------------
(* Small process networks for Kernel.                                      *)
EXTENDS Kernel, TLC
CONSTANTS main, other, a, b, x, q1

(* A queue from a to the external endpoint x; from a to itself.            *)
Output == q1 :> ("read" :> x @@ "write" :> a)
Self   == q1 :> ("read" :> a @@ "write" :> a)
====
