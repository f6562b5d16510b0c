-------------------------- MODULE MCRemoteContext --------------------------
(* Small networks of two processes for RemoteContext.                       *)
EXTENDS RemoteContext
CONSTANTS one, two

Names == {"", "A", "B", "n", "w", "r"}
Do(op, name, of) == [op |-> op, name |-> name, of |-> of]

(* Process one has the kernel B of process two run a node, connects an     *)
(* endpoint of it to itself, and terminates once the node has ended;       *)
(* process two makes the kernel and waits.                                 *)
Network ==
  [mainA |-> <<Do("setup", "A", ""), Do("waitkernel", "B", ""), Do("nodekey", "n", "B"),
               Do("create", "n", "B"), Do("waitstart", "n", ""), Do("endpoint", "w", "n"),
               Do("endpoint", "r", "n"), Do("connect", "w", "r"),
               Do("endpointinfo", "r", ""), Do("log", "", ""), Do("waitend", "n", ""),
               Do("waitall", "", ""), Do("terminate", "", "")>>,
   A     |-> <<Do("spawned", "A", ""), Do("kernelstart", "A", ""), Do("told", "A", ""),
               Do("kernelend", "A", "")>>,
   mainB |-> <<Do("setup", "B", "")>>,
   B     |-> <<Do("spawned", "B", ""), Do("kernelstart", "B", ""), Do("told", "B", ""),
               Do("kernelend", "B", "")>>,
   n     |-> <<Do("spawned", "n", ""), Do("nodestart", "n", ""), Do("nodeend", "n", "")>>]
NetworkHome == [mainA |-> one, A |-> one, mainB |-> two, B |-> two, n |-> two]
====
