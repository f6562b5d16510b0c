--------------------------- MODULE RemoteContext ---------------------------
(***************************************************************************)
(* The context of a process network that spans several processes: the      *)
(* clients (CPN::RemoteContextClient over the socket of RemoteContext),    *)
(* one per process, and the server (CPN::RemoteContextServer in            *)
(* RemoteContextDaemon) that keeps what all of them know.                  *)
(*                                                                         *)
(* A client has threads of its program, which call the context; a reader   *)
(* thread (RemoteContext::EntryPoint), which dispatches what the server    *)
(* sends; and a thread that InternalTerminate starts.  Each holds the      *)
(* client's lock from where it enters to where it waits or returns, and    *)
(* that is one action here.  The server is one thread: an action of its    *)
(* own for each message.  A socket is one sequence of messages in each     *)
(* direction, never full.                                                  *)
(*                                                                         *)
(* Keys stand for the names they were made from: the server never makes    *)
(* two keys of a kind for one name, nor forgets one.  The kernel behind    *)
(* the context is here only what it asks of it: when it starts a thread    *)
(* for a node, when it is told to terminate, and when it signals its end.  *)
(***************************************************************************)
EXTENDS Integers, Sequences, FiniteSets

CONSTANTS
  Client,   \* processes
  Name,     \* names of kernels, nodes and endpoints, with the empty one
  Thread,   \* threads of the programs
  Home,     \* Home[t]: the process that t runs in
  Program,  \* Program[t]: the sequence of steps of t
  Crashes   \* the processes that may crash

(* The operations a step may name, by what they do to the caller.          *)
CallOps == {"setup", "kernelinfo", "nodekey", "nodeinfo", "endpoint",
            "endpointinfo"}
WaitOps == {"waitkernel", "waitstart", "waitend", "waitall"}
SendOps == {"kernelstart", "nodestart", "create", "connect"}
LastOps == {"kernelend", "nodeend"}  \* send without a look at shutdown
LocalOps == {"spawned", "told", "log", "terminate"}
Ops == CallOps \cup WaitOps \cup SendOps \cup LastOps \cup LocalOps

ASSUME ProgramAssumption ==
  /\ Home \in [Thread -> Client] /\ Crashes \subseteq Client /\ "" \in Name
  /\ Program \in [Thread -> Seq([op : Ops, name : Name, of : Name])]

VARIABLES
  cl,     \* cl[c]: the state of the client c
  th,     \* th[t]: the state of the thread t
  up,     \* up[c]: what c has sent and the server has not read
  down,   \* down[c]: what the server has sent and c has not read
  srv,    \* the state of the server
  failed  \* the ASSERTs that have failed

vars == <<cl, th, up, down, srv, failed>>

(* A client that has just connected.                                       *)
Started == [shutdown |-> FALSE, tran |-> 0, kernels |-> {}, calls |-> {},
            endwrite |-> FALSE, term |-> FALSE, running |-> {}, told |-> {},
            got |-> {}, crashed |-> FALSE]

(* The step a thread is at, and the client it belongs to.                  *)
Ended(t)     == th[t].pc > Len(Program[t])
StepOf(t)    == Program[t][th[t].pc]
ThreadsOf(c) == {t \in Thread : Home[t] = c}

(* The map f with x mapped to v.                                           *)
Put(f, x, v) == [y \in DOMAIN f \cup {x} |-> IF y = x THEN v ELSE f[y]]

-----------------------------------------------------------------------------
(* Messages.  flags holds the fields of a kernelinfo or nodeinfo that are  *)
(* true; live is numlivenodes.                                             *)

Request(s, id) == [type |-> s.op, id |-> id, name |-> s.name, of |-> s.of]
Note(type) == [type |-> type, id |-> 0, ok |-> TRUE, kind |-> "none",
               name |-> "", flags |-> {}, live |-> 0]
Reply(m, ok, kind, flags) ==
  [type |-> "reply", id |-> m.id, ok |-> ok, kind |-> kind,
   name |-> m.name, flags |-> flags, live |-> srv.live]

(* Mutant of Sought: WaitForNodeEnd looks at the wrong field.              *)
SoughtStarted(op) == CASE op = "waitkernel" -> <<"kernel", "live">>
                       [] op \in {"waitstart", "waitend"} -> <<"node", "started">>
                       [] OTHER             -> <<"none", "none">>

(* The info a waiter looks for: kind and field.                            *)
Sought(op) == CASE op = "waitkernel" -> <<"kernel", "live">>
                [] op = "waitstart"  -> <<"node", "started">>
                [] op = "waitend"    -> <<"node", "dead">>
                [] OTHER             -> <<"none", "none">>

(* Mutant of Wanted: any info about the name will do.                      *)
WantedKnown(s, m) ==
  IF s.op = "waitall" THEN m.live = 0
  ELSE m.kind = Sought(s.op)[1] /\ m.name = s.name

(* Does the message, a reply or a broadcast, end the wait of step s?       *)
Wanted(s, m) ==
  IF s.op = "waitall" THEN m.live = 0
  ELSE /\ m.kind = Sought(s.op)[1] /\ Sought(s.op)[2] \in m.flags
       /\ m.name = s.name

-----------------------------------------------------------------------------
(* The client's side of a thread.                                          *)

Fresh(pc) == [pc |-> pc, st |-> "ready", id |-> 0, waiter |-> FALSE,
              signaled |-> FALSE, msg |-> Note("none"), box |-> <<>>,
              sig |-> FALSE]

(* The operation has returned: on to the next step.                        *)
Return(t) == Fresh(th[t].pc + 1)

(* The operation has thrown.  The threads of a kernel and of a node catch  *)
(* ShutdownException and go on to signal their end; SetupKernel throws     *)
(* before there is a kernel thread.                                        *)
Throw(t) ==
  LET rest == {i \in th[t].pc + 1..Len(Program[t]) : Program[t][i].op \in LastOps}
  IN  Fresh(IF rest = {} THEN Len(Program[t]) + 1
            ELSE CHOOSE i \in rest : \A j \in rest : i <= j)

(* WaitForNodeEnd and WaitForAllNodeEnd return when the context shuts down,*)
(* the other operations throw.                                             *)
Interrupted(t) == IF StepOf(t).op \in {"waitend", "waitall"}
                  THEN Return(t) ELSE Throw(t)

(* SendMessage of RemoteContext.  That a write to a server that has gone   *)
(* throws is left out: the message reaches nobody.                         *)
SendMessage(c, m) ==
  up' = IF cl[c].endwrite THEN up ELSE [up EXCEPT ![c] = Append(@, m)]

(* RemoteCall up to its wait; the wait operations first make a generic     *)
(* waiter (NewGenericWaiter).                                              *)
RemoteCall(t) ==
  LET c == Home[t]
  IN  /\ cl' = [cl EXCEPT ![c].tran = @ + 1, ![c].calls = @ \cup {<<cl[c].tran + 1, t>>}]
      /\ th' = [th EXCEPT ![t].st = "call", ![t].id = cl[c].tran + 1,
                          ![t].waiter = StepOf(t).op \in WaitOps]
      /\ SendMessage(c, Request(StepOf(t), cl[c].tran + 1))

(* Mutant of Signalled: the generic waiters are left alone.                *)
SignalledCalls(c) ==
  [t \in Thread |-> IF Home[t] = c /\ th[t].st = "call"
                    THEN [th[t] EXCEPT !.sig = TRUE] ELSE th[t]]

(* Every waiter of the client is signalled, as InternalTerminate does.     *)
Signalled(c) ==
  [t \in Thread |-> IF Home[t] = c /\ th[t].st \in {"call", "wait"}
                    THEN [th[t] EXCEPT !.sig = TRUE] ELSE th[t]]

InternalTerminate(c) ==
  IF cl[c].shutdown THEN UNCHANGED <<cl, th>>
  ELSE /\ cl' = [cl EXCEPT ![c].shutdown = TRUE, ![c].term = TRUE]
       /\ th' = Signalled(c)

At(t, ops) == ~Ended(t) /\ th[t].st = "ready" /\ StepOf(t).op \in ops

(* An operation that asks the server and waits for its answer.             *)
BeginCall(t) ==
  /\ At(t, CallOps \cup WaitOps)
  /\ IF cl[Home[t]].shutdown
     THEN th' = [th EXCEPT ![t] = Interrupted(t)] /\ UNCHANGED <<cl, up>>
     ELSE RemoteCall(t)
  /\ UNCHANGED <<down, srv, failed>>

(* An operation that only sends.                                           *)
BeginSend(t) ==
  /\ At(t, SendOps)
  /\ UNCHANGED <<cl, down, srv, failed>>
  /\ IF cl[Home[t]].shutdown
     THEN th' = [th EXCEPT ![t] = Throw(t)] /\ UNCHANGED up
     ELSE th' = [th EXCEPT ![t] = Return(t)] /\ SendMessage(Home[t], Request(StepOf(t), 0))

Log(t) ==
  /\ At(t, {"log"})
  /\ th' = [th EXCEPT ![t] = Return(t)]
  /\ SendMessage(Home[t], Request(StepOf(t), 0))
  /\ UNCHANGED <<cl, down, srv, failed>>

SignalNodeEnd(t) ==
  /\ At(t, {"nodeend"})
  /\ th' = [th EXCEPT ![t] = Return(t)]
  /\ SendMessage(Home[t], Request(StepOf(t), 0))
  /\ UNCHANGED <<cl, down, srv, failed>>

(* The kernel has waited for its nodes to end.                             *)
SignalKernelEnd(t) ==
  /\ At(t, {"kernelend"})
  /\ \A u \in ThreadsOf(Home[t]) :
       (\E i \in DOMAIN Program[u] : Program[u][i].op = "nodeend")
       /\ Program[u][1].name \in cl[Home[t]].got => Ended(u)
  /\ th' = [th EXCEPT ![t] = Return(t)]
  /\ SendMessage(Home[t], Request(StepOf(t), 0))
  /\ cl' = [cl EXCEPT ![Home[t]].kernels = @ \ {StepOf(t).name}]
  /\ UNCHANGED <<down, srv, failed>>

(* The thread of a kernel or of a node begins; a kernel is RUNNING now.    *)
Spawned(t) ==
  /\ At(t, {"spawned"}) /\ StepOf(t).name \in cl[Home[t]].got
  /\ th' = [th EXCEPT ![t] = Return(t)]
  /\ cl' = [cl EXCEPT ![Home[t]].running = @ \cup {StepOf(t).name}]
  /\ UNCHANGED <<up, down, srv, failed>>

(* The loop of a kernel's thread ends when NotifyTerminate has been called.*)
Told(t) ==
  /\ At(t, {"told"}) /\ StepOf(t).name \in cl[Home[t]].told
  /\ th' = [th EXCEPT ![t] = Return(t)]
  /\ UNCHANGED <<cl, up, down, srv, failed>>

Terminate(t) ==
  /\ At(t, {"terminate"})
  /\ LET c == Home[t]
     IN  IF cl[c].shutdown
         THEN th' = [th EXCEPT ![t] = Return(t)] /\ UNCHANGED <<cl, up>>
         ELSE /\ cl' = [cl EXCEPT ![c].shutdown = TRUE, ![c].term = TRUE]
              /\ th' = [Signalled(c) EXCEPT ![t] = Return(t)]
              /\ SendMessage(c, Request(StepOf(t), 0))
  /\ UNCHANGED <<down, srv, failed>>

-----------------------------------------------------------------------------
(* What a thread does when it wakes with the lock.                         *)

(* Mutant of Scan: the messages that came during the call are dropped.     *)
ScanNew(t) == IF th[t].st = "wait" /\ \E i \in DOMAIN th[t].box : Wanted(StepOf(t), th[t].box[i])
              THEN Return(t)
              ELSE [th[t] EXCEPT !.st = "wait", !.box = <<>>, !.sig = FALSE]

(* The loop of a wait operation takes the messages in their order until    *)
(* one ends the wait; when there is none it waits for more.                *)
Scan(t) == IF \E i \in DOMAIN th[t].box : Wanted(StepOf(t), th[t].box[i])
           THEN Return(t)
           ELSE [th[t] EXCEPT !.st = "wait", !.box = <<>>, !.sig = FALSE]

(* RemoteCall wakes, and the operation goes on with the reply.             *)
WakeCall(t) ==
  LET c == Home[t]
      s == StepOf(t)
      m == th[t].msg
  IN  /\ ~Ended(t) /\ th[t].st = "call" /\ th[t].sig
      /\ UNCHANGED <<up, down, srv>>
      /\ \/ /\ cl[c].shutdown
            /\ th' = [th EXCEPT ![t] = Interrupted(t)]
            /\ UNCHANGED <<cl, failed>>
         \/ /\ ~cl[c].shutdown /\ th[t].signaled /\ s.op \in CallOps
            /\ th' = [th EXCEPT ![t] = IF m.ok THEN Return(t) ELSE Throw(t)]
            /\ cl' = IF s.op = "setup" /\ m.ok
                     THEN [cl EXCEPT ![c].kernels = @ \cup {s.name},
                                     ![c].got = @ \cup {s.name}]
                     ELSE cl
            /\ failed' = IF s.op = "endpointinfo" /\ ~m.ok
                         THEN failed \cup {"endpoint"} ELSE failed
         \/ /\ ~cl[c].shutdown /\ th[t].signaled /\ s.op \in WaitOps
            /\ th' = [th EXCEPT ![t] = IF Wanted(s, m) THEN Return(t) ELSE Scan(t)]
            /\ UNCHANGED <<cl, failed>>

(* A wait operation wakes from the condition of its generic waiter.        *)
WakeWait(t) ==
  /\ ~Ended(t) /\ th[t].st = "wait" /\ th[t].sig 
  /\ th' = [th EXCEPT ![t] = IF cl[Home[t]].shutdown THEN Interrupted(t) ELSE Scan(t)]
  /\ UNCHANGED <<cl, up, down, srv, failed>>

-----------------------------------------------------------------------------
(* The reader thread of a client.                                          *)

Incoming(c, types) ==
  /\ down[c] # <<>> /\ Head(down[c]).type \in types
  /\ down' = [down EXCEPT ![c] = Tail(@)]

DispatchTerminate(c) ==
  /\ Incoming(c, {"terminate"})
  /\ InternalTerminate(c)
  /\ UNCHANGED <<up, srv, failed>>

(* The end of the stream: EntryPoint calls Terminate and returns.          *)
EndOfStream(c) ==
  /\ Incoming(c, {"eof"})
  /\ InternalTerminate(c)
  /\ IF cl[c].shutdown THEN UNCHANGED up
     ELSE SendMessage(c, Request([op |-> "terminate", name |-> "", of |-> ""], 0))
  /\ UNCHANGED <<srv, failed>>

(* The waiter lives on the stack of its caller: an entry whose caller has  *)
(* thrown points to nothing.                                               *)
DispatchReply(c) ==
  LET m == Head(down[c])
      entry == {e \in cl[c].calls : e[1] = m.id}
      caller == {e[2] : e \in entry}
      waiting == {t \in caller : th[t].st = "call" /\ th[t].id = m.id}
  IN  /\ Incoming(c, {"reply"})
      /\ th' = [t \in Thread |-> IF t \in waiting
                  THEN [th[t] EXCEPT !.msg = m, !.signaled = TRUE, !.sig = TRUE]
                  ELSE th[t]]
      /\ cl' = [cl EXCEPT ![c].calls = @ \ entry]
      /\ failed' = failed \cup (IF entry = {} THEN {"reply"} ELSE {})
                          \cup (IF waiting # caller THEN {"dangling"} ELSE {})
      /\ UNCHANGED <<up, srv>>

DispatchBroadcast(c) ==
  /\ Incoming(c, {"broadcast"})
  /\ LET m == Head(down[c])
     IN th' = [t \in Thread |-> IF Home[t] = c /\ th[t].waiter
                 THEN [th[t] EXCEPT !.box = Append(@, m),
                                    !.sig = @ \/ th[t].st = "wait"]
                 ELSE th[t]]
  /\ UNCHANGED <<cl, up, srv, failed>>

(* RemoteCreateNode of the kernel, which must be in the map and running.   *)
DispatchKernel(c) ==
  /\ Incoming(c, {"kernel"})
  /\ LET m == Head(down[c])
         there == m.kind \in (cl[c].kernels \cap cl[c].running) \ cl[c].told
     IN  /\ cl' = IF there THEN [cl EXCEPT ![c].got = @ \cup {m.name}] ELSE cl
         /\ failed' = IF there THEN failed ELSE failed \cup {"kernel"}
  /\ UNCHANGED <<th, up, srv>>

(* TerminateThread calls NotifyTerminate of every kernel of the process,   *)
(* which heeds it only when it is running.                                 *)
TerminateThread(c) ==
  /\ cl[c].term
  /\ cl' = [cl EXCEPT ![c].told = @ \cup (cl[c].kernels \cap cl[c].running), ![c].term = FALSE]
  /\ UNCHANGED <<th, up, down, srv, failed>>

(* Has every thread of the process ended, or never begun?                  *)
Idle(c) == \A t \in ThreadsOf(c) :
             ~Ended(t) => StepOf(t).op = "spawned" /\ StepOf(t).name \notin cl[c].got

(* The destructor of RemoteContext, when the last kernel that shares the   *)
(* context is gone.                                                        *)
EndWrite(c) ==
  /\ Idle(c) /\ cl[c].kernels = {} /\ ~cl[c].endwrite /\ ~cl[c].crashed
  /\ cl' = [cl EXCEPT ![c].endwrite = TRUE]
  /\ up' = [up EXCEPT ![c] = Append(@, Request([op |-> "eof", name |-> "", of |-> ""], 0))]
  /\ UNCHANGED <<th, down, srv, failed>>

(* The process dies with all its threads: what it had sent last may be     *)
(* lost with it, and what the server sends it is never read.               *)
Crash(c) ==
  /\ c \in Crashes /\ ~cl[c].crashed /\ ~cl[c].endwrite
  /\ cl' = [cl EXCEPT ![c] = [Started EXCEPT !.crashed = TRUE]]
  /\ th' = [t \in Thread |-> IF Home[t] = c THEN Fresh(Len(Program[t]) + 1) ELSE th[t]]
  /\ \E k \in 0..Len(up[c]) :
       up' = [up EXCEPT ![c] = Append(SubSeq(@, 1, k),
                                 Request([op |-> "eof", name |-> "", of |-> ""], 0))]
  /\ down' = [down EXCEPT ![c] = <<>>]
  /\ UNCHANGED <<srv, failed>>

-----------------------------------------------------------------------------
(* The server.                                                             *)

Open == srv.clients \ srv.closed

(* down after the messages of ms have been sent to the clients of to.      *)
Sent(to, ms) == [c \in Client |-> IF c \in to /\ ~cl[c].crashed
                                 THEN down[c] \o ms ELSE down[c]]

(* Read of the daemon: a connection is accepted.                           *)
Accept(c) ==
  /\ c \notin srv.accepted /\ ~srv.shutdown
  /\ srv' = [srv EXCEPT !.clients = @ \cup {c}, !.accepted = @ \cup {c}]
  /\ UNCHANGED <<cl, th, up, down, failed>>

(* The next message of c, which Client::Read hands to DispatchMessage.     *)
Receive(c, types) ==
  /\ c \in Open /\ up[c] # <<>> /\ Head(up[c]).type \in types
  /\ up' = [up EXCEPT ![c] = Tail(@)]
  /\ UNCHANGED <<cl, th>>

Dispatch(c, types) == ~srv.shutdown /\ Receive(c, types)

(* After the end DispatchMessage returns at once.                          *)
Ignore(c) ==
  /\ srv.shutdown /\ Receive(c, Ops)
  /\ UNCHANGED <<down, srv, failed>>

(* Terminate of the daemon, from the state s: TERMINATE is broadcast, the  *)
(* listener closed and every connection ended for writing.  A connection   *)
(* that was never accepted is reset with the listener.                     *)
ServeTerminate(s) ==
  IF s.shutdown THEN srv' = s /\ UNCHANGED down
  ELSE /\ srv' = [s EXCEPT !.shutdown = TRUE]
       /\ down' = [c \in Client |->
             IF cl[c].crashed THEN down[c]
             ELSE IF c \in s.clients \ s.closed
                  THEN down[c] \o <<Note("terminate"), Note("eof")>>
             ELSE IF c \notin s.accepted THEN Append(down[c], Note("eof")) ELSE down[c]]

DispatchServerTerminate(c) ==
  /\ Dispatch(c, {"terminate"})
  /\ ServeTerminate(srv)
  /\ UNCHANGED failed

(* The stream of a client ends: Terminate(name) closes the connection.     *)
Disconnect(c) ==
  /\ Receive(c, {"eof"})
  /\ srv' = [srv EXCEPT !.closed = @ \cup {c}]
  /\ down' = Sent({c}, <<Note("eof")>>)
  /\ UNCHANGED failed

(* Run finds a closed connection: it forgets it and terminates.            *)
Sweep(c) ==
  /\ c \in srv.clients \cap srv.closed
  /\ ServeTerminate([srv EXCEPT !.clients = @ \ {c}])
  /\ UNCHANGED <<cl, th, up, failed>>

(* Run returns.                                                            *)
ServerDone == srv.shutdown /\ srv.clients = {}

-----------------------------------------------------------------------------
(* What the server does with a request.                                    *)

(* A name that is taken gets no reply.                                     *)
SetupKernel(c) ==
  LET m == Head(up[c])
  IN  /\ Dispatch(c, {"setup"})
      /\ IF m.name \in DOMAIN srv.kernels THEN UNCHANGED <<srv, down>>
         ELSE /\ srv' = [srv EXCEPT !.kernels = Put(@, m.name, [client |-> c, flags |-> {}])]
              /\ down' = Sent({c}, <<Reply(m, TRUE, "kernel", {})>>)
      /\ UNCHANGED failed

(* A broadcast of NewBroadcastMessage: an info and numlivenodes.           *)
Broadcast(kind, name, flags, live) ==
  down' = Sent(Open, <<[type |-> "broadcast", id |-> 0, ok |-> TRUE, kind |-> kind,
                        name |-> name, flags |-> flags, live |-> live]>>)

(* SignalKernelStart and SignalKernelEnd.                                  *)
SignalKernel(c) ==
  LET m == Head(up[c])
      flags == IF m.type = "kernelstart" THEN {"live"} ELSE {}
  IN  /\ Dispatch(c, {"kernelstart", "kernelend"})
      /\ IF m.name \in DOMAIN srv.kernels
         THEN /\ srv' = [srv EXCEPT !.kernels[m.name].flags = flags]
              /\ Broadcast("kernel", m.name, flags, srv.live)
              /\ UNCHANGED failed
         ELSE failed' = failed \cup {"server"} /\ UNCHANGED <<srv, down>>

CreateNodeKey(c) ==
  LET m == Head(up[c])
      new == m.name \notin DOMAIN srv.nodes
  IN  /\ Dispatch(c, {"nodekey"})
      /\ srv' = IF new THEN [srv EXCEPT !.nodes = Put(@, m.name, {})] ELSE srv
      /\ down' = Sent({c}, <<Reply(m, new, "node", {})>>)
      /\ UNCHANGED failed

(* SignalNodeStart and SignalNodeEnd.                                      *)
SignalNode(c) ==
  LET m == Head(up[c])
      live == srv.live + (IF m.type = "nodestart" THEN 1 ELSE -1)
      flag == IF m.type = "nodestart" THEN "started" ELSE "dead"
  IN  /\ Dispatch(c, {"nodestart", "nodeend"})
      /\ IF m.name \in DOMAIN srv.nodes
         THEN /\ srv' = [srv EXCEPT !.nodes[m.name] = @ \cup {flag}, !.live = live]
              /\ Broadcast("node", m.name, srv.nodes[m.name] \cup {flag}, live)
              /\ UNCHANGED failed
         ELSE failed' = failed \cup {"server"} /\ UNCHANGED <<srv, down>>

(* GetKernelInfo, GetNodeInfo, GetNumNodeLive and GetEndpointInfo.         *)
GetInfo(c) ==
  LET m == Head(up[c])
      reply == CASE m.type \in {"kernelinfo", "waitkernel"} ->
                      IF m.name \in DOMAIN srv.kernels
                      THEN Reply(m, TRUE, "kernel", srv.kernels[m.name].flags)
                      ELSE Reply(m, FALSE, "none", {})
                 [] m.type \in {"nodeinfo", "waitstart", "waitend"} ->
                      IF m.name \in DOMAIN srv.nodes
                      THEN Reply(m, TRUE, "node", srv.nodes[m.name])
                      ELSE Reply(m, FALSE, "none", {})
                 [] m.type = "endpointinfo" ->
                      Reply(m, m.name \in DOMAIN srv.ends, "none", {})
                 [] OTHER -> Reply(m, TRUE, "none", {})
  IN  /\ Dispatch(c, {"kernelinfo", "nodeinfo", "endpointinfo"} \cup WaitOps)
      /\ down' = Sent({c}, <<reply>>)
      /\ UNCHANGED <<srv, failed>>

(* An endpoint is made the first time it is asked for.                     *)
GetCreateEndpointKey(c) ==
  LET m == Head(up[c])
      there == m.of \in DOMAIN srv.nodes
  IN  /\ Dispatch(c, {"endpoint"})
      /\ srv' = IF there /\ m.name \notin DOMAIN srv.ends
                THEN [srv EXCEPT !.ends = Put(@, m.name, "")] ELSE srv
      /\ down' = Sent({c}, <<Reply(m, there, "none", {})>>)
      /\ UNCHANGED failed

ConnectEndpoints(c) ==
  LET m == Head(up[c])
  IN  /\ Dispatch(c, {"connect"})
      /\ srv' = [srv EXCEPT !.ends = Put(Put(@, m.of, m.name), m.name, m.of)]
      /\ UNCHANGED <<down, failed>>

(* A message for a kernel goes to the client that has set it up.           *)
RouteKernelMessage(c) ==
  LET m == Head(up[c])
      to == srv.kernels[m.of].client
  IN  /\ Dispatch(c, {"create"})
      /\ down' = Sent({to} \cap Open,
                      <<[type |-> "kernel", id |-> 0, ok |-> TRUE, kind |-> m.of,
                         name |-> m.name, flags |-> {}, live |-> 0]>>)
      /\ failed' = IF to \in srv.clients THEN failed ELSE failed \cup {"recipient"}
      /\ UNCHANGED srv

LogMessage(c) ==
  /\ Dispatch(c, {"log"})
  /\ UNCHANGED <<down, srv, failed>>

-----------------------------------------------------------------------------
Init ==
  /\ cl = [c \in Client |-> Started]
  /\ th = [t \in Thread |-> Fresh(1)]
  /\ up = [c \in Client |-> <<>>] /\ down = [c \in Client |-> <<>>]
  /\ srv = [shutdown |-> FALSE, accepted |-> {}, clients |-> {}, closed |-> {},
            kernels |-> <<>>, nodes |-> <<>>, ends |-> <<>>, live |-> 0]
  /\ failed = {}

Next ==
  \/ \E t \in Thread : BeginCall(t)
  \/ \E t \in Thread : BeginSend(t)
  \/ \E t \in Thread : Log(t)
  \/ \E t \in Thread : SignalNodeEnd(t)
  \/ \E t \in Thread : SignalKernelEnd(t)
  \/ \E t \in Thread : Spawned(t)
  \/ \E t \in Thread : Told(t)
  \/ \E t \in Thread : Terminate(t)
  \/ \E t \in Thread : WakeCall(t)
  \/ \E t \in Thread : WakeWait(t)
  \/ \E c \in Client : DispatchTerminate(c)
  \/ \E c \in Client : EndOfStream(c)
  \/ \E c \in Client : DispatchReply(c)
  \/ \E c \in Client : DispatchBroadcast(c)
  \/ \E c \in Client : DispatchKernel(c)
  \/ \E c \in Client : TerminateThread(c)
  \/ \E c \in Client : EndWrite(c)
  \/ \E c \in Client : Crash(c)
  \/ \E c \in Client : Accept(c)
  \/ \E c \in Client : Ignore(c)
  \/ \E c \in Client : DispatchServerTerminate(c)
  \/ \E c \in Client : Disconnect(c)
  \/ \E c \in Client : Sweep(c)
  \/ \E c \in Client : SetupKernel(c)
  \/ \E c \in Client : SignalKernel(c)
  \/ \E c \in Client : CreateNodeKey(c)
  \/ \E c \in Client : SignalNode(c)
  \/ \E c \in Client : GetInfo(c)
  \/ \E c \in Client : GetCreateEndpointKey(c)
  \/ \E c \in Client : ConnectEndpoints(c)
  \/ \E c \in Client : RouteKernelMessage(c)
  \/ \E c \in Client : LogMessage(c)

Spec == Init /\ [][Next]_vars

(* Steps of one thread of the program; of the reader of a client; of the   *)
(* server for a client.                                                    *)
ThreadStep(t) ==
  \/ BeginCall(t) \/ BeginSend(t) \/ Log(t) \/ SignalNodeEnd(t) \/ SignalKernelEnd(t)
  \/ Spawned(t) \/ Told(t) \/ Terminate(t) \/ WakeCall(t) \/ WakeWait(t)
ReaderStep(c) ==
  \/ DispatchTerminate(c) \/ EndOfStream(c) \/ DispatchReply(c)
  \/ DispatchBroadcast(c) \/ DispatchKernel(c)
ServerStep(c) ==
  \/ Ignore(c) \/ DispatchServerTerminate(c) \/ Disconnect(c) \/ Sweep(c)
  \/ SetupKernel(c) \/ SignalKernel(c) \/ CreateNodeKey(c) \/ SignalNode(c)
  \/ GetInfo(c) \/ GetCreateEndpointKey(c) \/ ConnectEndpoints(c)
  \/ RouteKernelMessage(c) \/ LogMessage(c)

(* A thread that can go on does so in the end, and Run polls all the       *)
(* connections.  Nothing makes a process crash.  Of all this the           *)
(* properties need no more than that the system does not stop.             *)
Progress ==
  \/ \E t \in Thread : ThreadStep(t)
  \/ \E c \in Client : \/ ReaderStep(c) \/ ServerStep(c) \/ Accept(c)
                       \/ TerminateThread(c) \/ EndWrite(c)

FairSpec == Spec /\ WF_vars(Progress)

-----------------------------------------------------------------------------
(* The ASSERTs of the context hold: a reply finds its caller, a message    *)
(* for a kernel finds it set up and running, an endpoint that is asked for *)
(* exists, and the server knows what it is told about.                     *)
AssertsHold == failed = {}

(* Has what step s waits for happened?                                     *)
Happened(s) ==
  IF s.op = "waitall" THEN srv.live = 0
  ELSE IF s.op = "waitkernel"
  THEN s.name \in DOMAIN srv.kernels /\ srv.kernels[s.name].flags # {}
  ELSE s.name \in DOMAIN srv.nodes /\ Sought(s.op)[2] \in srv.nodes[s.name]

(* A thread that is waiting for something that has happened has the        *)
(* message that says so, or will be sent it: none slips between the call   *)
(* that asks for the state and the wait.                                   *)
NoticeOnItsWay ==
  \A t \in Thread :
    LET c == Home[t]
        s == StepOf(t)
    IN  ~Ended(t) /\ th[t].st = "wait" /\ Happened(s) /\ c \in Open /\ ~cl[c].crashed =>
          \/ \E i \in DOMAIN th[t].box : th[t].sig /\ Wanted(s, th[t].box[i])
          \/ \E i \in DOMAIN down[c] : \/ Wanted(s, down[c][i]) /\ down[c][i].type = "broadcast"
                                       \/ down[c][i].type = "terminate"
          \/ cl[c].shutdown /\ th[t].sig

(* WaitForNodeStart and WaitForNodeEnd return, short of a shutdown and of  *)
(* the death of the process, only when the node has started or ended.      *)
WaitTruth ==
  [][\A t \in Thread :
       ~Ended(t) /\ th'[t] = Return(t) /\ ~(cl[Home[t]].shutdown \/ cl'[Home[t]].crashed) =>
         /\ StepOf(t).op = "waitstart" => /\ StepOf(t).name \in DOMAIN srv.nodes
                                          /\ "started" \in srv.nodes[StepOf(t).name]
         /\ StepOf(t).op = "waitend" => /\ StepOf(t).name \in DOMAIN srv.nodes
                                        /\ "dead" \in srv.nodes[StepOf(t).name]]_vars

(* The network ends: every call returns and every wait is answered until   *)
(* one process terminates, leaves or dies, and then every thread of every  *)
(* process ends, and so does the server.                                   *)
NetworkEnds ==
  <>(ServerDone /\ \A c \in Client : cl[c].crashed \/ (cl[c].shutdown /\ Idle(c)))
====
