------------------------------ MODULE Kernel ------------------------------
(***************************************************************************)
(* The life cycle of a kernel and of its nodes: CPN::Kernel without remote *)
(* operation, the CPN::LocalContext it registers its nodes with, and the   *)
(* threads of CPN::NodeBase.  The threads are                              *)
(*   - the kernel thread (Kernel::EntryPoint), which collects the nodes    *)
(*     that have ended and, after Terminate, waits for all of them;        *)
(*   - one thread per node (NodeBase::EntryPoint);                         *)
(*   - the clients: threads of the program that use the kernel's API.  One *)
(*     of them, Main, runs the constructor.                                *)
(* A node in External is an external endpoint: a PseudoNode without a      *)
(* thread that a client creates, uses and destroys.                        *)
(*                                                                         *)
(* Every operation of the context is one step, for it runs under the       *)
(* context's lock; so is every part of an operation of the kernel that     *)
(* runs under nodelock, garbagelock or a node's lock, except where it      *)
(* waits for another lock or thread.  A queue is here only what its nodes  *)
(* wait for: two ends, each of them not there yet, open, or shut.          *)
(***************************************************************************)
EXTENDS Naturals, Sequences, FiniteSets

CONSTANTS
  Clients, Main,   \* threads of the program; the one that makes the kernel
  Nodes, External, \* names of nodes; those that are external endpoints
  Creators,        \* the threads that create nodes and queues
  Queues,          \* names of queues, each created once
  Ends,            \* Ends[q][d]: the node at the end d of queue q
  SwallowBrokenQueue, \* the kernel attribute SwallowBrokenQueueExceptions
  UnsignedMod,     \* 2^w for the w bits of the unsigned numlivenodes
  None             \* no node, no queue, no exception

Side == {"read", "write"}
Threads == Clients \cup (Nodes \ External)

ASSUME ThreadAssumption ==
  /\ Main \in Clients /\ Clients \cap Nodes = {} /\ External \subseteq Nodes
  /\ Creators \subseteq Threads /\ Ends \in [Queues -> [Side -> Nodes]]
  /\ SwallowBrokenQueue \in BOOLEAN
ASSUME CountAssumption ==
  UnsignedMod \in Nat /\ IsFiniteSet(Nodes) /\ Cardinality(Nodes) < UnsignedMod

Status == {"INITIALIZED", "RUNNING", "TERMINATE", "DONE"}

(* The ASSERTs that may throw.                                             *)
NotRunning == "ASSERT(status.Get() == RUNNING)"
NoSuchNode == "ASSERT(entry != nodemap.end()) in CreateLocalQueue"
NotInMap   == "ASSERT(entry != nodemap.end()) in NodeTerminated"
NeverBegan == "Node died before it started!?"
Asserts    == {NotRunning, NoSuchNode, NotInMap, NeverBegan}

ASSUME NoneAssumption == None \notin Nodes \cup Queues \cup Asserts

VARIABLES
  (* LocalContext *)
  shutdown,        \* Terminate has been called
  info,            \* nodemap and nodenames: is the node there, started, dead
  numlivenodes,
  kerneldead,      \* the kernel has signalled its end
  (* Kernel *)
  status,
  nodemap,
  garbagenodes,
  shut,            \* nodes whose Shutdown ClearGarbage has run
  nodecond_signal,
  kpc, kret,       \* control of the kernel thread; where ClearGarbage returns
  kasleep,         \* the kernel thread is in nodecond.Wait
  mapcopy,         \* copy of nodemap taken at the end
  (* Queues *)
  end,             \* the two ends of every queue
  asked,           \* queues somebody has called CreateQueue for
  (* Threads *)
  pc,              \* control
  asleep,          \* threads asleep on a condition variable
  thrown           \* the last AssertException a thread has met

cvars == <<shutdown, info, numlivenodes, kerneldead>>
nvars == <<nodemap, garbagenodes, shut>>
kvars == <<nodecond_signal, kpc, kret, kasleep, mapcopy>>
qvars == <<end, asked>>
tvars == <<pc, asleep, thrown>>
vars  == <<cvars, status, nvars, kvars, qvars, tvars>>

Places == {"idle", "create", "insert", "begin", "waitStart", "waitEnd", "waitAll",
       "readerStart", "writerStart", "connect", "lookup", "attachWriter",
       "attachReader", "release", "get", "blocked", "destroy", "ending", "erase",
       "bury", "notify", "wakeup", "unborn", "exited", "aborted"}
(* Where a thread is, and the node, queue and end its call is about.       *)
PC == [at : Places, node : Nodes \cup {None}, queue : Queues \cup {None}, side : Side]
At(p) == [at |-> p, node |-> None, queue |-> None, side |-> "read"]
AtNode(p, n) == [At(p) EXCEPT !.node = n]
AtQueue(p, q, d) == [At(p) EXCEPT !.queue = q, !.side = d]

KPC == {"init", "start", "gc", "clear", "loop", "woken", "copy", "notify", "drain",
        "last", "end", "done", "exited"}

TypeOK ==
  /\ shutdown \in BOOLEAN /\ kerneldead \in BOOLEAN
  /\ info \in [Nodes -> [there : BOOLEAN, started : BOOLEAN, dead : BOOLEAN]]
  /\ numlivenodes \in 0..UnsignedMod - 1
  /\ status \in Status /\ nodemap \subseteq Nodes
  /\ garbagenodes \in Seq(Nodes) /\ shut \subseteq Nodes
  /\ nodecond_signal \in BOOLEAN /\ kasleep \in BOOLEAN
  /\ kpc \in KPC /\ kret \in {"loop", "drain", "end"} /\ mapcopy \subseteq Nodes
  /\ end \in [Queues -> [Side -> {"none", "open", "shut"}]] /\ asked \subseteq Queues
  /\ pc \in [Threads -> PC]
  /\ asleep \subseteq Threads /\ thrown \in [Threads -> Asserts \cup {None}]

(* SetupKernel has registered the kernel and its thread has been started.  *)
Init ==
  /\ shutdown = FALSE /\ kerneldead = FALSE /\ numlivenodes = 0
  /\ info = [n \in Nodes |-> [there |-> FALSE, started |-> FALSE, dead |-> FALSE]]
  /\ status = "INITIALIZED" /\ nodemap = {} /\ garbagenodes = <<>> /\ shut = {}
  /\ nodecond_signal = FALSE /\ kpc = "init" /\ kret = "loop" /\ kasleep = FALSE
  /\ mapcopy = {}
  /\ end = [q \in Queues |-> [d \in Side |-> "none"]] /\ asked = {}
  /\ pc = [t \in Threads |-> At(IF t \in Clients THEN "idle" ELSE "unborn")]
  /\ asleep = {}
  /\ thrown = [t \in Threads |-> None]

Other(d) == IF d = "read" THEN "write" ELSE "read"
NodeOf(t) == IF t \in Nodes THEN t ELSE pc[t].node

(* nodelock is held between two steps only while NodeTerminated waits for  *)
(* garbagelock, and that one only while ClearGarbage waits for a thread.   *)
NodeLockFree    == \A t \in Threads : pc[t].at # "bury"
GarbageLockFree == kpc # "clear"

(* Waiters on nodelivedead, on the condition of a node and of a queue.     *)
LiveDeadWaiters ==
  {t \in Threads : pc[t].at \in {"waitStart", "waitEnd", "waitAll", "readerStart",
                              "writerStart"}}
NodeWaiters(n)  ==
  {t \in Threads : pc[t].at = "get" /\ Ends[pc[t].queue][pc[t].side] = n}
QueueWaiters(q) == {t \in Threads : pc[t].at = "blocked" /\ pc[t].queue = q}

(* A thread goes on with its call, or is back from it.                     *)
Goto(t, p)  == pc' = [pc EXCEPT ![t] = IF p = "idle" \/ (t \in Nodes /\ p = "ending")
                                       THEN At(p) ELSE [@ EXCEPT !.at = p]]
Sleep(t)    == asleep' = asleep \cup {t}
Wake(S)     == asleep' = asleep \ S

(* NodeBase::EntryPoint catches a ShutdownException and, if it is told to, *)
(* a BrokenQueueException.                                                 *)
Caught(e) == e = "Shutdown" \/ (e = "BrokenQueue" /\ SwallowBrokenQueue)

(* A client gets every exception from the call it has made.  One that      *)
(* leaves the entry point of a thread ends the process; here the others go *)
(* on, which adds behaviours and takes none away.                          *)
Throw(t, e) ==
  /\ Goto(t, IF t \in Clients THEN "idle" ELSE IF Caught(e) THEN "ending" ELSE "aborted")
  /\ thrown' = [thrown EXCEPT ![t] = IF e \in Asserts THEN e ELSE @]

(* nodecond.Signal(); nodecond_signal = true.                              *)
SignalKernel == nodecond_signal' = TRUE /\ kasleep' = FALSE

(* A thread calls an operation of the kernel, which has been constructed.  *)
Call(t, p) ==
  pc[t].at = "idle" /\ status # "INITIALIZED" /\ pc' = [pc EXCEPT ![t] = p]

---------------------------------------------------------------------------
(* Creating nodes.                                                         *)

(* Kernel::CreateNode and CreateExternalEndpoint as far as CreateNodeKey;  *)
(* a name that is taken is refused and changes nothing.                    *)
CreateNode(t, n) ==
  /\ t \in Creators /\ (n \in External => t \in Clients)
  /\ ~info[n].there
  /\ IF shutdown
     THEN /\ pc[t].at = "idle" /\ status # "INITIALIZED" /\ Throw(t, "Shutdown")
          /\ UNCHANGED info
     ELSE /\ Call(t, AtNode(IF n \in External THEN "insert" ELSE "create", n))
          /\ info' = [info EXCEPT ![n].there = TRUE]
          /\ UNCHANGED thrown
  /\ UNCHANGED <<shutdown, numlivenodes, kerneldead, status, nvars, kvars, qvars, asleep>>

(* Kernel::InternalCreateNode.                                             *)
InternalCreateNode(t) ==
  LET n == pc[t].node
  IN  /\ pc[t].at = "create" /\ NodeLockFree
      /\ IF status = "RUNNING"
         THEN /\ nodemap' = nodemap \cup {n}
              /\ pc' = [pc EXCEPT ![t] = At("idle"), ![n] = At("begin")]
              /\ UNCHANGED thrown
         ELSE Throw(t, NotRunning) /\ UNCHANGED nodemap
      /\ UNCHANGED <<cvars, status, garbagenodes, shut, kvars, qvars, asleep>>

(* The rest of CreateExternalEndpoint, before it signals the start.        *)
InsertEndpoint(t) ==
  /\ pc[t].at = "insert" /\ NodeLockFree
  /\ nodemap' = nodemap \cup {pc[t].node} /\ Goto(t, "begin")
  /\ UNCHANGED <<cvars, status, garbagenodes, shut, kvars, qvars, asleep, thrown>>

(* LocalContext::SignalNodeStart, called by the new thread, or for an      *)
(* endpoint by the client.                                                 *)
SignalNodeStart(t) ==
  /\ pc[t].at = "begin"
  /\ IF shutdown
     THEN Throw(t, "Shutdown") /\ UNCHANGED <<info, numlivenodes, asleep>>
     ELSE /\ info' = [info EXCEPT ![NodeOf(t)].started = TRUE]
          /\ numlivenodes' = (numlivenodes + 1) % UnsignedMod
          /\ Wake(LiveDeadWaiters) /\ Goto(t, "idle") /\ UNCHANGED thrown
  /\ UNCHANGED <<shutdown, kerneldead, status, nvars, kvars, qvars>>

---------------------------------------------------------------------------
(* The end of a node.                                                      *)

(* Process returns.                                                        *)
Finish(n) ==
  /\ n \in Nodes \ External /\ pc[n].at = "idle" /\ Goto(n, "ending")
  /\ UNCHANGED <<cvars, status, nvars, kvars, qvars, asleep, thrown>>

(* Kernel::DestroyExternalEndpoint, called by one client at a time:        *)
(* GetNodeKey, then the lookup in nodemap.                                 *)
DestroyExternalEndpoint(t, n) ==
  /\ t \in Clients /\ n \in External /\ info[n].there
  /\ \A u \in Clients \ {t} :
       pc[u].node = n => pc[u].at \notin {"insert", "begin", "destroy", "ending", "erase", "bury"}
  /\ IF shutdown
     THEN /\ pc[t].at = "idle" /\ status # "INITIALIZED" /\ Throw(t, "Shutdown")
     ELSE Call(t, AtNode("destroy", n)) /\ UNCHANGED thrown
  /\ UNCHANGED <<cvars, status, nvars, kvars, qvars, asleep>>

FindEndpoint(t) ==
  /\ pc[t].at = "destroy" /\ NodeLockFree
  /\ Goto(t, IF pc[t].node \in nodemap THEN "ending" ELSE "idle")
  /\ UNCHANGED <<cvars, status, nvars, kvars, qvars, asleep, thrown>>

(* Mutant of EndWakes: the end of a node wakes nobody.                     *)
EndWakesNobody == {}

EndWakes == LiveDeadWaiters

(* Mutant of CountDown: the end is not counted.                            *)
CountDownNone == numlivenodes

(* --numlivenodes, which is unsigned.                                      *)
CountDown == (numlivenodes + UnsignedMod - 1) % UnsignedMod

(* NodeTerminated: LocalContext::SignalNodeEnd.                            *)
SignalNodeEnd(t) ==
  /\ pc[t].at = "ending"
  /\ info' = [info EXCEPT ![NodeOf(t)].dead = TRUE]
  /\ numlivenodes' = CountDown
  /\ Wake(EndWakes) /\ Goto(t, "erase")
  /\ UNCHANGED <<shutdown, kerneldead, status, nvars, kvars, qvars, thrown>>

Ended(t) == IF t \in Clients THEN "idle" ELSE "exited"

(* NodeTerminated: under nodelock, until it needs garbagelock.             *)
EraseNode(t) ==
  /\ pc[t].at = "erase" /\ NodeLockFree
  /\ IF status = "DONE"
     THEN SignalKernel /\ Goto(t, Ended(t)) /\ UNCHANGED <<nodemap, thrown>>
     ELSE /\ IF NodeOf(t) \in nodemap THEN Goto(t, "bury") /\ UNCHANGED thrown
             ELSE Throw(t, NotInMap)
          /\ nodemap' = nodemap \ {NodeOf(t)} /\ UNCHANGED <<nodecond_signal, kasleep>>
  /\ UNCHANGED <<cvars, status, garbagenodes, shut, kpc, kret, mapcopy, qvars, asleep>>

(* NodeTerminated: the node goes to the garbage, the kernel thread is told.*)
BuryNode(t) ==
  /\ pc[t].at = "bury" /\ GarbageLockFree
  /\ garbagenodes' = Append(garbagenodes, NodeOf(t))
  /\ SignalKernel /\ Goto(t, Ended(t))
  /\ UNCHANGED <<cvars, status, nodemap, shut, kpc, kret, mapcopy, qvars, asleep, thrown>>

---------------------------------------------------------------------------
(* Creating queues.                                                        *)

(* Kernel::CreateQueue, between two nodes of this kernel given by name.    *)
CreateQueue(t, q) ==
  /\ t \in Creators /\ q \notin asked /\ asked' = asked \cup {q}
  /\ Call(t, AtQueue("readerStart", q, "read"))
  /\ UNCHANGED <<cvars, status, nvars, kvars, end, asleep, thrown>>

(* LocalContext::WaitForNodeStart: one turn of its loop.                   *)
WaitForNodeStart(t, n, next) ==
  /\ t \notin asleep
  /\ IF shutdown THEN Throw(t, "Shutdown") /\ UNCHANGED asleep
     ELSE /\ IF info[n].started THEN Goto(t, next) /\ UNCHANGED asleep
             ELSE Sleep(t) /\ UNCHANGED pc
          /\ UNCHANGED thrown
  /\ UNCHANGED <<cvars, status, nvars, kvars, qvars>>

ReaderStart(t) ==
  pc[t].at = "readerStart" /\ WaitForNodeStart(t, Ends[pc[t].queue]["read"], "writerStart")
WriterStart(t) ==
  pc[t].at = "writerStart" /\ WaitForNodeStart(t, Ends[pc[t].queue]["write"], "connect")

(* The keys of the two ends, ConnectEndpoints and GetNodeKernel.           *)
ConnectEndpoints(t) ==
  /\ pc[t].at = "connect"
  /\ IF shutdown THEN Throw(t, "Shutdown") ELSE Goto(t, "lookup") /\ UNCHANGED thrown
  /\ UNCHANGED <<cvars, status, nvars, kvars, qvars, asleep>>

(* CreateLocalQueue: both nodes are looked up under nodelock.              *)
LookupNodes(t) ==
  /\ pc[t].at = "lookup" /\ NodeLockFree
  /\ IF \A d \in Side : Ends[pc[t].queue][d] \in nodemap
     THEN Goto(t, "attachWriter") /\ UNCHANGED thrown
     ELSE Throw(t, NoSuchNode)
  /\ UNCHANGED <<cvars, status, nvars, kvars, qvars, asleep>>

(* PseudoNode::CreateWriter and CreateReader.                              *)
Attach(t, d, next) ==
  LET q == pc[t].queue
  IN  /\ end' = [end EXCEPT ![q][d] = "open"]
      /\ Wake(NodeWaiters(Ends[q][d])) /\ Goto(t, next)
      /\ UNCHANGED <<cvars, status, nvars, kvars, asked, thrown>>

AttachWriter(t) == pc[t].at = "attachWriter" /\ Attach(t, "write", "attachReader")
AttachReader(t) == pc[t].at = "attachReader" /\ Attach(t, "read", "release")

(* Mutant of Closes: the destructor of a node does not shut its queues.    *)
ClosesNothing(q, d) == FALSE

(* CreateLocalQueue drops its references to the nodes.  If a node has been *)
(* collected meanwhile, it is destroyed, and with it the QueueReader and   *)
(* the QueueWriter, whose destructors shut the queue's end.                *)
Closes(q, d) == end[q][d] = "open" /\ Ends[q][d] \in shut

ReleaseNodes(t) ==
  LET q == pc[t].queue
  IN  /\ pc[t].at = "release" /\ Goto(t, "idle")
      /\ end' = [end EXCEPT ![q] = [d \in Side |-> IF Closes(q, d) THEN "shut" ELSE end[q][d]]]
      /\ Wake(IF \E d \in Side : Closes(q, d) THEN QueueWaiters(q) ELSE {})
      /\ UNCHANGED <<cvars, status, nvars, kvars, asked, thrown>>

---------------------------------------------------------------------------
(* Using queues: a node uses its ends, a client those of the endpoints.    *)

Uses(t, q, d) ==
  \/ t = Ends[q][d]
  \/ t \in Clients /\ Ends[q][d] \in External

(* GetIQueue, GetOQueue: GetCreateReaderKey or GetCreateWriterKey; for an  *)
(* endpoint GetExternalIQueue and GetExternalOQueue, which look it up.     *)
GetQueue(t, q, d) ==
  /\ Uses(t, q, d) /\ NodeWaiters(Ends[q][d]) = {}
  /\ Ends[q][d] \in External => Ends[q][d] \in nodemap /\ NodeLockFree
  /\ IF shutdown
     THEN pc[t].at = "idle" /\ Throw(t, "Shutdown")
     ELSE Call(t, AtQueue("get", q, d)) /\ UNCHANGED thrown
  /\ UNCHANGED <<cvars, status, nvars, kvars, qvars, asleep>>

(* PseudoNode::GetReader, GetWriter: one turn of the loop.                 *)
GetEnd(t) ==
  /\ pc[t].at = "get" /\ t \notin asleep
  /\ IF end[pc[t].queue][pc[t].side] = "open"
     THEN Goto(t, "idle") /\ UNCHANGED <<asleep, thrown>>
     ELSE IF shutdown THEN Throw(t, "Shutdown") /\ UNCHANGED asleep
     ELSE Sleep(t) /\ UNCHANGED <<pc, thrown>>
  /\ UNCHANGED <<cvars, status, nvars, kvars, qvars>>

(* A thread blocks on its end of a queue, or meets the termination there   *)
(* (QueueBase::GetRawDequeuePtr, GetRawEnqueuePtr; module ThresholdQueue   *)
(* has them in full).                                                      *)
Block(t, q, d) ==
  /\ Uses(t, q, d) /\ pc[t].at = "idle" /\ end[q][d] = "open"
  /\ IF shutdown THEN Throw(t, "Shutdown") /\ UNCHANGED asleep
     ELSE IF end[q][Other(d)] = "shut"
     THEN d = "write" /\ Throw(t, "BrokenQueue") /\ UNCHANGED asleep
     ELSE /\ Call(t, AtQueue("blocked", q, d))
          /\ Sleep(t) /\ UNCHANGED thrown
  /\ UNCHANGED <<cvars, status, nvars, kvars, qvars>>

(* Awake again: a reader whose writer is gone gets no data, a writer whose *)
(* reader is gone an exception.                                            *)
Unblock(t) ==
  LET q == pc[t].queue
      d == pc[t].side
  IN  /\ pc[t].at = "blocked" /\ t \notin asleep
      /\ IF shutdown THEN Throw(t, "Shutdown") /\ UNCHANGED asleep
         ELSE IF end[q][Other(d)] = "shut"
         THEN /\ IF d = "read" THEN Goto(t, "idle") /\ UNCHANGED thrown
                 ELSE Throw(t, "BrokenQueue")
              /\ UNCHANGED asleep
         ELSE Sleep(t) /\ UNCHANGED <<pc, thrown>>
      /\ UNCHANGED <<cvars, status, nvars, kvars, qvars>>

(* Whoever is at the other end writes or reads enough.                     *)
Transfer(t, q, d) ==
  /\ Uses(t, q, d) /\ pc[t].at = "idle" /\ end[q][d] = "open" /\ ~shutdown
  /\ \E u \in QueueWaiters(q) :
       pc[u].side = Other(d) /\ Goto(u, "idle") /\ Wake({u})
  /\ UNCHANGED <<cvars, status, nvars, kvars, qvars, thrown>>

---------------------------------------------------------------------------
(* Waiting for nodes.                                                      *)

Wait(t, p, n) ==
  /\ t \in Clients /\ Call(t, AtNode(p, n))
  /\ UNCHANGED <<cvars, status, nvars, kvars, qvars, asleep, thrown>>

(* Kernel::WaitForNodeStart.                                               *)
WaitStart(t) == pc[t].at = "waitStart" /\ WaitForNodeStart(t, pc[t].node, "idle")

(* Mutant of WaitOver: a node that is dead ends the wait, whatever else.   *)
WaitOverByDeath(n) == info[n].dead

(* LocalContext::WaitForNodeEnd leaves its loop without looking at the node*)
(* after Terminate.                                                        *)
WaitOver(n) == ~shutdown /\ info[n].dead

WaitForNodeEnd(t) ==
  LET n == pc[t].node
  IN  /\ pc[t].at = "waitEnd" /\ t \notin asleep
      /\ IF WaitOver(n) /\ ~info[n].started THEN Throw(t, NeverBegan) /\ UNCHANGED asleep
         ELSE /\ IF WaitOver(n) \/ shutdown THEN Goto(t, "idle") /\ UNCHANGED asleep
                 ELSE Sleep(t) /\ UNCHANGED pc
              /\ UNCHANGED thrown
      /\ UNCHANGED <<cvars, status, nvars, kvars, qvars>>

(* LocalContext::WaitForAllNodeEnd.                                        *)
WaitForAllNodeEnd(t) ==
  /\ pc[t].at = "waitAll" /\ t \notin asleep
  /\ IF numlivenodes > 0 /\ ~shutdown THEN Sleep(t) /\ UNCHANGED pc
     ELSE Goto(t, "idle") /\ UNCHANGED asleep
  /\ UNCHANGED <<cvars, status, nvars, kvars, qvars, thrown>>

---------------------------------------------------------------------------
(* Termination.                                                            *)

(* LocalContext::Terminate: the flag and the broadcasts under the lock.  A *)
(* client other than Main may terminate the context (for another kernel of *)
(* it) while this kernel is being constructed.                             *)
Terminate(t) ==
  /\ t \in Clients /\ pc[t].at = "idle" /\ (t = Main => status # "INITIALIZED")
  /\ shutdown' = TRUE /\ Wake(LiveDeadWaiters) /\ Goto(t, "notify")
  /\ UNCHANGED <<info, numlivenodes, kerneldead, status, nvars, kvars, qvars, thrown>>

(* The call of Kernel::NotifyTerminate, as far as SendWakeup.              *)
NotifyKernel(t) ==
  /\ pc[t].at = "notify"
  /\ IF ~kerneldead /\ status = "RUNNING"
     THEN status' = "TERMINATE" /\ Goto(t, "wakeup")
     ELSE Goto(t, "idle") /\ UNCHANGED status
  /\ UNCHANGED <<cvars, nvars, kvars, qvars, asleep, thrown>>

SendWakeup(t) ==
  /\ pc[t].at = "wakeup" /\ NodeLockFree /\ SignalKernel /\ Goto(t, "idle")
  /\ UNCHANGED <<cvars, status, nvars, kpc, kret, mapcopy, qvars, asleep, thrown>>

---------------------------------------------------------------------------
(* The kernel thread.                                                      *)

KGoto(p) == kpc' = p
KSame    == UNCHANGED <<cvars, qvars, tvars>>
(* ClearGarbage is called and goes on at r.                                *)
ClearGarbage(r) == kpc' = "gc" /\ kret' = r

KernelBegin ==
  /\ kpc = "init" /\ KGoto("start")
  /\ status' = IF status = "INITIALIZED" THEN "RUNNING" ELSE status
  /\ UNCHANGED <<nvars, nodecond_signal, kret, kasleep, mapcopy>> /\ KSame

(* Mutant of StartThrows: SignalKernelStart without InternalCheckTerminated.*)
StartThrowsNever == FALSE

StartThrows == shutdown

(* LocalContext::SignalKernelStart; its ShutdownException skips the loop.  *)
SignalKernelStart ==
  /\ kpc = "start"
  /\ IF StartThrows THEN KGoto("copy") /\ UNCHANGED kret ELSE ClearGarbage("loop")
  /\ UNCHANGED <<status, nvars, nodecond_signal, kasleep, mapcopy>> /\ KSame

(* Mutant of MaySleep: waits without looking at nodecond_signal.           *)
MaySleepAlways == TRUE

MaySleep == ~nodecond_signal

(* One turn of a loop of EntryPoint around nodecond.Wait, under nodelock:  *)
(* the wait is entered, or left, or not needed.  nodecond_signal is only   *)
(* reset after a wait.                                                     *)
LoopTurn(p, over, next) ==
  /\ kpc = p /\ NodeLockFree /\ ~kasleep
  /\ IF over THEN KGoto(next) /\ UNCHANGED <<kret, kasleep>>
     ELSE IF MaySleep THEN kasleep' = TRUE /\ KGoto("woken") /\ kret' = p
     ELSE ClearGarbage(p) /\ UNCHANGED kasleep
  /\ UNCHANGED <<status, nvars, nodecond_signal, mapcopy>> /\ KSame

RunLoop == LoopTurn("loop", status # "RUNNING", "copy")

(* After the wait.                                                         *)
Woken ==
  /\ kpc = "woken" /\ ~kasleep /\ NodeLockFree
  /\ nodecond_signal' = FALSE /\ ClearGarbage(kret)
  /\ UNCHANGED <<status, nvars, kasleep, mapcopy>> /\ KSame

(* ClearGarbage: takes garbagelock; joins and shuts node after node.       *)
LockGarbage ==
  /\ kpc = "gc" /\ KGoto("clear")
  /\ UNCHANGED <<status, nvars, nodecond_signal, kret, kasleep, mapcopy>> /\ KSame

(* Mutant of WaitersAtQueuesOf: the queues n reads only.                   *)
WaitersAtReadQueuesOf(n) ==
  UNION {QueueWaiters(q) : q \in {p \in Queues : Ends[p]["read"] = n /\ end[p]["read"] = "open"}}

(* The threads that wait for a queue open at n.                            *)
WaitersAtQueuesOf(n) ==
  UNION {QueueWaiters(q) : q \in {p \in Queues : \E d \in Side :
                                     Ends[p][d] = n /\ end[p][d] = "open"}}

(* NodeBase::Shutdown of the last node of the garbage: Join, then          *)
(* PseudoNode::Shutdown shuts the ends of its queues.                      *)
CollectNode ==
  LET n == garbagenodes[Len(garbagenodes)]
  IN  /\ kpc = "clear" /\ garbagenodes # <<>>
      /\ n \notin External => pc[n].at = "exited"
      /\ end' = [q \in Queues |-> [d \in Side |->
                   IF Ends[q][d] = n /\ end[q][d] = "open" THEN "shut" ELSE end[q][d]]]
      /\ Wake(WaitersAtQueuesOf(n))
      /\ garbagenodes' = SubSeq(garbagenodes, 1, Len(garbagenodes) - 1)
      /\ shut' = shut \cup {n}
      /\ UNCHANGED <<cvars, status, nodemap, kvars, asked, pc, thrown>>

UnlockGarbage ==
  /\ kpc = "clear" /\ garbagenodes = <<>> /\ KGoto(kret)
  /\ UNCHANGED <<status, nvars, nodecond_signal, kret, kasleep, mapcopy>> /\ KSame

CopyNodeMap ==
  /\ kpc = "copy" /\ NodeLockFree /\ mapcopy' = nodemap /\ KGoto("notify")
  /\ UNCHANGED <<status, nvars, nodecond_signal, kret, kasleep>> /\ KSame

Told(n) == NodeWaiters(n) \cup WaitersAtQueuesOf(n)

(* PseudoNode::NotifyTerminate of every node of the copy, in some order.   *)
NotifyNode(n) ==
  /\ kpc = "notify" /\ n \in mapcopy /\ mapcopy' = mapcopy \ {n}
  /\ Wake(Told(n))
  /\ UNCHANGED <<cvars, status, nvars, nodecond_signal, kpc, kret, kasleep, qvars,
                 pc, thrown>>

Notified ==
  /\ kpc = "notify" /\ mapcopy = {} /\ ClearGarbage("drain")
  /\ UNCHANGED <<status, nvars, nodecond_signal, kasleep, mapcopy>> /\ KSame

(* Mutant of Drained: the kernel does not wait for its nodes.              *)
DrainedAtOnce == TRUE

Drained == nodemap = {}

(* The wait for all nodes, then the last ClearGarbage.                     *)
DrainLoop == LoopTurn("drain", Drained, "last")

LastGarbage ==
  /\ kpc = "last" /\ ClearGarbage("end")
  /\ UNCHANGED <<status, nvars, nodecond_signal, kasleep, mapcopy>> /\ KSame

(* LocalContext::SignalKernelEnd.                                          *)
SignalKernelEnd ==
  /\ kpc = "end" /\ kerneldead' = TRUE /\ KGoto("done")
  /\ UNCHANGED <<shutdown, info, numlivenodes, status, nvars, nodecond_signal, kret,
                 kasleep, mapcopy, qvars, tvars>>

PostDone ==
  /\ kpc = "done" /\ status' = "DONE" /\ KGoto("exited")
  /\ UNCHANGED <<nvars, nodecond_signal, kret, kasleep, mapcopy>> /\ KSame

---------------------------------------------------------------------------
KernelThread ==
  \/ KernelBegin \/ SignalKernelStart \/ RunLoop \/ Woken \/ LockGarbage \/ CollectNode
  \/ UnlockGarbage \/ CopyNodeMap \/ (\E n \in Nodes : NotifyNode(n)) \/ Notified
  \/ DrainLoop \/ LastGarbage \/ SignalKernelEnd \/ PostDone

(* A step of a call that a thread is in, or of a node's start or end.      *)
Inside(t) ==
  \/ InternalCreateNode(t) \/ InsertEndpoint(t) \/ SignalNodeStart(t) \/ FindEndpoint(t)
  \/ SignalNodeEnd(t) \/ EraseNode(t) \/ BuryNode(t) \/ ReaderStart(t) \/ WriterStart(t)
  \/ ConnectEndpoints(t) \/ LookupNodes(t) \/ AttachWriter(t) \/ AttachReader(t)
  \/ ReleaseNodes(t) \/ GetEnd(t) \/ Unblock(t) \/ WaitStart(t) \/ WaitForNodeEnd(t)
  \/ WaitForAllNodeEnd(t) \/ NotifyKernel(t) \/ SendWakeup(t)

(* What a node's Process does next with its queues.                        *)
ProcessStep(n) ==
  Finish(n) \/ \E q \in Queues, d \in Side : GetQueue(n, q, d) \/ Block(n, q, d)

(* A call that a thread may make.                                          *)
Outside(t) ==
  \/ \E n \in Nodes : CreateNode(t, n) \/ DestroyExternalEndpoint(t, n)
  \/ \E n \in Nodes : Wait(t, "waitStart", n) \/ Wait(t, "waitEnd", n)
  \/ Wait(t, "waitAll", None) \/ Terminate(t)
  \/ \E q \in Queues : CreateQueue(t, q)
  \/ \E q \in Queues, d \in Side : Transfer(t, q, d)
  \/ t \in Clients /\ \E q \in Queues, d \in Side : GetQueue(t, q, d) \/ Block(t, q, d)

Next ==
  \/ KernelThread
  \/ \E t \in Threads : Inside(t) \/ Outside(t)
  \/ \E n \in Nodes \ External : ProcessStep(n)

(* The threads run; a node that is not blocked does not compute forever    *)
(* without using its queues or returning.                                  *)
Fairness ==
  /\ WF_vars(KernelThread)
  /\ \A t \in Threads : WF_vars(Inside(t))
  /\ \A n \in Nodes \ External : WF_vars(ProcessStep(n))

Spec == Init /\ [][Next]_vars /\ Fairness

---------------------------------------------------------------------------
(* Every node that has been created is in nodemap until it is in the       *)
(* garbage, so the ASSERT of NodeTerminated holds; and whoever waits for   *)
(* the end of a node finds one that had started (the ASSERT of             *)
(* WaitForNodeEnd), although a node that starts after Terminate ends       *)
(* without having started.                                                 *)
NodeAssertsHold == \A t \in Threads : thrown[t] \notin {NotInMap, NeverBegan}

(* WaitForAllNodes counts right: until Terminate, numlivenodes is the      *)
(* number of nodes that have started and not ended.                        *)
LiveCountExact ==
  ~shutdown => numlivenodes = Cardinality({n \in Nodes : info[n].started /\ ~info[n].dead})

(* "Wait for all nodes to end" (EntryPoint): when Wait returns, no node is *)
(* left, and no thread of a node that could still use the kernel.          *)
NodesEndFirst ==
  status = "DONE" => /\ nodemap = {} /\ garbagenodes = <<>>
                     /\ \A n \in Nodes \ External : pc[n].at \in {"unborn", "exited"}

(* The end of a queue at a node that has been collected is shut, except    *)
(* while CreateLocalQueue still holds the node it is attaching it to.      *)
EndsShut ==
  \A q \in Queues, d \in Side :
    end[q][d] = "open" /\ Ends[q][d] \in shut =>
      \E t \in Threads : pc[t].queue = q /\ pc[t].at \in {"attachReader", "release"}

(* The kernel thread does not sleep through the end of a node or through   *)
(* Terminate: while it sleeps the garbage is empty, and what would end its *)
(* loop has not happened or is about to be signalled.                      *)
KernelWakes ==
  kasleep => /\ garbagenodes = <<>>
             /\ kret = "loop" /\ status # "RUNNING" => \E t \in Clients : pc[t].at = "wakeup"
             /\ kret = "drain" /\ nodemap = {} => \E t \in Threads : pc[t].at = "bury"

(* Nor does a thread sleep through what it waits for: the start, the end   *)
(* or the number of nodes (the context's waits), an end of a queue that is *)
(* there now (GetReader, GetWriter), or a queue whose other end has been   *)
(* shut, even by the end of a node whose queue was just being created.     *)
ThreadsWake ==
  \A t \in asleep :
    LET p == pc[t]
    IN  /\ t \in LiveDeadWaiters => ~shutdown
        /\ p.at = "waitStart" => ~info[p.node].started
        /\ p.at = "waitEnd" => ~info[p.node].dead
        /\ p.at = "waitAll" => numlivenodes > 0
        /\ p.at = "readerStart" => ~info[Ends[p.queue]["read"]].started
        /\ p.at = "writerStart" => ~info[Ends[p.queue]["write"]].started
        /\ p.at = "get" => end[p.queue][p.side] # "open"
        /\ p.at = "blocked" => end[p.queue][Other(p.side)] # "shut"

(* Terminate completes: the kernel thread gets through to DONE, for which  *)
(* Wait and the destructor wait.                                           *)
TerminateCompletes == shutdown ~> status = "DONE"

(* WaitForNode returns once the node has ended or after Terminate.         *)
WaitReturns ==
  \A t \in Clients :
    (pc[t].at = "waitEnd" /\ (shutdown \/ info[pc[t].node].dead)) ~> pc[t].at # "waitEnd"
===========================================================================
