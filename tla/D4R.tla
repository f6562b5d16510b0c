------------------------------- MODULE D4R -------------------------------
(***************************************************************************)
(* The distributed deadlock detection and resolution (D4R) algorithm that  *)
(* the blocking queues of CPN run between the nodes of a process network.  *)
(* A node is a thread that reads and writes bounded queues; a queue has    *)
(* one reader and one writer.  A node that finds too little data (or too   *)
(* little space) blocks, takes a new tag, and passes on the tag of the     *)
(* node it waits for; the tag that comes back round a cycle of blocked     *)
(* nodes makes exactly one of them detect the deadlock: a writer grows its *)
(* queue, a reader dies of a DeadlockException.                            *)
(*                                                                         *)
(* An action is the code between two points where the thread gives up the  *)
(* lock of its queue, or one iteration of a loop that keeps it (lock).     *)
(* Data is abstracted to the number of elements in a queue.  Both ends of  *)
(* a queue have been attached: the wait for a peer that has not, at the    *)
(* beginning of ReadBlock and WriteBlock, is left out.                     *)
(***************************************************************************)
EXTENDS Integers, FiniteSets

CONSTANTS
  Node,        \* the keys of the nodes; they order the tags
  Queue,       \* the queues
  Reader,      \* Reader[q]: the node that reads queue q
  Writer,      \* Writer[q]: the node that writes queue q
  InitLength,  \* InitLength[q]: the queue length q is created with
  Requests,    \* the thresholds a node asks for
  GrowQueueMaxThreshold, \* the kernel attribute of that name
  NoSize,      \* the queue size unsigned(-1) of a node blocked on a read
  MaxOps,      \* bound: reads and writes a node may start
  NoNode       \* holds a lock that is free

ASSUME TopologyAssumption ==
  /\ Node \subseteq Nat /\ IsFiniteSet(Node) /\ NoNode \notin Node
  /\ Reader \in [Queue -> Node] /\ Writer \in [Queue -> Node]
  /\ InitLength \in [Queue -> Nat \ {0}]
ASSUME ParameterAssumption ==
  /\ Requests \subseteq Nat \ {0} /\ GrowQueueMaxThreshold \in BOOLEAN
  /\ NoSize \in Nat /\ MaxOps \in Nat

VARIABLES
  count, length,          \* elements in the queue and its length
  readshutdown, writeshutdown,
  request,                \* request[q][d]: readrequest and writerequest
  changed,                \* changed[q][d]: the peer of end d has a new tag
                          \* (writetagchanged for d = "read")
  incomm,                 \* one end of the queue is exchanging tags
  lock,                   \* holder of the queue's mutex between two steps
  publicTag, privateTag,  \* D4R::Node
  pc, op,                 \* control of a node; queue, end, threshold and the
                          \* queue size given to Block
  asleep,                 \* in cond.Wait on the queue of op
  tag,                    \* GetPublicTag() of the peer, as it was read
  detect,                 \* what Transmit returned
  pendR, pendW,           \* queues still to be told by this node's loops
  ops                     \* operations started (for MaxOps)

qvars == <<count, length, readshutdown, writeshutdown, request>>
tvars == <<changed, incomm, publicTag, privateTag, tag, detect>>
vars == <<qvars, tvars, lock, pc, op, asleep, pendR, pendW, ops>>

End == {"read", "write"}
NoOp == [q |-> NoNode, d |-> "read", want |-> 0, size |-> 0]
Other(d) == IF d = "read" THEN "write" ELSE "read"
Owner(q, d) == IF d = "read" THEN Reader[q] ELSE Writer[q]

Larger(a, b) == IF a >= b THEN a ELSE b

Reads(n)  == {q \in Queue : Reader[q] = n}
Writes(n) == {q \in Queue : Writer[q] = n}

---------------------------------------------------------------------------
(* Tags. A label (count, key) and a priority (qsize, qkey); both are       *)
(* compared as 128-bit numbers, the first component most significant.      *)

PairLess(a1, a2, b1, b2) == a1 < b1 \/ (a1 = b1 /\ a2 < b2)

PriorityLess(a, b) == PairLess(a.qsize, a.qkey, b.qsize, b.qkey)

TagLess(a, b) ==
  IF a.count = b.count /\ a.key = b.key
    THEN PriorityLess(b, a)
    ELSE PairLess(a.count, a.key, b.count, b.key)

InitTag(k) == [count |-> 0, key |-> k, qsize |-> NoSize + 1, qkey |-> k]

(* Mutant of SamePriority: whoever sees its public tag again detects.      *)
SamePriorityAlways(a, b) == TRUE

SamePriority(a, b) == a.qsize = b.qsize /\ a.qkey = b.qkey

(* Mutant of BlockTag: the count of the label is not raised.               *)
BlockTagSame(priv, pub, t, qsize) ==
  [priv EXCEPT !.qsize = qsize, !.count = Larger(pub.count, t.count)]

(* Node::Block's new private tag; it also becomes the public one.          *)
BlockTag(priv, pub, t, qsize) ==
  [priv EXCEPT !.qsize = qsize, !.count = Larger(pub.count, t.count) + 1]

(* Mutant of TransmitTag: the priority of the sender, not the smaller one.  *)
TransmitTagWhole(priv, t) == t

(* Node::Transmit: the tag of the node waited for, with the smaller of its *)
(* priority and the private one.                                           *)
TransmitTag(priv, t) ==
  IF PriorityLess(priv, t) THEN [t EXCEPT !.qsize = priv.qsize, !.qkey = priv.qkey]
                           ELSE t

---------------------------------------------------------------------------
Shut(q) == readshutdown[q] \/ writeshutdown[q]

(* UnlockedCount() for the reader's end, UnlockedFreespace() for the other.*)
Avail(q, d) == IF d = "read" THEN count[q] ELSE length[q] - count[q]

(* QueueBase::ReadBlocked and WriteBlocked.                                *)
Blocked(q, d) == Avail(q, d) < request[q][d] /\ ~Shut(q)

Free(q, n) == lock[q] \in {NoNode, n}

(* Signal() on the condition variable of q: every sleeper of q wakes up.   *)
Wake(q) == [m \in Node |-> asleep[m] /\ op[m].q # q]

Peer(n) == Owner(op[n].q, Other(op[n].d))

Goto(n, l) == pc' = [pc EXCEPT ![n] = l]

Init ==
  /\ count = [q \in Queue |-> 0]
  /\ length = InitLength
  /\ readshutdown = [q \in Queue |-> FALSE]
  /\ writeshutdown = [q \in Queue |-> FALSE]
  /\ request = [q \in Queue |-> [d \in End |-> 0]]
  /\ changed = [q \in Queue |-> [d \in End |-> FALSE]]
  /\ incomm = [q \in Queue |-> FALSE]
  /\ lock = [q \in Queue |-> NoNode]
  /\ publicTag = [n \in Node |-> InitTag(n)]
  /\ privateTag = [n \in Node |-> InitTag(n)]
  /\ pc = [n \in Node |-> "run"]
  /\ op = [n \in Node |-> NoOp]
  /\ asleep = [n \in Node |-> FALSE]
  /\ tag = [n \in Node |-> InitTag(n)]
  /\ detect = [n \in Node |-> FALSE]
  /\ pendR = [n \in Node |-> {}] /\ pendW = [n \in Node |-> {}]
  /\ ops = [n \in Node |-> 0]

(* The node's program picks its next operation.                            *)
Begin(n) ==
  /\ pc[n] = "run" /\ ops[n] < MaxOps
  /\ \E q \in Queue, d \in End, w \in Requests :
       /\ Owner(q, d) = n
       /\ op' = [op EXCEPT ![n] = [q |-> q, d |-> d, want |-> w, size |-> 0]]
  /\ ops' = [ops EXCEPT ![n] = @ + 1]
  /\ Goto(n, "get")
  /\ UNCHANGED <<qvars, tvars, lock, asleep, pendR, pendW>>

(* One iteration of the loop of GetRawDequeuePtr or GetRawEnqueuePtr, with *)
(* the queue locked.  (The writer's flag "grown" is left out: after it has *)
(* grown the queue the next iteration finds the space.)                    *)
GetReady(n, q, d, w) ==
  /\ Avail(q, d) >= w
  /\ Goto(n, "have") /\ lock' = [lock EXCEPT ![q] = NoNode]
  /\ UNCHANGED <<qvars, tvars, op, asleep, pendR, pendW, ops>>

(* The reader gets no pointer once the writer is gone; a shut queue throws *)
(* BrokenQueueException at the writer, which ends the node.                *)
GetBroken(n, q, d, w) ==
  /\ Avail(q, d) < w /\ Shut(q)
  /\ Goto(n, IF d = "read" THEN "run" ELSE "exit")
  /\ op' = [op EXCEPT ![n] = NoOp]
  /\ lock' = [lock EXCEPT ![q] = NoNode]
  /\ UNCHANGED <<qvars, tvars, asleep, pendR, pendW, ops>>

GetGrow(n, q, d, w) ==
  /\ Avail(q, d) < w /\ ~Shut(q)
  /\ Blocked(q, Other(d)) /\ GrowQueueMaxThreshold
  /\ length' = [length EXCEPT ![q] = Larger(@, request[q][Other(d)] + w)]
  /\ asleep' = Wake(q)
  /\ lock' = [lock EXCEPT ![q] = n]
  /\ UNCHANGED <<count, readshutdown, writeshutdown, request, tvars, pc, op,
                 pendR, pendW, ops>>

(* while (incomm) Wait(); incomm = true; unlock.                           *)
TakeComm(n, q, waiting, taken) ==
  /\ asleep' = [asleep EXCEPT ![n] = incomm[q]]
  /\ incomm' = [incomm EXCEPT ![q] = TRUE]
  /\ Goto(n, IF incomm[q] THEN waiting ELSE taken)
  /\ lock' = [lock EXCEPT ![q] = NoNode]

(* WaitForData or WaitForFreespace, up to the tag exchange of Block.       *)
GetBlock(n, q, d, w) ==
  /\ Avail(q, d) < w /\ ~Shut(q)
  /\ ~(Blocked(q, Other(d)) /\ GrowQueueMaxThreshold)
  /\ request' = [request EXCEPT ![q][d] = w]
  /\ op' = [op EXCEPT ![n].size = IF d = "read" THEN NoSize ELSE length[q]]
  /\ changed' = [changed EXCEPT ![q][d] = FALSE]
  /\ TakeComm(n, q, "blockwait", "blocktag")
  /\ UNCHANGED <<count, length, readshutdown, writeshutdown, publicTag,
                 privateTag, tag, detect, pendR, pendW, ops>>

GetPtr(n) ==
  /\ pc[n] = "get" /\ Free(op[n].q, n)
  /\ LET q == op[n].q  d == op[n].d  w == op[n].want
     IN  \/ GetReady(n, q, d, w)
         \/ GetBroken(n, q, d, w)
         \/ GetGrow(n, q, d, w)
         \/ GetBlock(n, q, d, w)

(* Woken in "while (incomm) { Wait(); }".                                  *)
CommWait(n) ==
  /\ pc[n] \in {"blockwait", "transwait"} /\ ~asleep[n] /\ Free(op[n].q, n)
  /\ TakeComm(n, op[n].q, pc[n],
              IF pc[n] = "blockwait" THEN "blocktag" ELSE "transtag")
  /\ UNCHANGED <<qvars, changed, publicTag, privateTag, tag, detect, op,
                 pendR, pendW, ops>>

(* GetPublicTag() of the node at the other end, under its tag lock only.   *)
GetPublicTag(n) ==
  /\ pc[n] \in {"blocktag", "transtag"}
  /\ tag' = [tag EXCEPT ![n] = publicTag[Peer(n)]]
  /\ Goto(n, IF pc[n] = "blocktag" THEN "block" ELSE "transmit")
  /\ UNCHANGED <<qvars, changed, incomm, publicTag, privateTag, detect, lock,
                 op, asleep, pendR, pendW, ops>>

(* Mutant of StartSignal: the queues the node writes are forgotten.        *)
StartSignalReaders(n) ==
  pendR' = [pendR EXCEPT ![n] = Reads(n)] /\ pendW' = [pendW EXCEPT ![n] = {}]

(* SignalTagChanged() starts with the queues the node reads and writes.    *)
StartSignal(n) ==
  /\ pendR' = [pendR EXCEPT ![n] = Reads(n)]
  /\ pendW' = [pendW EXCEPT ![n] = Writes(n)]

Block(n) ==
  /\ pc[n] = "block"
  /\ LET new == BlockTag(privateTag[n], publicTag[n], tag[n], op[n].size)
     IN  /\ privateTag' = [privateTag EXCEPT ![n] = new]
         /\ publicTag' = [publicTag EXCEPT ![n] = new]
  /\ StartSignal(n)
  /\ tag' = [tag EXCEPT ![n] = InitTag(n)]
  /\ Goto(n, "signal")
  /\ UNCHANGED <<qvars, changed, incomm, detect, lock, op, asleep, ops>>

Transmit(n) ==
  /\ pc[n] = "transmit"
  /\ LET t == tag[n]  pub == publicTag[n]
     IN  \/ /\ TagLess(pub, t)
            /\ publicTag' = [publicTag EXCEPT ![n] = TransmitTag(privateTag[n], t)]
            /\ StartSignal(n)
            /\ UNCHANGED detect
         \/ /\ ~TagLess(pub, t)
            /\ detect' = [detect EXCEPT ![n] =
                            pub = t /\ SamePriority(pub, privateTag[n])]
            /\ UNCHANGED <<publicTag, pendR, pendW>>
  /\ tag' = [tag EXCEPT ![n] = InitTag(n)]
  /\ Goto(n, "signal")
  /\ UNCHANGED <<qvars, changed, incomm, privateTag, lock, op, asleep, ops>>

(* SignalReaderTagChanged on every queue the node reads, then              *)
(* SignalWriterTagChanged on every queue it writes, each under its lock.   *)
SignalEnd(n, q, d) ==
  /\ pc[n] = "signal" /\ Free(q, n)
  /\ changed' = [changed EXCEPT ![q][Other(d)] = TRUE]
  /\ asleep' = Wake(q)
  /\ UNCHANGED <<qvars, incomm, publicTag, privateTag, tag, detect, lock, pc,
                 op, ops>>

SignalTagChanged(n) ==
  \/ \E q \in pendR[n] :
       /\ SignalEnd(n, q, "read")
       /\ pendR' = [pendR EXCEPT ![n] = @ \ {q}] /\ UNCHANGED pendW
  \/ \E q \in pendW[n] :
       /\ pendR[n] = {}
       /\ SignalEnd(n, q, "write")
       /\ pendW' = [pendW EXCEPT ![n] = @ \ {q}] /\ UNCHANGED pendR

(* The queue is locked again, incomm released and the sleepers woken; a    *)
(* detection throws at the reader's end and grows the queue at the         *)
(* writer's: Detect() with CalculateGrowSize(count, writerequest).         *)
EndComm(n) ==
  LET q == op[n].q IN
  /\ pc[n] = "signal" /\ pendR[n] = {} /\ pendW[n] = {} /\ Free(q, n)
  /\ incomm' = [incomm EXCEPT ![q] = FALSE]
  /\ asleep' = Wake(q)
  /\ detect' = [detect EXCEPT ![n] = FALSE]
  /\ IF detect[n] /\ op[n].d = "read"
       THEN /\ Goto(n, "exit") /\ UNCHANGED <<length, lock>>
            /\ op' = [op EXCEPT ![n] = NoOp]
       ELSE /\ Goto(n, "loop") /\ lock' = [lock EXCEPT ![q] = n]
            /\ length' = [length EXCEPT ![q] =
                  IF detect[n] THEN Larger(@, count[q] + request[q]["write"]) ELSE @]
            /\ UNCHANGED op
  /\ UNCHANGED <<count, readshutdown, writeshutdown, request, changed,
                 publicTag, privateTag, tag, pendR, pendW, ops>>

(* The head of "while (ReadBlocked())" or "while (WriteBlocked())".        *)
LoopActivate(n, q, d) ==
  /\ ~Blocked(q, d)
  /\ request' = [request EXCEPT ![q][d] = 0]
  /\ lock' = [lock EXCEPT ![q] = n]
  /\ Goto(n, "get")
  /\ UNCHANGED <<count, length, readshutdown, writeshutdown, tvars, op, asleep,
                 pendR, pendW, ops>>

LoopTransmit(n, q, d) ==
  /\ Blocked(q, d) /\ changed[q][d]
  /\ changed' = [changed EXCEPT ![q][d] = FALSE]
  /\ TakeComm(n, q, "transwait", "transtag")
  /\ UNCHANGED <<qvars, publicTag, privateTag, tag, detect, op, pendR, pendW, ops>>

LoopWait(n, q, d) ==
  /\ Blocked(q, d) /\ ~changed[q][d]
  /\ asleep' = [asleep EXCEPT ![n] = TRUE]
  /\ lock' = [lock EXCEPT ![q] = NoNode]
  /\ UNCHANGED <<qvars, tvars, pc, op, pendR, pendW, ops>>

Loop(n) ==
  /\ pc[n] = "loop" /\ ~asleep[n] /\ Free(op[n].q, n)
  /\ LET q == op[n].q  d == op[n].d
     IN  LoopActivate(n, q, d) \/ LoopTransmit(n, q, d) \/ LoopWait(n, q, d)

(* Mutant of Notify: more than the request has to be there.                *)
NotifyAbove(q, d, w) ==
  IF Avail(q, d) + w > request[q][d] THEN Wake(q) ELSE asleep

(* NotifyData or NotifyFreespace: w more elements at end d wake the        *)
(* sleepers only if the request of that end is now met.                    *)
Notify(q, d, w) ==
  IF Avail(q, d) + w >= request[q][d] THEN Wake(q) ELSE asleep

(* Dequeue or Enqueue of what was asked for.                               *)
Transfer(n) ==
  LET q == op[n].q  d == op[n].d  w == op[n].want IN
  /\ pc[n] = "have" /\ Free(q, n)
  /\ count' = [count EXCEPT ![q] = IF d = "read" THEN @ - w ELSE @ + w]
  /\ asleep' = Notify(q, Other(d), w)
  /\ Goto(n, "run")
  /\ op' = [op EXCEPT ![n] = NoOp]
  /\ UNCHANGED <<length, readshutdown, writeshutdown, request, tvars, lock,
                 pendR, pendW, ops>>

(* A node may end whenever its program is running.                         *)
Exit(n) ==
  /\ pc[n] \in {"run", "exit"}
  /\ StartSignal(n)
  /\ Goto(n, "shutdown")
  /\ UNCHANGED <<qvars, tvars, lock, op, asleep, ops>>

(* PseudoNode::Shutdown: ShutdownReader on the queues it reads, then       *)
(* ShutdownWriter on the ones it writes.                                   *)
Shutdown(n) ==
  /\ pc[n] = "shutdown"
  /\ \/ \E q \in pendR[n] :
           /\ Free(q, n)
           /\ readshutdown' = [readshutdown EXCEPT ![q] = TRUE]
           /\ asleep' = Wake(q)
           /\ pendR' = [pendR EXCEPT ![n] = @ \ {q}]
           /\ UNCHANGED <<writeshutdown, pendW, pc>>
     \/ \E q \in pendW[n] :
           /\ pendR[n] = {} /\ Free(q, n)
           /\ writeshutdown' = [writeshutdown EXCEPT ![q] = TRUE]
           /\ asleep' = Wake(q)
           /\ pendW' = [pendW EXCEPT ![n] = @ \ {q}]
           /\ UNCHANGED <<readshutdown, pendR, pc>>
     \/ /\ pendR[n] = {} /\ pendW[n] = {}
        /\ Goto(n, "done")
        /\ UNCHANGED <<readshutdown, writeshutdown, asleep, pendR, pendW>>
  /\ UNCHANGED <<count, length, request, tvars, lock, op, ops>>

(* What the node's thread does by itself once it has begun an operation.   *)
Step(n) ==
  \/ GetPtr(n) \/ CommWait(n) \/ GetPublicTag(n) \/ Block(n) \/ Transmit(n)
  \/ SignalTagChanged(n) \/ EndComm(n) \/ Loop(n) \/ Transfer(n) \/ Shutdown(n)

Finished == (\A n \in Node : pc[n] = "done") /\ UNCHANGED vars

Next == (\E n \in Node : Begin(n) \/ Step(n) \/ Exit(n)) \/ Finished

Spec == Init /\ [][Next]_vars

(* Threads are scheduled fairly; the programs need not go on or end.       *)
FairSpec == Spec /\ \A n \in Node : WF_vars(Step(n))

---------------------------------------------------------------------------
(* Where a node is inside ReadBlock or WriteBlock, and where it owns       *)
(* incomm.                                                                 *)
CommPc == {"blocktag", "block", "transtag", "transmit", "signal"}
WaitPc == {"blockwait", "transwait", "loop"}
OpPc   == CommPc \cup WaitPc \cup {"get", "have"}
Pc     == OpPc \cup {"run", "exit", "shutdown", "done"}

Tag == [count : Nat, key : Node, qsize : Nat, qkey : Node]
Op  == [q : Queue, d : End, want : Nat, size : Nat] \cup {NoOp}

(* The types of the variables; a queue never holds more than its length.   *)
TypeOK ==
  /\ count \in [Queue -> Nat] /\ length \in [Queue -> Nat]
  /\ \A q \in Queue : count[q] <= length[q]
  /\ readshutdown \in [Queue -> BOOLEAN] /\ writeshutdown \in [Queue -> BOOLEAN]
  /\ request \in [Queue -> [End -> Nat]]
  /\ changed \in [Queue -> [End -> BOOLEAN]]
  /\ incomm \in [Queue -> BOOLEAN]
  /\ lock \in [Queue -> Node \cup {NoNode}]
  /\ publicTag \in [Node -> Tag] /\ privateTag \in [Node -> Tag]
  /\ tag \in [Node -> Tag]
  /\ pc \in [Node -> Pc] /\ op \in [Node -> Op]
  /\ asleep \in [Node -> BOOLEAN] /\ detect \in [Node -> BOOLEAN]
  /\ pendR \in [Node -> SUBSET Queue] /\ pendW \in [Node -> SUBSET Queue]
  /\ ops \in [Node -> Nat]

(* A thread sleeps on the condition variable of its queue only while what  *)
(* it sleeps for still holds: NotifyData and NotifyFreespace, which        *)
(* broadcast only when the request is met, the growth of the queue, the    *)
(* shutdowns, the tag signals and the release of incomm miss nobody.       *)
NoLostWakeup ==
  \A n \in Node : asleep[n] =>
    LET q == op[n].q  d == op[n].d IN
    \/ pc[n] = "loop" /\ Blocked(q, d) /\ ~changed[q][d]
    \/ pc[n] \in {"blockwait", "transwait"} /\ incomm[q]

InComm(n, q) == pc[n] \in CommPc /\ op[n].q = q

(* incomm is a lock that outlives the mutex: at most one of the two nodes  *)
(* of a queue exchanges tags over it, and the flag says whether one does.  *)
CommExclusive ==
  \A q \in Queue :
    /\ incomm[q] <=> \E n \in Node : InComm(n, q)
    /\ \A n, m \in Node : InComm(n, q) /\ InComm(m, q) => n = m

(* Whom a blocked node waits for, and the cycles of nodes that wait: no    *)
(* part of a cycle is closed by itself.                                    *)
Waiting(n) ==
  pc[n] \in CommPc \cup WaitPc /\ Blocked(op[n].q, op[n].d)

IsCycle(C) ==
  /\ C # {} /\ \A n \in C : Waiting(n) /\ Peer(n) \in C
  /\ \A D \in SUBSET C : D # {} /\ (\A n \in D : Peer(n) \in D) => D = C

OnCycle(n) == \E C \in SUBSET Node : n \in C /\ IsCycle(C)

(* "One and only one of the nodes in the deadlock will detect the          *)
(* deadlock" (D4RTag.h): no two nodes of a cycle of blocked nodes act on a *)
(* detection.                                                              *)
OneDetector ==
  \A C \in SUBSET Node : IsCycle(C) =>
    \A n, m \in C : detect[n] /\ detect[m] => n = m

(* The same for two nodes that wait for each other, blocked or not: they   *)
(* never both take themselves for the one that has to resolve it, however  *)
(* old the tags are that they act on.                                      *)
OneOfTwo ==
  \A n, m \in Node :
    detect[n] /\ detect[m] /\ Peer(n) = m /\ Peer(m) = n => n = m

(* A node's public tag only moves up in the order of the tags, in Block    *)
(* and in Transmit: a tag that has been left behind never comes back, so a *)
(* node that sees its own tag at its peer sees one that went round.        *)
TagsGrow ==
  [][\A n \in Node : publicTag'[n] = publicTag[n]
                     \/ TagLess(publicTag[n], publicTag'[n])]_vars

(* "The exception thrown when true deadlock is detected"                   *)
(* (D4RDeadlockException.h): a reader that is about to throw it because of *)
(* what Transmit returned is on a cycle of blocked nodes.                  *)
TrueDeadlock ==
  \A n \in Node : detect[n] /\ op[n].d = "read" => OnCycle(n)

(* The priority of the tags does its work: when a node of a cycle detects  *)
(* the deadlock and some node of the cycle is blocked on a full queue, the *)
(* detector is the writer of a smallest such queue, so that an artificial  *)
(* deadlock is resolved by growing a queue and never by killing a reader.  *)
SmallestQueueGrows ==
  \A C \in SUBSET Node : IsCycle(C) =>
    \A n, m \in C : detect[n] /\ op[m].d = "write" =>
      op[n].d = "write" /\ length[op[n].q] <= length[op[m].q]

(* No cycle of blocked nodes lasts: some node of it detects it and grows   *)
(* its queue or dies.                                                      *)
DeadlockResolved == \A n \in Node : OnCycle(n) ~> ~OnCycle(n)
====
