--------------------------- MODULE Kernel_proofs ---------------------------
(***************************************************************************)
(* Type correctness of Kernel, that its kernel thread does not sleep       *)
(* through the end of a node or through Terminate, that no other thread    *)
(* sleeps through what it waits for, and the life of a node from           *)
(* CreateNode to the garbage, for any numbers of clients, nodes, endpoints *)
(* and queues.                                                             *)
(***************************************************************************)
EXTENDS Kernel, FiniteSetTheorems, TLAPS

(* The places where a call is about a node, about a queue, and where a     *)
(* node starts or ends.                                                    *)
NodeCalls  == {"create", "insert", "destroy", "waitStart", "waitEnd"}
LifeCalls  == {"begin", "ending", "erase", "bury"}
QueueCalls == {"readerStart", "writerStart", "connect", "lookup", "attachWriter",
               "attachReader", "release", "get", "blocked"}

(* A thread at r knows the node or the queue it is about.                  *)
Knows(t, r) ==
  /\ r.at \in NodeCalls => r.node \in Nodes
  /\ r.at = "create" => r.node \notin External
  /\ r.at \in LifeCalls /\ t \notin Nodes => r.node \in Nodes
  /\ r.at \in QueueCalls => r.queue \in Queues
  /\ r.at \in {"notify", "wakeup"} => t \in Clients

CallsKnow == \A t \in Threads : Knows(t, pc[t])

(* A signal that came while the kernel thread was busy is remembered, and  *)
(* it sleeps only without one.                                             *)
SignalKept ==
  /\ kasleep => kpc = "woken" /\ ~nodecond_signal
  /\ garbagenodes # <<>> => nodecond_signal \/ kpc \in {"gc", "clear"}

IInv == TypeOK /\ CallsKnow /\ SignalKept /\ KernelWakes

---------------------------------------------------------------------------
LEMMA ModType == ASSUME NEW k \in Nat PROVE k % UnsignedMod \in 0..UnsignedMod - 1
<1>1. UnsignedMod \in Nat /\ UnsignedMod > 0
  BY CountAssumption, FS_CardinalityType
<1> QED BY <1>1

(* The type and the knowledge of all threads, when one of them moves.      *)
LEMMA Moves ==
  ASSUME TypeOK, CallsKnow, NEW t \in Threads, NEW r \in PC, Knows(t, r),
         pc' = [pc EXCEPT ![t] = r]
  PROVE  pc' \in [Threads -> PC] /\ CallsKnow'
<1>1. pc \in [Threads -> PC] BY DEF TypeOK
<1>2. pc' \in [Threads -> PC] BY <1>1
<1>3. \A u \in Threads : Knows(u, pc'[u]) BY <1>1 DEF CallsKnow
<1> QED BY <1>2, <1>3 DEF CallsKnow, Knows

LEMMA AtType ==
  ASSUME NEW p \in Places
  PROVE  /\ At(p) \in PC /\ At(p).at = p
         /\ \A n \in Nodes \cup {None} : AtNode(p, n) \in PC /\ AtNode(p, n).at = p
                                         /\ AtNode(p, n).node = n
         /\ \A q \in Queues, d \in Side : AtQueue(p, q, d) \in PC /\ AtQueue(p, q, d).at = p
                                         /\ AtQueue(p, q, d).queue = q
BY DEF At, AtNode, AtQueue, PC, Side

(* A thread that goes on with its call keeps what it knows; one that is    *)
(* back from it needs nothing.                                             *)
LEMMA Gotos ==
  ASSUME TypeOK, CallsKnow, NEW t \in Threads, NEW p \in Places, Goto(t, p),
         p = "idle" \/ (t \in Nodes /\ p = "ending") \/ Knows(t, [pc[t] EXCEPT !.at = p])
  PROVE  pc' \in [Threads -> PC] /\ CallsKnow'
<1>1. pc[t] \in PC BY DEF TypeOK
<1>2. [pc[t] EXCEPT !.at = p] \in PC BY <1>1 DEF PC
<1>3. CASE p = "idle" \/ (t \in Nodes /\ p = "ending")
  <2>1. pc' = [pc EXCEPT ![t] = At(p)] BY <1>3 DEF Goto
  <2>2. At(p) \in PC /\ At(p).at = p BY AtType
  <2>3. Knows(t, At(p))
    BY <1>3, <2>2 DEF Knows, NodeCalls, LifeCalls, QueueCalls
  <2> QED BY <2>1, <2>2, <2>3, Moves
<1>4. CASE ~(p = "idle" \/ (t \in Nodes /\ p = "ending"))
  <2>1. pc' = [pc EXCEPT ![t] = [pc[t] EXCEPT !.at = p]] BY <1>4 DEF Goto
  <2> QED BY <1>2, <1>4, <2>1, Moves
<1> QED BY <1>3, <1>4

(* The same for a thread whose call throws.                                *)
LEMMA Throws ==
  ASSUME TypeOK, CallsKnow, NEW t \in Threads, NEW e, Throw(t, e)
  PROVE  /\ pc' \in [Threads -> PC] /\ CallsKnow'
         /\ thrown' \in [Threads -> Asserts \cup {None}]
<1>1. thrown' \in [Threads -> Asserts \cup {None}] BY DEF Throw, TypeOK
<1>2. pc[t] \in PC BY DEF TypeOK
<1>3. [pc[t] EXCEPT !.at = "aborted"].at = "aborted" BY <1>2 DEF PC
<1>4. Knows(t, [pc[t] EXCEPT !.at = "aborted"])
  BY <1>3 DEF Knows, NodeCalls, LifeCalls, QueueCalls
<1> SUFFICES pc' \in [Threads -> PC] /\ CallsKnow' BY <1>1
<1>5. CASE t \in Clients
  <2>1. Goto(t, "idle") BY <1>5 DEF Throw
  <2>2. "idle" \in Places BY DEF Places
  <2> QED BY <2>1, <2>2, Gotos
<1>6. CASE t \notin Clients
  <2>1. t \in Nodes BY <1>6 DEF Threads
  <2>2. Goto(t, "ending") \/ Goto(t, "aborted") BY <1>6 DEF Throw
  <2> QED BY <2>1, <2>2, <1>4, Gotos DEF Places
<1> QED BY <1>1, <1>5, <1>6

(* Where a thread may go on from where it is.                              *)
MayGo(t, p) ==
  \/ p \in {"idle", "exited"}
  \/ pc[t].at \in QueueCalls /\ p \in QueueCalls
  \/ pc[t].at \in NodeCalls \cup LifeCalls /\ p \in LifeCalls
  \/ t \in Clients /\ p \in {"notify", "wakeup"}
  \/ t \in Nodes /\ p = "ending"

LEMMA GoesOn ==
  ASSUME TypeOK, CallsKnow, NEW t \in Threads, NEW p \in Places, Goto(t, p), MayGo(t, p)
  PROVE  pc' \in [Threads -> PC] /\ CallsKnow'
<1>1. pc[t] \in PC /\ Knows(t, pc[t]) BY DEF TypeOK, CallsKnow
<1> DEFINE r == [pc[t] EXCEPT !.at = p]
<1>2. r.at = p /\ r.node = pc[t].node /\ r.queue = pc[t].queue BY <1>1 DEF PC
<1>3. p = "idle" \/ (t \in Nodes /\ p = "ending") \/ Knows(t, r)
  <2> SUFFICES ASSUME p # "idle", ~(t \in Nodes /\ p = "ending") PROVE Knows(t, r)
    OBVIOUS
  <2> HIDE DEF r
  <2>1. CASE p = "exited"
    BY <1>2, <2>1 DEF Knows, NodeCalls, LifeCalls, QueueCalls
  <2>2. CASE pc[t].at \in QueueCalls /\ p \in QueueCalls
    BY <1>1, <1>2, <2>2 DEF Knows, NodeCalls, LifeCalls, QueueCalls
  <2>3. CASE pc[t].at \in NodeCalls \cup LifeCalls /\ p \in LifeCalls
    BY <1>1, <1>2, <2>3 DEF Knows, NodeCalls, LifeCalls, QueueCalls
  <2>4. CASE t \in Clients /\ p \in {"notify", "wakeup"}
    BY <1>2, <2>4 DEF Knows, NodeCalls, LifeCalls, QueueCalls
  <2> QED BY <2>1, <2>2, <2>3, <2>4 DEF MayGo
<1> HIDE DEF r
<1> QED BY <1>3, Gotos DEF r

(* A thread that is between two calls begins one.                          *)
LEMMA Calls ==
  ASSUME TypeOK, CallsKnow, NEW t \in Threads, NEW r \in PC, Call(t, r), Knows(t, r)
  PROVE  pc' \in [Threads -> PC] /\ CallsKnow'
BY Moves DEF Call

---------------------------------------------------------------------------
(* Every step preserves TypeOK and CallsKnow.                              *)

(* What NodeOf and Ended are of a thread that starts or ends a node.       *)
LEMMA NodeOfType ==
  ASSUME TypeOK, CallsKnow, NEW t \in Threads, pc[t].at \in LifeCalls
  PROVE  NodeOf(t) \in Nodes
BY DEF CallsKnow, Knows, NodeOf

LEMMA EndedGoes ==
  ASSUME NEW t \in Threads PROVE Ended(t) \in Places /\ MayGo(t, Ended(t))
BY DEF Ended, MayGo, Places

(* TypeOK without pc.                                                      *)
RestOK ==
  /\ shutdown \in BOOLEAN /\ kerneldead \in BOOLEAN
  /\ info \in [Nodes -> [there : BOOLEAN, started : BOOLEAN, dead : BOOLEAN]]
  /\ numlivenodes \in 0..UnsignedMod - 1
  /\ status \in Status /\ nodemap \subseteq Nodes
  /\ garbagenodes \in Seq(Nodes) /\ shut \subseteq Nodes
  /\ nodecond_signal \in BOOLEAN /\ kasleep \in BOOLEAN
  /\ kpc \in KPC /\ kret \in {"loop", "drain", "end"} /\ mapcopy \subseteq Nodes
  /\ end \in [Queues -> [Side -> {"none", "open", "shut"}]] /\ asked \subseteq Queues
  /\ asleep \subseteq Threads /\ thrown \in [Threads -> Asserts \cup {None}]

LEMMA InsideType ==
  ASSUME TypeOK, CallsKnow, NEW t \in Threads, Inside(t)
  PROVE  TypeOK' /\ CallsKnow'
<1> USE DEF cvars, nvars, kvars, qvars, tvars
<1>r. RestOK /\ pc[t] \in PC /\ Knows(t, pc[t]) BY DEF TypeOK, RestOK, CallsKnow
<1> SUFFICES RestOK' /\ pc' \in [Threads -> PC] /\ CallsKnow' BY DEF TypeOK, RestOK
<1>1. CASE InternalCreateNode(t)
  <2> DEFINE n == pc[t].node
  <2>1. n \in Nodes \ External /\ n \in Threads
    BY <1>r, <1>1 DEF InternalCreateNode, Knows, NodeCalls, Threads
  <2>2. CASE status = "RUNNING"
    <3>1. pc' = [[pc EXCEPT ![t] = At("idle")] EXCEPT ![n] = At("begin")]
          /\ UNCHANGED thrown /\ nodemap' = nodemap \cup {n}
      BY <1>1, <2>2 DEF InternalCreateNode
    <3>2. RestOK' BY <1>r, <1>1, <2>1, <3>1 DEF InternalCreateNode, RestOK
    <3>3. /\ At("idle") \in PC /\ Knows(t, At("idle"))
          /\ At("begin") \in PC /\ Knows(n, At("begin"))
      BY <2>1, AtType DEF Knows, NodeCalls, LifeCalls, QueueCalls, Places
    <3>4. pc \in [Threads -> PC] BY DEF TypeOK
    <3>5. pc' \in [Threads -> PC] /\ \A u \in Threads : Knows(u, pc'[u])
      BY <2>1, <3>1, <3>3, <3>4 DEF CallsKnow
    <3>6. CallsKnow' BY <3>5 DEF CallsKnow, Knows
    <3> QED BY <3>2, <3>5, <3>6
  <2>3. CASE status # "RUNNING"
    <3>1. Throw(t, NotRunning) /\ UNCHANGED nodemap BY <1>1, <2>3 DEF InternalCreateNode
    <3>2. pc' \in [Threads -> PC] /\ CallsKnow' /\ thrown' \in [Threads -> Asserts \cup {None}]
      BY <3>1, Throws
    <3>3. RestOK' BY <1>r, <1>1, <3>1, <3>2 DEF InternalCreateNode, RestOK
    <3> QED BY <3>2, <3>3
  <2> QED BY <2>2, <2>3
<1>2. CASE InsertEndpoint(t)
  <2>1. Goto(t, "begin") /\ pc[t].at = "insert" BY <1>2 DEF InsertEndpoint
  <2>2. pc[t].node \in Nodes BY <1>r, <2>1 DEF Knows, NodeCalls
  <2>3. RestOK' BY <1>r, <1>2, <2>2 DEF InsertEndpoint, RestOK
  <2>4. "begin" \in Places /\ MayGo(t, "begin") BY <2>1 DEF Places, MayGo, NodeCalls, LifeCalls
  <2> QED BY <2>1, <2>3, <2>4, GoesOn
<1>3. CASE SignalNodeStart(t)
  <2>1. CASE shutdown
    <3>1. Throw(t, "Shutdown") /\ UNCHANGED <<info, numlivenodes, asleep>>
      BY <1>3, <2>1 DEF SignalNodeStart
    <3>2. pc' \in [Threads -> PC] /\ CallsKnow' /\ thrown' \in [Threads -> Asserts \cup {None}]
      BY <3>1, Throws
    <3>3. RestOK' BY <1>r, <1>3, <3>1, <3>2 DEF SignalNodeStart, RestOK
    <3> QED BY <3>2, <3>3
  <2>2. CASE ~shutdown
    <3>1. /\ info' = [info EXCEPT ![NodeOf(t)].started = TRUE]
          /\ numlivenodes' = (numlivenodes + 1) % UnsignedMod
          /\ Wake(LiveDeadWaiters) /\ Goto(t, "idle") /\ UNCHANGED thrown
      BY <1>3, <2>2 DEF SignalNodeStart
    <3>2. info' \in [Nodes -> [there : BOOLEAN, started : BOOLEAN, dead : BOOLEAN]]
      BY <1>r, <3>1 DEF RestOK
    <3>3. numlivenodes' \in 0..UnsignedMod - 1
      BY <1>r, <3>1, ModType, CountAssumption DEF RestOK
    <3>4. RestOK' BY <1>r, <1>3, <3>1, <3>2, <3>3 DEF SignalNodeStart, RestOK, Wake
    <3>5. "idle" \in Places /\ MayGo(t, "idle") BY DEF Places, MayGo
    <3> QED BY <3>1, <3>4, <3>5, GoesOn
  <2> QED BY <2>1, <2>2
<1>4. CASE FindEndpoint(t)
  <2>1. RestOK' BY <1>r, <1>4 DEF FindEndpoint, RestOK
  <2>2. pc[t].at = "destroy" /\ (Goto(t, "ending") \/ Goto(t, "idle")) BY <1>4 DEF FindEndpoint
  <2>3. {"ending", "idle"} \subseteq Places /\ MayGo(t, "ending") /\ MayGo(t, "idle")
    BY <2>2 DEF Places, MayGo, NodeCalls, LifeCalls
  <2> QED BY <2>1, <2>2, <2>3, GoesOn
<1>5. CASE SignalNodeEnd(t)
  <2>1. pc[t].at = "ending" /\ Goto(t, "erase") /\ Wake(EndWakes) BY <1>5 DEF SignalNodeEnd
  <2>2. NodeOf(t) \in Nodes BY <2>1, NodeOfType DEF LifeCalls
  <2>3. info' \in [Nodes -> [there : BOOLEAN, started : BOOLEAN, dead : BOOLEAN]]
    BY <1>r, <1>5, <2>2 DEF RestOK, SignalNodeEnd
  <2>4. numlivenodes + UnsignedMod - 1 \in Nat
    BY <1>r, CountAssumption DEF RestOK
  <2>5. numlivenodes' \in 0..UnsignedMod - 1
    BY <1>5, <2>4, ModType DEF SignalNodeEnd, CountDown
  <2>6. RestOK' BY <1>r, <1>5, <2>1, <2>3, <2>5 DEF SignalNodeEnd, RestOK, Wake
  <2>7. "erase" \in Places /\ MayGo(t, "erase") BY <2>1 DEF Places, MayGo, LifeCalls
  <2> QED BY <2>1, <2>6, <2>7, GoesOn
<1>6. CASE EraseNode(t)
  <2>1. pc[t].at = "erase" BY <1>6 DEF EraseNode
  <2>2. "bury" \in Places /\ MayGo(t, "bury") BY <2>1 DEF Places, MayGo, LifeCalls
  <2>3. CASE status = "DONE" \/ NodeOf(t) \in nodemap
    <3>1. /\ Goto(t, Ended(t)) \/ Goto(t, "bury")
          /\ UNCHANGED thrown /\ nodemap' \subseteq nodemap
          /\ SignalKernel \/ UNCHANGED <<nodecond_signal, kasleep>>
      BY <1>6, <2>3 DEF EraseNode
    <3>2. RestOK' BY <1>r, <1>6, <3>1 DEF EraseNode, RestOK, SignalKernel
    <3> QED BY <2>2, <3>1, <3>2, EndedGoes, GoesOn
  <2>4. CASE ~(status = "DONE" \/ NodeOf(t) \in nodemap)
    <3>1. /\ Throw(t, NotInMap) /\ nodemap' \subseteq nodemap
          /\ UNCHANGED <<nodecond_signal, kasleep>>
      BY <1>6, <2>4 DEF EraseNode
    <3>2. pc' \in [Threads -> PC] /\ CallsKnow' /\ thrown' \in [Threads -> Asserts \cup {None}]
      BY <3>1, Throws
    <3>3. RestOK' BY <1>r, <1>6, <3>1, <3>2 DEF EraseNode, RestOK
    <3> QED BY <3>2, <3>3
  <2> QED BY <2>3, <2>4
<1>7. CASE BuryNode(t)
  <2>1. pc[t].at = "bury" /\ Goto(t, Ended(t)) /\ SignalKernel BY <1>7 DEF BuryNode
  <2>2. NodeOf(t) \in Nodes BY <2>1, NodeOfType DEF LifeCalls
  <2>3. garbagenodes' \in Seq(Nodes) BY <1>r, <1>7, <2>2 DEF BuryNode, RestOK
  <2>4. RestOK' BY <1>r, <1>7, <2>1, <2>3 DEF BuryNode, RestOK, SignalKernel
  <2> QED BY <2>1, <2>4, EndedGoes, GoesOn
<1>w. ASSUME NEW n, NEW p \in Places, MayGo(t, p), WaitForNodeStart(t, n, p)
      PROVE  RestOK' /\ pc' \in [Threads -> PC] /\ CallsKnow'
  <2>1. CASE Throw(t, "Shutdown") /\ UNCHANGED asleep
    <3>2. pc' \in [Threads -> PC] /\ CallsKnow' /\ thrown' \in [Threads -> Asserts \cup {None}]
      BY <2>1, Throws
    <3>3. RestOK' BY <1>r, <1>w, <2>1, <3>2 DEF WaitForNodeStart, RestOK
    <3> QED BY <3>2, <3>3
  <2>2. CASE Goto(t, p) /\ UNCHANGED <<asleep, thrown>>
    <3>1. RestOK' BY <1>r, <1>w, <2>2 DEF WaitForNodeStart, RestOK
    <3> QED BY <1>w, <2>2, <3>1, GoesOn
  <2>3. CASE Sleep(t) /\ UNCHANGED <<pc, thrown>>
    <3>1. RestOK' BY <1>r, <1>w, <2>3 DEF WaitForNodeStart, RestOK, Sleep
    <3> QED BY <2>3, <3>1 DEF TypeOK, CallsKnow, Knows
  <2> QED BY <1>w, <2>1, <2>2, <2>3 DEF WaitForNodeStart
<1>8. CASE ReaderStart(t)
  <2>1. pc[t].at = "readerStart" /\ \E n : WaitForNodeStart(t, n, "writerStart") BY <1>8 DEF ReaderStart
  <2>2. "writerStart" \in Places /\ MayGo(t, "writerStart") BY <2>1 DEF Places, MayGo, QueueCalls
  <2> QED BY <2>1, <2>2, <1>w
<1>9. CASE WriterStart(t)
  <2>1. pc[t].at = "writerStart" /\ \E n : WaitForNodeStart(t, n, "connect") BY <1>9 DEF WriterStart
  <2>2. "connect" \in Places /\ MayGo(t, "connect") BY <2>1 DEF Places, MayGo, QueueCalls
  <2> QED BY <2>1, <2>2, <1>w
<1>10. CASE WaitStart(t)
  <2>1. pc[t].at = "waitStart" /\ \E n : WaitForNodeStart(t, n, "idle") BY <1>10 DEF WaitStart
  <2>2. "idle" \in Places /\ MayGo(t, "idle") BY <2>1 DEF Places, MayGo, QueueCalls
  <2> QED BY <2>1, <2>2, <1>w
<1>11. CASE ConnectEndpoints(t)
  <2>1. pc[t].at = "connect" BY <1>11 DEF ConnectEndpoints
  <2>2. "lookup" \in Places /\ MayGo(t, "lookup") BY <2>1 DEF Places, MayGo, QueueCalls
  <2>3. CASE Throw(t, "Shutdown")
    <3>1. pc' \in [Threads -> PC] /\ CallsKnow' /\ thrown' \in [Threads -> Asserts \cup {None}]
      BY <2>3, Throws
    <3>2. RestOK' BY <1>r, <1>11, <3>1 DEF ConnectEndpoints, RestOK
    <3> QED BY <3>1, <3>2
  <2>4. CASE Goto(t, "lookup") /\ UNCHANGED thrown
    <3>1. RestOK' BY <1>r, <1>11, <2>4 DEF ConnectEndpoints, RestOK
    <3> QED BY <2>2, <2>4, <3>1, GoesOn
  <2> QED BY <1>11, <2>3, <2>4 DEF ConnectEndpoints
<1>12. CASE LookupNodes(t)
  <2>1. pc[t].at = "lookup" BY <1>12 DEF LookupNodes
  <2>2. "attachWriter" \in Places /\ MayGo(t, "attachWriter") BY <2>1 DEF Places, MayGo, QueueCalls
  <2>3. CASE Throw(t, NoSuchNode)
    <3>1. pc' \in [Threads -> PC] /\ CallsKnow' /\ thrown' \in [Threads -> Asserts \cup {None}]
      BY <2>3, Throws
    <3>2. RestOK' BY <1>r, <1>12, <3>1 DEF LookupNodes, RestOK
    <3> QED BY <3>1, <3>2
  <2>4. CASE Goto(t, "attachWriter") /\ UNCHANGED thrown
    <3>1. RestOK' BY <1>r, <1>12, <2>4 DEF LookupNodes, RestOK
    <3> QED BY <2>2, <2>4, <3>1, GoesOn
  <2> QED BY <1>12, <2>3, <2>4 DEF LookupNodes
<1>13. CASE AttachWriter(t)
  <2>1. pc[t].at = "attachWriter" /\ Attach(t, "write", "attachReader") BY <1>13 DEF AttachWriter
  <2>2. "attachReader" \in Places /\ MayGo(t, "attachReader") BY <2>1 DEF Places, MayGo, QueueCalls
  <2>3. RestOK' BY <1>r, <2>1 DEF Attach, RestOK, Wake
  <2> QED BY <2>1, <2>2, <2>3, GoesOn DEF Attach
<1>14. CASE AttachReader(t)
  <2>1. pc[t].at = "attachReader" /\ Attach(t, "read", "release") BY <1>14 DEF AttachReader
  <2>2. "release" \in Places /\ MayGo(t, "release") BY <2>1 DEF Places, MayGo, QueueCalls
  <2>3. RestOK' BY <1>r, <2>1 DEF Attach, RestOK, Wake
  <2> QED BY <2>1, <2>2, <2>3, GoesOn DEF Attach
<1>15. CASE ReleaseNodes(t)
  <2>1. "idle" \in Places /\ MayGo(t, "idle") BY DEF Places, MayGo
  <2>2. end' \in [Queues -> [Side -> {"none", "open", "shut"}]]
    BY <1>r, <1>15 DEF ReleaseNodes, RestOK
  <2>3. RestOK' BY <1>r, <1>15, <2>2 DEF ReleaseNodes, RestOK, Wake
  <2> QED BY <1>15, <2>1, <2>3, GoesOn DEF ReleaseNodes
<1>16. CASE GetEnd(t)
  <2>i. "idle" \in Places /\ MayGo(t, "idle") BY DEF Places, MayGo
  <2>1. CASE Throw(t, "Shutdown") /\ UNCHANGED asleep
    <3>1. pc' \in [Threads -> PC] /\ CallsKnow' /\ thrown' \in [Threads -> Asserts \cup {None}]
      BY <2>1, Throws
    <3>2. RestOK' BY <1>r, <1>16, <2>1, <3>1 DEF GetEnd, RestOK
    <3> QED BY <3>1, <3>2
  <2>2. CASE Goto(t, "idle") /\ UNCHANGED <<asleep, thrown>>
    <3>1. RestOK' BY <1>r, <1>16, <2>2 DEF GetEnd, RestOK
    <3> QED BY <2>i, <2>2, <3>1, GoesOn
  <2>3. CASE Sleep(t) /\ UNCHANGED <<pc, thrown>>
    <3>1. RestOK' BY <1>r, <1>16, <2>3 DEF GetEnd, RestOK, Sleep
    <3> QED BY <2>3, <3>1 DEF TypeOK, CallsKnow, Knows
  <2> QED BY <1>16, <2>1, <2>2, <2>3 DEF GetEnd
<1>17. CASE Unblock(t)
  <2>i. "idle" \in Places /\ MayGo(t, "idle") BY DEF Places, MayGo
  <2>1. CASE Throw(t, "Shutdown") /\ UNCHANGED asleep
    <3>1. pc' \in [Threads -> PC] /\ CallsKnow' /\ thrown' \in [Threads -> Asserts \cup {None}]
      BY <2>1, Throws
    <3>2. RestOK' BY <1>r, <1>17, <2>1, <3>1 DEF Unblock, RestOK
    <3> QED BY <3>1, <3>2
  <2>2. CASE Throw(t, "BrokenQueue") /\ UNCHANGED asleep
    <3>1. pc' \in [Threads -> PC] /\ CallsKnow' /\ thrown' \in [Threads -> Asserts \cup {None}]
      BY <2>2, Throws
    <3>2. RestOK' BY <1>r, <1>17, <2>2, <3>1 DEF Unblock, RestOK
    <3> QED BY <3>1, <3>2
  <2>3. CASE Goto(t, "idle") /\ UNCHANGED <<asleep, thrown>>
    <3>1. RestOK' BY <1>r, <1>17, <2>3 DEF Unblock, RestOK
    <3> QED BY <2>i, <2>3, <3>1, GoesOn
  <2>4. CASE Sleep(t) /\ UNCHANGED <<pc, thrown>>
    <3>1. RestOK' BY <1>r, <1>17, <2>4 DEF Unblock, RestOK, Sleep
    <3> QED BY <2>4, <3>1 DEF TypeOK, CallsKnow, Knows
  <2> QED BY <1>17, <2>1, <2>2, <2>3, <2>4 DEF Unblock
<1>18. CASE WaitForNodeEnd(t)
  <2>i. "idle" \in Places /\ MayGo(t, "idle") BY DEF Places, MayGo
  <2>1. CASE Throw(t, NeverBegan) /\ UNCHANGED asleep
    <3>1. pc' \in [Threads -> PC] /\ CallsKnow' /\ thrown' \in [Threads -> Asserts \cup {None}]
      BY <2>1, Throws
    <3>2. RestOK' BY <1>r, <1>18, <2>1, <3>1 DEF WaitForNodeEnd, RestOK
    <3> QED BY <3>1, <3>2
  <2>2. CASE Goto(t, "idle") /\ UNCHANGED <<asleep, thrown>>
    <3>1. RestOK' BY <1>r, <1>18, <2>2 DEF WaitForNodeEnd, RestOK
    <3> QED BY <2>i, <2>2, <3>1, GoesOn
  <2>3. CASE Sleep(t) /\ UNCHANGED <<pc, thrown>>
    <3>1. RestOK' BY <1>r, <1>18, <2>3 DEF WaitForNodeEnd, RestOK, Sleep
    <3> QED BY <2>3, <3>1 DEF TypeOK, CallsKnow, Knows
  <2> QED BY <1>18, <2>1, <2>2, <2>3 DEF WaitForNodeEnd
<1>19. CASE WaitForAllNodeEnd(t)
  <2>i. "idle" \in Places /\ MayGo(t, "idle") BY DEF Places, MayGo
  <2>1. CASE Goto(t, "idle") /\ UNCHANGED <<asleep, thrown>>
    <3>1. RestOK' BY <1>r, <1>19, <2>1 DEF WaitForAllNodeEnd, RestOK
    <3> QED BY <2>i, <2>1, <3>1, GoesOn
  <2>2. CASE Sleep(t) /\ UNCHANGED <<pc, thrown>>
    <3>1. RestOK' BY <1>r, <1>19, <2>2 DEF WaitForAllNodeEnd, RestOK, Sleep
    <3> QED BY <2>2, <3>1 DEF TypeOK, CallsKnow, Knows
  <2> QED BY <1>19, <2>1, <2>2 DEF WaitForAllNodeEnd
<1>20. CASE NotifyKernel(t)
  <2>1. pc[t].at = "notify" /\ t \in Clients BY <1>r, <1>20 DEF NotifyKernel, Knows
  <2>2. {"wakeup", "idle"} \subseteq Places /\ MayGo(t, "wakeup") /\ MayGo(t, "idle")
    BY <2>1 DEF Places, MayGo
  <2>3. RestOK' BY <1>r, <1>20 DEF NotifyKernel, RestOK, Status
  <2>4. Goto(t, "wakeup") \/ Goto(t, "idle") BY <1>20 DEF NotifyKernel
  <2> QED BY <2>2, <2>3, <2>4, GoesOn
<1>21. CASE SendWakeup(t)
  <2>1. "idle" \in Places /\ MayGo(t, "idle") BY DEF Places, MayGo
  <2>2. RestOK' BY <1>r, <1>21 DEF SendWakeup, RestOK, SignalKernel
  <2> QED BY <1>21, <2>1, <2>2, GoesOn DEF SendWakeup
<1> QED
  BY <1>1, <1>2, <1>3, <1>4, <1>5, <1>6, <1>7, <1>8, <1>9, <1>10, <1>11,
     <1>12, <1>13, <1>14, <1>15, <1>16, <1>17, <1>18, <1>19, <1>20, <1>21 DEF Inside

LEMMA OutsideType ==
  ASSUME TypeOK, CallsKnow, NEW t \in Threads,
         \/ Outside(t)
         \/ \E q \in Queues, d \in Side : GetQueue(t, q, d) \/ Block(t, q, d)
         \/ Finish(t)
  PROVE  TypeOK' /\ CallsKnow'
<1> USE DEF cvars, nvars, kvars, qvars, tvars
<1>r. RestOK /\ pc[t] \in PC BY DEF TypeOK, RestOK
<1> SUFFICES RestOK' /\ pc' \in [Threads -> PC] /\ CallsKnow' BY DEF TypeOK, RestOK
<1>p. "idle" \in Places /\ MayGo(t, "idle") BY DEF Places, MayGo
<1>j. ASSUME NEW p \in NodeCalls, NEW n \in Nodes, p = "create" => n \notin External
      PROVE  AtNode(p, n) \in PC /\ Knows(t, AtNode(p, n))
  <2>1. p \in Places BY DEF NodeCalls, Places
  <2>2. AtNode(p, n) \in PC /\ AtNode(p, n).at = p /\ AtNode(p, n).node = n BY <2>1, AtType
  <2> QED BY <1>j, <2>2 DEF Knows, NodeCalls, LifeCalls, QueueCalls
<1>k. ASSUME NEW p \in QueueCalls, NEW q \in Queues, NEW d \in Side
      PROVE  AtQueue(p, q, d) \in PC /\ Knows(t, AtQueue(p, q, d))
  <2>1. p \in Places BY DEF QueueCalls, Places
  <2>2. AtQueue(p, q, d) \in PC /\ AtQueue(p, q, d).at = p /\ AtQueue(p, q, d).queue = q
    BY <2>1, AtType
  <2> QED BY <2>2 DEF Knows, NodeCalls, LifeCalls, QueueCalls
<1>l. AtNode("waitAll", None) \in PC /\ Knows(t, AtNode("waitAll", None))
  <2>1. AtNode("waitAll", None) \in PC /\ AtNode("waitAll", None).at = "waitAll"
    BY AtType DEF Places
  <2> QED BY <2>1 DEF Knows, NodeCalls, LifeCalls, QueueCalls
<1>1. ASSUME NEW n \in Nodes, CreateNode(t, n)
      PROVE  RestOK' /\ pc' \in [Threads -> PC] /\ CallsKnow'
  <2>1. CASE shutdown
    <3>1. Throw(t, "Shutdown") BY <1>1, <2>1 DEF CreateNode
    <3>2. pc' \in [Threads -> PC] /\ CallsKnow' /\ thrown' \in [Threads -> Asserts \cup {None}]
      BY <3>1, Throws
    <3>3. RestOK' BY <1>r, <1>1, <2>1, <3>2 DEF CreateNode, RestOK
    <3> QED BY <3>2, <3>3
  <2>2. CASE ~shutdown
    <3> DEFINE p == IF n \in External THEN "insert" ELSE "create"
    <3>1. Call(t, AtNode(p, n)) /\ info' = [info EXCEPT ![n].there = TRUE] /\ UNCHANGED thrown
      BY <1>1, <2>2 DEF CreateNode
    <3>2. RestOK' BY <1>r, <1>1, <3>1 DEF CreateNode, RestOK
    <3>3. AtNode(p, n) \in PC /\ Knows(t, AtNode(p, n)) BY <1>j DEF NodeCalls
    <3> QED BY <3>1, <3>2, <3>3, Calls
  <2> QED BY <2>1, <2>2
<1>2. ASSUME NEW n \in Nodes, DestroyExternalEndpoint(t, n)
      PROVE  RestOK' /\ pc' \in [Threads -> PC] /\ CallsKnow'
  <2>1. CASE shutdown
    <3>1. Throw(t, "Shutdown") BY <1>2, <2>1 DEF DestroyExternalEndpoint
    <3>2. pc' \in [Threads -> PC] /\ CallsKnow' /\ thrown' \in [Threads -> Asserts \cup {None}]
      BY <3>1, Throws
    <3>3. RestOK' BY <1>r, <1>2, <2>1, <3>2 DEF DestroyExternalEndpoint, RestOK
    <3> QED BY <3>2, <3>3
  <2>2. CASE ~shutdown
    <3>1. Call(t, AtNode("destroy", n)) /\ UNCHANGED thrown
      BY <1>2, <2>2 DEF DestroyExternalEndpoint
    <3>2. RestOK' BY <1>r, <1>2, <3>1 DEF DestroyExternalEndpoint, RestOK
    <3>3. AtNode("destroy", n) \in PC /\ Knows(t, AtNode("destroy", n)) BY <1>j DEF NodeCalls
    <3> QED BY <3>1, <3>2, <3>3, Calls
  <2> QED BY <2>1, <2>2
<1>3. ASSUME NEW p, NEW n, Wait(t, p, n), AtNode(p, n) \in PC, Knows(t, AtNode(p, n))
      PROVE  RestOK' /\ pc' \in [Threads -> PC] /\ CallsKnow'
  <2>1. Call(t, AtNode(p, n)) BY <1>3 DEF Wait
  <2>2. RestOK' BY <1>r, <1>3 DEF Wait, RestOK
  <2> QED BY <1>3, <2>1, <2>2, Calls
<1>4. ASSUME Terminate(t)
      PROVE  RestOK' /\ pc' \in [Threads -> PC] /\ CallsKnow'
  <2>1. t \in Clients /\ Goto(t, "notify") BY <1>4 DEF Terminate
  <2>2. "notify" \in Places /\ MayGo(t, "notify") BY <2>1 DEF Places, MayGo
  <2>3. RestOK' BY <1>r, <1>4 DEF Terminate, RestOK, Wake
  <2> QED BY <2>1, <2>2, <2>3, GoesOn
<1>5. ASSUME NEW q \in Queues, CreateQueue(t, q)
      PROVE  RestOK' /\ pc' \in [Threads -> PC] /\ CallsKnow'
  <2>1. Call(t, AtQueue("readerStart", q, "read")) BY <1>5 DEF CreateQueue
  <2>2. AtQueue("readerStart", q, "read") \in PC /\ Knows(t, AtQueue("readerStart", q, "read"))
    BY <1>k DEF QueueCalls, Side
  <2>3. RestOK' BY <1>r, <1>5 DEF CreateQueue, RestOK
  <2> QED BY <2>1, <2>2, <2>3, Calls
<1>6. ASSUME NEW q \in Queues, NEW d \in Side, Transfer(t, q, d)
      PROVE  RestOK' /\ pc' \in [Threads -> PC] /\ CallsKnow'
  <2>1. PICK u \in Threads : Goto(u, "idle") /\ Wake({u})
    BY <1>6 DEF Transfer, QueueWaiters
  <2>2. "idle" \in Places /\ MayGo(u, "idle") BY DEF Places, MayGo
  <2>3. RestOK' BY <1>r, <1>6, <2>1 DEF Transfer, RestOK, Wake
  <2> QED BY <2>1, <2>2, <2>3, GoesOn
<1>7. ASSUME NEW q \in Queues, NEW d \in Side, GetQueue(t, q, d)
      PROVE  RestOK' /\ pc' \in [Threads -> PC] /\ CallsKnow'
  <2>1. CASE shutdown
    <3>1. Throw(t, "Shutdown") BY <1>7, <2>1 DEF GetQueue
    <3>2. pc' \in [Threads -> PC] /\ CallsKnow' /\ thrown' \in [Threads -> Asserts \cup {None}]
      BY <3>1, Throws
    <3>3. RestOK' BY <1>r, <1>7, <2>1, <3>2 DEF GetQueue, RestOK
    <3> QED BY <3>2, <3>3
  <2>2. CASE ~shutdown
    <3>1. Call(t, AtQueue("get", q, d)) /\ UNCHANGED thrown BY <1>7, <2>2 DEF GetQueue
    <3>2. RestOK' BY <1>r, <1>7, <3>1 DEF GetQueue, RestOK
    <3>3. AtQueue("get", q, d) \in PC /\ Knows(t, AtQueue("get", q, d)) BY <1>k DEF QueueCalls
    <3> QED BY <3>1, <3>2, <3>3, Calls
  <2> QED BY <2>1, <2>2
<1>8. ASSUME NEW q \in Queues, NEW d \in Side, Block(t, q, d)
      PROVE  RestOK' /\ pc' \in [Threads -> PC] /\ CallsKnow'
  <2>1. ASSUME NEW e, Throw(t, e), UNCHANGED asleep
        PROVE  RestOK' /\ pc' \in [Threads -> PC] /\ CallsKnow'
    <3>1. pc' \in [Threads -> PC] /\ CallsKnow' /\ thrown' \in [Threads -> Asserts \cup {None}]
      BY <2>1, Throws
    <3>2. RestOK' BY <1>r, <1>8, <2>1, <3>1 DEF Block, RestOK
    <3> QED BY <3>1, <3>2
  <2>2. CASE Call(t, AtQueue("blocked", q, d)) /\ Sleep(t) /\ UNCHANGED thrown
    <3>1. RestOK' BY <1>r, <1>8, <2>2 DEF Block, RestOK, Sleep
    <3>2. AtQueue("blocked", q, d) \in PC /\ Knows(t, AtQueue("blocked", q, d))
      BY <1>k DEF QueueCalls
    <3> QED BY <2>2, <3>1, <3>2, Calls
  <2> QED BY <1>8, <2>1, <2>2 DEF Block
<1>9. ASSUME Finish(t)
      PROVE  RestOK' /\ pc' \in [Threads -> PC] /\ CallsKnow'
  <2>1. Goto(t, "ending") /\ t \in Nodes BY <1>9 DEF Finish
  <2>2. "ending" \in Places /\ MayGo(t, "ending") BY <2>1 DEF Places, MayGo
  <2>3. RestOK' BY <1>r, <1>9 DEF Finish, RestOK
  <2> QED BY <2>1, <2>2, <2>3, GoesOn
<1>a. ASSUME NEW n \in Nodes
      PROVE  \A p \in {"waitStart", "waitEnd"} :
               Wait(t, p, n) => RestOK' /\ pc' \in [Threads -> PC] /\ CallsKnow'
  BY <1>3, <1>j DEF NodeCalls
<1>b. Wait(t, "waitAll", None) => RestOK' /\ pc' \in [Threads -> PC] /\ CallsKnow'
  BY <1>3, <1>l
<1> QED BY <1>1, <1>2, <1>a, <1>b, <1>4, <1>5, <1>6, <1>7, <1>8, <1>9 DEF Outside

LEMMA KernelThreadType ==
  ASSUME TypeOK, CallsKnow, KernelThread
  PROVE  TypeOK' /\ CallsKnow'
<1> USE DEF cvars, nvars, kvars, qvars, tvars
<1>r. RestOK BY DEF TypeOK, RestOK
<1>p. UNCHANGED pc
  BY DEF KernelThread, KernelBegin, SignalKernelStart, RunLoop, LoopTurn, Woken, LockGarbage,
     CollectNode, UnlockGarbage, CopyNodeMap, NotifyNode, Notified, DrainLoop, LastGarbage,
     SignalKernelEnd, PostDone, KSame
<1>c. CallsKnow' BY <1>p DEF CallsKnow, Knows
<1> SUFFICES RestOK' BY <1>p, <1>c DEF TypeOK, RestOK
<1>1. CASE KernelBegin BY <1>r, <1>1 DEF KernelBegin, KGoto, KSame, RestOK, KPC, Status
<1>2. CASE SignalKernelStart
  BY <1>r, <1>2 DEF SignalKernelStart, KGoto, ClearGarbage, KSame, RestOK, KPC
<1>3. CASE RunLoop BY <1>r, <1>3 DEF RunLoop, LoopTurn, KGoto, ClearGarbage, KSame, RestOK, KPC
<1>4. CASE Woken BY <1>r, <1>4 DEF Woken, ClearGarbage, KSame, RestOK, KPC
<1>5. CASE LockGarbage BY <1>r, <1>5 DEF LockGarbage, KGoto, KSame, RestOK, KPC
<1>6. CASE CollectNode
  <2> DEFINE n == garbagenodes[Len(garbagenodes)]
  <2>1. /\ n \in Nodes
        /\ SubSeq(garbagenodes, 1, Len(garbagenodes) - 1) \in Seq(Nodes)
    BY <1>r, <1>6 DEF CollectNode, RestOK
  <2>2. /\ end' = [q \in Queues |-> [d \in Side |->
                   IF Ends[q][d] = n /\ end[q][d] = "open" THEN "shut" ELSE end[q][d]]]
        /\ garbagenodes' = SubSeq(garbagenodes, 1, Len(garbagenodes) - 1)
        /\ shut' = shut \cup {n} /\ Wake(WaitersAtQueuesOf(n))
    BY <1>6 DEF CollectNode
  <2>3. end' \in [Queues -> [Side -> {"none", "open", "shut"}]] BY <1>r, <2>2 DEF RestOK
  <2> HIDE DEF n
  <2> QED BY <1>r, <1>6, <2>1, <2>2, <2>3 DEF CollectNode, RestOK, Wake
<1>7. CASE UnlockGarbage BY <1>r, <1>7 DEF UnlockGarbage, KGoto, KSame, RestOK, KPC
<1>8. CASE CopyNodeMap BY <1>r, <1>8 DEF CopyNodeMap, KGoto, KSame, RestOK, KPC
<1>9. ASSUME NEW n \in Nodes, NotifyNode(n) PROVE RestOK'
  BY <1>r, <1>9 DEF NotifyNode, RestOK, Wake
<1>10. CASE Notified BY <1>r, <1>10 DEF Notified, ClearGarbage, KSame, RestOK, KPC
<1>11. CASE DrainLoop
  BY <1>r, <1>11 DEF DrainLoop, LoopTurn, KGoto, ClearGarbage, KSame, RestOK, KPC
<1>12. CASE LastGarbage BY <1>r, <1>12 DEF LastGarbage, ClearGarbage, KSame, RestOK, KPC
<1>13. CASE SignalKernelEnd BY <1>r, <1>13 DEF SignalKernelEnd, KGoto, RestOK, KPC
<1>14. CASE PostDone BY <1>r, <1>14 DEF PostDone, KGoto, KSame, RestOK, KPC, Status
<1> QED
  BY <1>1, <1>2, <1>3, <1>4, <1>5, <1>6, <1>7, <1>8, <1>9, <1>10, <1>11, <1>12, <1>13,
     <1>14 DEF KernelThread

---------------------------------------------------------------------------
(* Every step preserves SignalKept and KernelWakes.                        *)

(* Nobody who is about to signal the kernel thread goes away.              *)
SignallersStay ==
  \A t \in Threads : pc[t].at \in {"wakeup", "bury"} => pc'[t].at = pc[t].at

(* A step that the kernel thread need not notice.                          *)
Quiet ==
  /\ SignallersStay /\ nodemap \subseteq nodemap'
  /\ UNCHANGED <<status, garbagenodes, nodecond_signal, kpc, kret, kasleep>>

LEMMA QuietKeeps ==
  ASSUME SignalKept, KernelWakes, Quiet, Clients \subseteq Threads
  PROVE  SignalKept' /\ KernelWakes'
<1>1. SignalKept' BY DEF SignalKept, Quiet
<1>2. KernelWakes'
  <2> SUFFICES ASSUME kasleep
      PROVE  /\ garbagenodes = <<>>
             /\ kret = "loop" /\ status # "RUNNING" => \E t \in Clients : pc'[t].at = "wakeup"
             /\ kret = "drain" /\ nodemap' = {} => \E t \in Threads : pc'[t].at = "bury"
    BY DEF KernelWakes, Quiet
  <2>1. garbagenodes = <<>> BY DEF KernelWakes
  <2>2. ASSUME kret = "loop", status # "RUNNING" PROVE \E t \in Clients : pc'[t].at = "wakeup"
    <3>1. PICK t \in Clients : pc[t].at = "wakeup" BY <2>2 DEF KernelWakes
    <3> QED BY <3>1 DEF Quiet, SignallersStay
  <2>3. ASSUME kret = "drain", nodemap' = {} PROVE \E t \in Threads : pc'[t].at = "bury"
    <3>1. nodemap = {} BY <2>3 DEF Quiet
    <3>2. PICK t \in Threads : pc[t].at = "bury" BY <2>3, <3>1 DEF KernelWakes
    <3> QED BY <3>2 DEF Quiet, SignallersStay
  <2> QED BY <2>1, <2>2, <2>3
<1> QED BY <1>1, <1>2

(* One thread moves that was not about to signal.                          *)
LEMMA OneMoves ==
  ASSUME TypeOK, NEW t \in Threads, pc[t].at \notin {"wakeup", "bury"}, NEW p, NEW r, NEW e,
         Goto(t, p) \/ Call(t, r) \/ Throw(t, e) \/ UNCHANGED pc
  PROVE  SignallersStay
<1>1. pc \in [Threads -> PC] BY DEF TypeOK
<1>2. \A u \in Threads \ {t} : pc'[u] = pc[u]
  <2>1. CASE Goto(t, p) BY <1>1, <2>1 DEF Goto
  <2>2. CASE Call(t, r) BY <1>1, <2>2 DEF Call
  <2>3. CASE Throw(t, e) BY <1>1, <2>3 DEF Throw, Goto
  <2> QED BY <2>1, <2>2, <2>3
<1> QED BY <1>2 DEF SignallersStay

LEMMA InsideWakes ==
  ASSUME IInv, NEW t \in Threads, Inside(t)
  PROVE  SignalKept' /\ KernelWakes'
<1> USE DEF cvars, nvars, kvars, qvars, tvars
<1>t. Clients \subseteq Threads /\ pc[t] \in PC /\ pc \in [Threads -> PC] /\ Knows(t, pc[t])
  BY DEF IInv, TypeOK, CallsKnow, Threads
<1>q. Quiet => SignalKept' /\ KernelWakes' BY <1>t, QuietKeeps DEF IInv
<1>m. ASSUME pc[t].at \notin {"wakeup", "bury"}, nodemap \subseteq nodemap',
             UNCHANGED <<status, garbagenodes, nodecond_signal, kpc, kret, kasleep>>,
             NEW p, NEW r, NEW e,
             Goto(t, p) \/ Call(t, r) \/ Throw(t, e) \/ UNCHANGED pc
      PROVE  SignalKept' /\ KernelWakes'
  <2>1. TypeOK BY DEF IInv
  <2>2. SignallersStay BY <1>m, <2>1, OneMoves
  <2> QED BY <1>m, <1>q, <2>2 DEF Quiet
<1>1. CASE InternalCreateNode(t)
  <2> DEFINE n == pc[t].node
  <2>1. CASE status # "RUNNING"
    <3>1. Throw(t, NotRunning) /\ UNCHANGED nodemap BY <1>1, <2>1 DEF InternalCreateNode
    <3> QED BY <1>1, <1>m, <3>1 DEF InternalCreateNode
  <2>2. CASE status = "RUNNING"
    <3>1. nodemap' # {} BY <1>1, <2>2 DEF InternalCreateNode
    <3>2. UNCHANGED <<status, garbagenodes, nodecond_signal, kpc, kret, kasleep>>
      BY <1>1 DEF InternalCreateNode
    <3>3. SignalKept' BY <3>2 DEF IInv, SignalKept
    <3>4. KernelWakes' BY <2>2, <3>1, <3>2 DEF IInv, KernelWakes
    <3> QED BY <3>3, <3>4
  <2> QED BY <2>1, <2>2
<1>2. CASE InsertEndpoint(t) BY <1>2, <1>m DEF InsertEndpoint
<1>3. CASE SignalNodeStart(t) BY <1>3, <1>m DEF SignalNodeStart
<1>4. CASE FindEndpoint(t) BY <1>4, <1>m DEF FindEndpoint
<1>5. CASE SignalNodeEnd(t) BY <1>5, <1>m DEF SignalNodeEnd
<1>6. CASE EraseNode(t)
  <2>1. CASE status = "DONE"
    <3>1. SignalKernel /\ UNCHANGED <<garbagenodes, kpc>> BY <1>6, <2>1 DEF EraseNode
    <3> QED BY <3>1 DEF SignalKernel, SignalKept, KernelWakes
  <2>2. CASE status # "DONE" /\ NodeOf(t) \notin nodemap
    <3>1. Throw(t, NotInMap) /\ nodemap' = nodemap
      BY <1>6, <2>2 DEF EraseNode
    <3> QED BY <1>6, <1>m, <2>2, <3>1 DEF EraseNode
  <2>3. CASE status # "DONE" /\ NodeOf(t) \in nodemap
    <3>1. /\ Goto(t, "bury") /\ pc[t].at = "erase"
          /\ UNCHANGED <<status, garbagenodes, nodecond_signal, kpc, kret, kasleep>>
      BY <1>6, <2>3 DEF EraseNode
    <3>2. pc'[t].at = "bury" BY <1>t, <3>1 DEF Goto, PC
    <3>3. SignallersStay BY <3>1, OneMoves DEF IInv
    <3>4. SignalKept' BY <3>1 DEF IInv, SignalKept
    <3>5. KernelWakes' BY <1>t, <3>1, <3>2, <3>3 DEF IInv, KernelWakes, SignallersStay
    <3> QED BY <3>4, <3>5
  <2> QED BY <2>1, <2>2, <2>3
<1>7. CASE BuryNode(t) BY <1>7 DEF BuryNode, SignalKernel, SignalKept, KernelWakes
<1>8. CASE ReaderStart(t) BY <1>8, <1>m DEF ReaderStart, WaitForNodeStart
<1>9. CASE WriterStart(t) BY <1>9, <1>m DEF WriterStart, WaitForNodeStart
<1>10. CASE WaitStart(t) BY <1>10, <1>m DEF WaitStart, WaitForNodeStart
<1>11. CASE ConnectEndpoints(t) BY <1>11, <1>m DEF ConnectEndpoints
<1>12. CASE LookupNodes(t) BY <1>12, <1>m DEF LookupNodes
<1>13. CASE AttachWriter(t) BY <1>13, <1>m DEF AttachWriter, Attach
<1>14. CASE AttachReader(t) BY <1>14, <1>m DEF AttachReader, Attach
<1>15. CASE ReleaseNodes(t) BY <1>15, <1>m DEF ReleaseNodes
<1>16. CASE GetEnd(t) BY <1>16, <1>m DEF GetEnd
<1>17. CASE Unblock(t) BY <1>17, <1>m DEF Unblock
<1>18. CASE WaitForNodeEnd(t) BY <1>18, <1>m DEF WaitForNodeEnd
<1>19. CASE WaitForAllNodeEnd(t) BY <1>19, <1>m DEF WaitForAllNodeEnd
<1>20. CASE NotifyKernel(t)
  <2>1. CASE ~kerneldead /\ status = "RUNNING"
    <3>1. /\ Goto(t, "wakeup") /\ pc[t].at = "notify"
          /\ UNCHANGED <<nodemap, garbagenodes, nodecond_signal, kpc, kret, kasleep>>
      BY <1>20, <2>1 DEF NotifyKernel
    <3>2. pc'[t].at = "wakeup" BY <1>t, <3>1 DEF Goto, PC
    <3>3. t \in Clients BY <1>t, <3>1 DEF Knows
    <3>4. SignallersStay BY <3>1, OneMoves DEF IInv
    <3>5. SignalKept' BY <3>1 DEF IInv, SignalKept
    <3>6. KernelWakes' BY <3>1, <3>2, <3>3, <3>4 DEF IInv, KernelWakes, SignallersStay
    <3> QED BY <3>5, <3>6
  <2>2. CASE ~(~kerneldead /\ status = "RUNNING")
    BY <1>20, <1>m, <2>2 DEF NotifyKernel
  <2> QED BY <2>1, <2>2
<1>21. CASE SendWakeup(t) BY <1>21 DEF SendWakeup, SignalKernel, SignalKept, KernelWakes
<1> QED
  BY <1>1, <1>2, <1>3, <1>4, <1>5, <1>6, <1>7, <1>8, <1>9, <1>10, <1>11, <1>12,
     <1>13, <1>14, <1>15, <1>16, <1>17, <1>18, <1>19, <1>20, <1>21 DEF Inside

LEMMA OutsideWakes ==
  ASSUME IInv, NEW t \in Threads,
         \/ Outside(t)
         \/ \E q \in Queues, d \in Side : GetQueue(t, q, d) \/ Block(t, q, d)
         \/ Finish(t)
  PROVE  SignalKept' /\ KernelWakes'
<1> USE DEF cvars, nvars, kvars, qvars, tvars
<1>t. Clients \subseteq Threads /\ TypeOK BY DEF IInv, Threads
<1>q. Quiet => SignalKept' /\ KernelWakes' BY <1>t, QuietKeeps DEF IInv
<1>m. ASSUME NEW u \in Threads, pc[u].at \notin {"wakeup", "bury"},
             UNCHANGED <<status, nvars, kvars>>, NEW p, NEW r, NEW e,
             Goto(u, p) \/ Call(u, r) \/ Throw(u, e)
      PROVE  SignalKept' /\ KernelWakes'
  <2>1. SignallersStay BY <1>m, <1>t, OneMoves
  <2> QED BY <1>m, <1>q, <2>1 DEF Quiet
<1>1. ASSUME NEW n \in Nodes, CreateNode(t, n) PROVE SignalKept' /\ KernelWakes'
  BY <1>1, <1>m DEF CreateNode, Call
<1>2. ASSUME NEW n \in Nodes, DestroyExternalEndpoint(t, n) PROVE SignalKept' /\ KernelWakes'
  BY <1>2, <1>m DEF DestroyExternalEndpoint, Call
<1>3. ASSUME NEW p, NEW n, Wait(t, p, n) PROVE SignalKept' /\ KernelWakes'
  BY <1>3, <1>m DEF Wait, Call
<1>4. CASE Terminate(t) BY <1>4, <1>m DEF Terminate
<1>5. ASSUME NEW q \in Queues, CreateQueue(t, q) PROVE SignalKept' /\ KernelWakes'
  BY <1>5, <1>m DEF CreateQueue, Call
<1>6. ASSUME NEW q \in Queues, NEW d \in Side, Transfer(t, q, d) PROVE SignalKept' /\ KernelWakes'
  <2>1. PICK u \in Threads : Goto(u, "idle") /\ pc[u].at = "blocked"
    BY <1>6 DEF Transfer, QueueWaiters
  <2> QED BY <1>6, <1>m, <2>1 DEF Transfer
<1>7. ASSUME NEW q \in Queues, NEW d \in Side, GetQueue(t, q, d) PROVE SignalKept' /\ KernelWakes'
  BY <1>7, <1>m DEF GetQueue, Call
<1>8. ASSUME NEW q \in Queues, NEW d \in Side, Block(t, q, d) PROVE SignalKept' /\ KernelWakes'
  BY <1>8, <1>m DEF Block
<1>9. CASE Finish(t) BY <1>9, <1>m DEF Finish
<1> QED BY <1>1, <1>2, <1>3, <1>4, <1>5, <1>6, <1>7, <1>8, <1>9 DEF Outside

(* The kernel thread falls asleep only in LoopTurn, where it has looked at *)
(* what would end its loop and at nodecond_signal under nodelock.          *)
LEMMA KernelThreadWakes ==
  ASSUME IInv, KernelThread
  PROVE  SignalKept' /\ KernelWakes'
<1> USE DEF cvars, nvars, kvars, qvars, tvars
<1>i. SignalKept BY DEF IInv
<1>l. ASSUME NEW p \in {"loop", "drain"}, NEW over \in BOOLEAN, NEW next \in {"copy", "last"},
             LoopTurn(p, over, next),
             p = "loop" /\ ~over => status = "RUNNING",
             p = "drain" /\ ~over => nodemap # {}
      PROVE  SignalKept' /\ KernelWakes'
  <2>1. kpc = p /\ ~kasleep /\ UNCHANGED <<status, nodemap, garbagenodes, nodecond_signal>>
    BY <1>l DEF LoopTurn
  <2>2. garbagenodes # <<>> => nodecond_signal BY <1>i, <2>1 DEF SignalKept
  <2>3. CASE kasleep'
    <3>0. ~over /\ MaySleep BY <1>l, <2>1, <2>3 DEF LoopTurn
    <3>1. ~over /\ MaySleep /\ kpc' = "woken" /\ kret' = p BY <1>l, <3>0 DEF LoopTurn, KGoto
    <3>2. ~nodecond_signal /\ garbagenodes = <<>> BY <2>2, <3>1 DEF MaySleep
    <3> QED BY <1>l, <2>1, <3>1, <3>2 DEF SignalKept, KernelWakes
  <2>4. CASE ~kasleep' BY <2>1, <2>2, <2>4 DEF SignalKept, KernelWakes
  <2> QED BY <2>3, <2>4
<1>b. ASSUME ~kasleep, ~kasleep', SignalKept' PROVE SignalKept' /\ KernelWakes'
  BY <1>b DEF KernelWakes
<1>1. CASE KernelBegin BY <1>i, <1>1 DEF KernelBegin, KGoto, SignalKept, KernelWakes
<1>2. CASE SignalKernelStart
  BY <1>i, <1>2 DEF SignalKernelStart, KGoto, ClearGarbage, SignalKept, KernelWakes
<1>3. CASE RunLoop BY <1>3, <1>l DEF RunLoop
<1>4. CASE Woken BY <1>4 DEF Woken, ClearGarbage, SignalKept, KernelWakes
<1>5. CASE LockGarbage BY <1>i, <1>5 DEF LockGarbage, KGoto, SignalKept, KernelWakes
<1>6. CASE CollectNode BY <1>i, <1>6 DEF CollectNode, SignalKept, KernelWakes
<1>7. CASE UnlockGarbage BY <1>i, <1>7 DEF UnlockGarbage, KGoto, SignalKept, KernelWakes
<1>8. CASE CopyNodeMap BY <1>i, <1>8 DEF CopyNodeMap, KGoto, SignalKept, KernelWakes
<1>9. ASSUME NEW n \in Nodes, NotifyNode(n) PROVE SignalKept' /\ KernelWakes'
  BY <1>i, <1>9 DEF NotifyNode, SignalKept, KernelWakes
<1>10. CASE Notified BY <1>i, <1>10 DEF Notified, ClearGarbage, SignalKept, KernelWakes
<1>11. CASE DrainLoop BY <1>11, <1>l DEF DrainLoop, Drained
<1>12. CASE LastGarbage BY <1>i, <1>12 DEF LastGarbage, ClearGarbage, SignalKept, KernelWakes
<1>13. CASE SignalKernelEnd BY <1>i, <1>13 DEF SignalKernelEnd, KGoto, SignalKept, KernelWakes
<1>14. CASE PostDone BY <1>i, <1>14 DEF PostDone, KGoto, SignalKept, KernelWakes
<1> QED
  BY <1>1, <1>2, <1>3, <1>4, <1>5, <1>6, <1>7, <1>8, <1>9, <1>10, <1>11, <1>12, <1>13,
     <1>14 DEF KernelThread

---------------------------------------------------------------------------
LEMMA InitInv == Init => IInv
<1> SUFFICES ASSUME Init PROVE IInv OBVIOUS
<1>1. 0 \in 0..UnsignedMod - 1 BY CountAssumption, FS_CardinalityType
<1>2. {"idle", "unborn"} \subseteq Places BY DEF Places
<1>3. \A t \in Threads : pc[t] \in {At("idle"), At("unborn")} BY DEF Init
<1>4. \A p \in {"idle", "unborn"} : At(p) \in PC /\ At(p).at = p BY <1>2, AtType
<1>5. pc \in [Threads -> PC] BY <1>3, <1>4 DEF Init
<1>6. CallsKnow
  BY <1>3, <1>4 DEF CallsKnow, Knows, NodeCalls, LifeCalls, QueueCalls
<1>7. TypeOK
  <2>1. /\ info \in [Nodes -> [there : BOOLEAN, started : BOOLEAN, dead : BOOLEAN]]
        /\ end \in [Queues -> [Side -> {"none", "open", "shut"}]]
        /\ garbagenodes \in Seq(Nodes) /\ thrown \in [Threads -> Asserts \cup {None}]
    BY DEF Init
  <2> QED BY <1>1, <1>5, <2>1 DEF Init, TypeOK, Status, KPC
<1> QED BY <1>6, <1>7 DEF Init, IInv, SignalKept, KernelWakes

LEMMA StepInv == IInv /\ [Next]_vars => IInv'
<1> SUFFICES ASSUME IInv, [Next]_vars PROVE IInv' OBVIOUS
<1>0. TypeOK /\ CallsKnow BY DEF IInv
<1>1. CASE KernelThread
  BY <1>0, <1>1, KernelThreadType, KernelThreadWakes DEF IInv
<1>2. ASSUME NEW t \in Threads, Inside(t) PROVE IInv'
  BY <1>0, <1>2, InsideType, InsideWakes DEF IInv
<1>3. ASSUME NEW t \in Threads, Outside(t) PROVE IInv'
  BY <1>0, <1>3, OutsideType, OutsideWakes DEF IInv
<1>4. ASSUME NEW n \in Nodes \ External, ProcessStep(n) PROVE IInv'
  <2>1. n \in Threads BY DEF Threads
  <2>2. Finish(n) \/ \E q \in Queues, d \in Side : GetQueue(n, q, d) \/ Block(n, q, d)
    BY <1>4 DEF ProcessStep
  <2> QED BY <1>0, <2>1, <2>2, OutsideType, OutsideWakes DEF IInv
<1>5. CASE UNCHANGED vars
  <2> USE <1>5 DEF vars, cvars, nvars, kvars, qvars, tvars
  <2>1. TypeOK' BY <1>0 DEF TypeOK
  <2>2. CallsKnow' BY <1>0 DEF CallsKnow, Knows
  <2>3. SignalKept' /\ KernelWakes' BY DEF IInv, SignalKept, KernelWakes
  <2> QED BY <2>1, <2>2, <2>3 DEF IInv
<1> QED BY <1>1, <1>2, <1>3, <1>4, <1>5 DEF Next

(* The inductive invariant of the kernel: types, what every thread inside  *)
(* a call knows, signals to the kernel thread kept, and KernelWakes.       *)
THEOREM Invariance == Spec => []IInv
BY InitInv, StepInv, PTL DEF Spec

(* The state of the kernel, the context and all threads keeps its type; in *)
(* particular the unsigned numlivenodes stays within its width although    *)
(* nodes are counted down that were never counted up (SignalNodeEnd after  *)
(* a SignalNodeStart that threw), and every call that goes on has the node *)
(* or the queue it is about.                                               *)
THEOREM TypeCorrect == Spec => []TypeOK
<1>1. IInv => TypeOK BY DEF IInv
<1> QED BY <1>1, Invariance, PTL

(* The kernel thread never sleeps through the end of a node or through     *)
(* Terminate (the waits of Kernel::EntryPoint on nodecond), for any number *)
(* of threads that signal it.                                              *)
THEOREM KernelThreadIsWoken == Spec => []KernelWakes
<1>1. IInv => KernelWakes BY DEF IInv
<1> QED BY <1>1, Invariance, PTL

---------------------------------------------------------------------------
(* No thread sleeps through what it waits for.                             *)

WaitPlaces == {"waitStart", "waitEnd", "waitAll", "readerStart", "writerStart", "get",
               "blocked"}

SleepersWait == \A t \in asleep : pc[t].at \in WaitPlaces

(* The thread of a node has not been started while CreateNode is under way *)
(* for it, which it is once.                                               *)
Newborn ==
  /\ \A t \in Threads : pc[t].at = "create" =>
       /\ info[pc[t].node].there /\ pc[pc[t].node].at = "unborn"
       /\ \A u \in Threads : pc[u].at = "create" /\ pc[u].node = pc[t].node => u = t
  /\ \A n \in Nodes \ External : ~info[n].there => pc[n].at = "unborn"

WInv == IInv /\ SleepersWait /\ Newborn /\ ThreadsWake

(* What t sleeps for has not happened.                                     *)
Reason(t) ==
  /\ t \in LiveDeadWaiters => ~shutdown
  /\ pc[t].at = "waitStart" => ~info[pc[t].node].started
  /\ pc[t].at = "waitEnd" => ~info[pc[t].node].dead
  /\ pc[t].at = "waitAll" => numlivenodes > 0
  /\ pc[t].at = "readerStart" => ~info[Ends[pc[t].queue]["read"]].started
  /\ pc[t].at = "writerStart" => ~info[Ends[pc[t].queue]["write"]].started
  /\ pc[t].at = "get" => end[pc[t].queue][pc[t].side] # "open"
  /\ pc[t].at = "blocked" => end[pc[t].queue][Other(pc[t].side)] # "shut"

LEMMA Reasons == ThreadsWake <=> \A t \in asleep : Reason(t)
BY DEF ThreadsWake, Reason

(* Only t moves, and it does not begin to create a node.                   *)
Moved(t) ==
  /\ pc[t].at # "unborn" /\ pc'[t].at # "create" /\ t \notin asleep'
  /\ \A u \in Threads \ {t} : pc'[u] = pc[u]

LEMMA MovedBy ==
  ASSUME TypeOK, NEW t \in Threads, pc[t].at # "unborn", t \notin asleep',
         NEW p \in Places \ {"create"}, NEW r \in PC, r.at # "create", NEW e,
         Goto(t, p) \/ Call(t, r) \/ Throw(t, e)
  PROVE  Moved(t)
<1>1. pc \in [Threads -> PC] /\ pc[t] \in PC BY DEF TypeOK
<1>2. CASE Call(t, r) BY <1>1, <1>2 DEF Call, Moved
<1>3. ASSUME NEW o \in Places \ {"create"}, Goto(t, o) PROVE Moved(t)
  <2>1. At(o).at = o BY AtType
  <2>2. [pc[t] EXCEPT !.at = o].at = o BY <1>1 DEF PC
  <2>3. pc'[t].at = o BY <1>1, <1>3, <2>1, <2>2 DEF Goto
  <2>4. \A u \in Threads \ {t} : pc'[u] = pc[u] BY <1>1, <1>3 DEF Goto
  <2> QED BY <2>3, <2>4 DEF Moved
<1>4. CASE Throw(t, e)
  <2>1. \E o \in {"idle", "ending", "aborted"} : Goto(t, o) BY <1>4 DEF Throw
  <2> QED BY <1>3, <2>1 DEF Places
<1> QED BY <1>2, <1>3, <1>4

LEMMA NewbornKept ==
  ASSUME TypeOK, CallsKnow, Newborn, NEW t \in Threads, Moved(t),
         \A n \in Nodes : info'[n].there = info[n].there
  PROVE  Newborn'
<1>1. \A u \in Threads : pc'[u].at = "create" => u # t /\ pc'[u] = pc[u] BY DEF Moved
<1>2. \A u \in Threads : pc[u].at = "create" => pc[u].node \in Nodes \ External
  BY DEF CallsKnow, Knows, NodeCalls
<1>3. \A n \in Nodes \ External : n \in Threads /\ (pc[n].at = "unborn" => pc'[n].at = "unborn")
  BY DEF Moved, Threads
<1> QED BY <1>1, <1>2, <1>3 DEF Newborn

(* Who is asleep was so before, in the same place, and nothing they wait   *)
(* for has changed.                                                        *)
LEMMA SleepersKept ==
  ASSUME SleepersWait, ThreadsWake, asleep' \subseteq asleep,
         \A u \in asleep' : pc'[u] = pc[u],
         UNCHANGED <<shutdown, info, numlivenodes, end>>
  PROVE  SleepersWait' /\ ThreadsWake'
<1>1. SleepersWait' BY DEF SleepersWait
<1>2. \A u \in asleep' : Reason(u)'
  <2> SUFFICES ASSUME NEW u \in asleep' PROVE Reason(u)' OBVIOUS
  <2>1. Reason(u) /\ pc'[u] = pc[u] BY Reasons
  <2> QED BY <2>1 DEF Reason, LiveDeadWaiters
<1>3. ThreadsWake' BY <1>2 DEF ThreadsWake, Reason
<1> QED BY <1>1, <1>3

(* A thread moves, nothing else changes.                                   *)
LEMMA MoverKept ==
  ASSUME WInv, NEW t \in Threads, Moved(t), asleep' \subseteq asleep, asleep \subseteq Threads,
         UNCHANGED <<shutdown, info, numlivenodes, end>>
  PROVE  SleepersWait' /\ Newborn' /\ ThreadsWake'
<1>1. TypeOK /\ CallsKnow /\ Newborn BY DEF WInv, IInv
<1>2. Newborn' BY <1>1, NewbornKept
<1>3. \A u \in asleep' : pc'[u] = pc[u] BY DEF Moved
<1> QED BY <1>2, <1>3, SleepersKept DEF WInv

(* A thread goes to sleep where it is, with a reason.                      *)
LEMMA FallAsleep ==
  ASSUME WInv, NEW t \in Threads, Sleep(t), pc[t].at \in WaitPlaces, Reason(t), UNCHANGED pc,
         UNCHANGED <<shutdown, info, numlivenodes, end>>
  PROVE  SleepersWait' /\ Newborn' /\ ThreadsWake'
<1>1. SleepersWait' BY DEF WInv, SleepersWait, Sleep
<1>2. Newborn' BY DEF WInv, Newborn
<1>3. \A u \in asleep' : Reason(u) BY Reasons DEF WInv, Sleep
<1>4. \A u \in asleep' : Reason(u)' BY <1>3 DEF Reason, LiveDeadWaiters
<1>5. ThreadsWake' BY <1>4 DEF ThreadsWake, Reason
<1> QED BY <1>1, <1>2, <1>5

(* A thread moves and wakes all waiters on nodelivedead.                   *)
LEMMA AllWoken ==
  ASSUME WInv, NEW t \in Threads, Moved(t), Wake(LiveDeadWaiters), UNCHANGED end,
         \A n \in Nodes : info'[n].there = info[n].there
  PROVE  SleepersWait' /\ Newborn' /\ ThreadsWake'
<1>0. TypeOK /\ CallsKnow /\ Newborn /\ asleep \subseteq Threads BY DEF WInv, IInv, TypeOK
<1>1. Newborn' BY <1>0, NewbornKept
<1>2. asleep' \subseteq asleep /\ \A u \in asleep' : pc'[u] = pc[u]
  BY <1>0 DEF Wake, Moved
<1>3. SleepersWait' BY <1>2 DEF WInv, SleepersWait
<1>4. \A u \in asleep' : Reason(u)'
  <2> SUFFICES ASSUME NEW u \in asleep' PROVE Reason(u)' OBVIOUS
  <2>1. Reason(u) /\ pc'[u] = pc[u] /\ u \in Threads BY <1>0, <1>2, Reasons DEF WInv
  <2>2. u \notin LiveDeadWaiters BY DEF Wake
  <2> QED BY <2>1, <2>2 DEF Reason, LiveDeadWaiters
<1>5. ThreadsWake' BY <1>4 DEF ThreadsWake, Reason
<1> QED BY <1>1, <1>3, <1>5

LEMMA InsideSleep ==
  ASSUME WInv, NEW t \in Threads, Inside(t)
  PROVE  SleepersWait' /\ Newborn' /\ ThreadsWake'
<1> USE DEF cvars, nvars, kvars, qvars, tvars
<1> DEFINE Goal == SleepersWait' /\ Newborn' /\ ThreadsWake'
<1>w. /\ TypeOK /\ CallsKnow /\ Newborn /\ pc[t] \in PC /\ pc \in [Threads -> PC]
      /\ Knows(t, pc[t]) /\ asleep \subseteq Threads
  BY DEF WInv, IInv, TypeOK, CallsKnow
<1>a. pc[t].at \notin WaitPlaces => t \notin asleep BY DEF WInv, SleepersWait
<1>p. {"idle", "exited", "ending", "erase", "bury", "begin", "writerStart", "connect", "lookup",
       "attachWriter", "attachReader", "release", "notify", "wakeup"} \subseteq Places \ {"create"}
  BY DEF Places
<1>i. At("idle") \in PC /\ At("idle").at # "create" BY AtType, <1>p
<1>m. ASSUME pc[t].at # "unborn", t \notin asleep', NEW p \in Places \ {"create"}, NEW e,
             Goto(t, p) \/ Throw(t, e)
      PROVE  Moved(t)
  BY <1>i, <1>m, <1>w, MovedBy
<1>k. ASSUME pc[t].at # "unborn", t \notin asleep, UNCHANGED asleep,
             NEW p \in Places \ {"create"}, NEW e, Goto(t, p) \/ Throw(t, e),
             UNCHANGED <<shutdown, info, numlivenodes, end>>
      PROVE  Goal
  <2>1. Moved(t) BY <1>k, <1>m
  <2> QED BY <1>k, <1>w, <2>1, MoverKept
<1>n. ASSUME Moved(t), Wake(LiveDeadWaiters), UNCHANGED end,
             \A n \in Nodes : info'[n].there = info[n].there
      PROVE  Goal
  BY <1>n, AllWoken
<1>1. CASE InternalCreateNode(t)
  <2> DEFINE n == pc[t].node
  <2>1. pc[t].at = "create" /\ n \in Nodes \ External /\ n \in Threads
    BY <1>1, <1>w DEF InternalCreateNode, Knows, NodeCalls, Threads
  <2>2. t \notin asleep BY <1>a, <2>1 DEF WaitPlaces
  <2>3. CASE status # "RUNNING"
    BY <1>1, <1>k, <1>p, <2>1, <2>2, <2>3 DEF InternalCreateNode
  <2>4. CASE status = "RUNNING"
    <3>1. /\ pc' = [[pc EXCEPT ![t] = At("idle")] EXCEPT ![n] = At("begin")]
          /\ UNCHANGED <<asleep, shutdown, info, numlivenodes, end>>
      BY <1>1, <2>4 DEF InternalCreateNode
    <3>2. /\ info[n].there /\ pc[n].at = "unborn" /\ n # t
          /\ \A u \in Threads \ {t} : pc[u].at = "create" => pc[u].node # n
      BY <1>w, <2>1 DEF Newborn
    <3>3. n \notin asleep BY <3>2 DEF WInv, SleepersWait, WaitPlaces
    <3>4. /\ \A u \in Threads \ {t, n} : pc'[u] = pc[u]
          /\ pc'[t].at = "idle" /\ pc'[n].at = "begin"
      BY <1>w, <2>1, <3>1, <3>2, AtType DEF Places
    <3>5. \A u \in Threads : pc'[u].at = "create" => u \notin {t, n} /\ pc'[u] = pc[u]
      BY <3>4
    <3>6. \A u \in Threads : pc[u].at = "create" => pc[u].node \in Threads \ {t}
      BY <1>w, <2>1 DEF Newborn, CallsKnow, Knows, NodeCalls, Threads
    <3>7. Newborn'
      <4>1. ASSUME NEW u \in Threads, pc'[u].at = "create"
            PROVE  /\ info[pc'[u].node].there /\ pc'[pc'[u].node].at = "unborn"
                   /\ \A v \in Threads : pc'[v].at = "create" /\ pc'[v].node = pc'[u].node => v = u
        <5>1. pc'[u] = pc[u] /\ u # t BY <3>5, <4>1
        <5>2. pc[u].node \in Threads \ {t, n} BY <3>2, <3>6, <4>1, <5>1
        <5> QED BY <1>w, <3>4, <3>5, <4>1, <5>1, <5>2 DEF Newborn
      <4>2. \A m \in Nodes \ External : ~info[m].there => pc'[m].at = "unborn"
        BY <1>w, <2>1, <3>2, <3>4 DEF Newborn, Threads
      <4> QED BY <3>1, <4>1, <4>2 DEF Newborn
    <3>8. \A u \in asleep' : pc'[u] = pc[u] BY <1>w, <2>2, <3>1, <3>3, <3>4
    <3> QED BY <3>1, <3>7, <3>8, SleepersKept DEF WInv
  <2> QED BY <2>3, <2>4
<1>2. CASE InsertEndpoint(t) BY <1>2, <1>k, <1>a, <1>p DEF InsertEndpoint, WaitPlaces
<1>3. CASE SignalNodeStart(t)
  <2>0. pc[t].at = "begin" /\ t \notin asleep BY <1>3, <1>a DEF SignalNodeStart, WaitPlaces
  <2>1. CASE shutdown BY <1>3, <1>k, <1>p, <2>0, <2>1 DEF SignalNodeStart
  <2>2. CASE ~shutdown
    <3>1. /\ info' = [info EXCEPT ![NodeOf(t)].started = TRUE] /\ UNCHANGED end
          /\ Wake(LiveDeadWaiters) /\ Goto(t, "idle")
      BY <1>3, <2>2 DEF SignalNodeStart
    <3>2. \A n \in Nodes : info'[n].there = info[n].there BY <1>w, <3>1 DEF TypeOK
    <3>3. Moved(t) BY <1>m, <1>p, <2>0, <3>1 DEF Wake
    <3> QED BY <1>n, <3>1, <3>2, <3>3
  <2> QED BY <2>1, <2>2
<1>4. CASE FindEndpoint(t) BY <1>4, <1>k, <1>a, <1>p DEF FindEndpoint, WaitPlaces
<1>5. CASE SignalNodeEnd(t)
  <2>0. pc[t].at = "ending" /\ t \notin asleep BY <1>5, <1>a DEF SignalNodeEnd, WaitPlaces
  <2>1. /\ info' = [info EXCEPT ![NodeOf(t)].dead = TRUE] /\ UNCHANGED end
        /\ Wake(LiveDeadWaiters) /\ Goto(t, "erase")
    BY <1>5 DEF SignalNodeEnd, EndWakes
  <2>2. \A n \in Nodes : info'[n].there = info[n].there BY <1>w, <2>1 DEF TypeOK
  <2>3. Moved(t) BY <1>m, <1>p, <2>0, <2>1 DEF Wake
  <2> QED BY <1>n, <2>1, <2>2, <2>3
<1>6. CASE EraseNode(t)
  <2>1. Ended(t) \in Places \ {"create"} BY <1>p DEF Ended
  <2>2. pc[t].at = "erase" /\ t \notin asleep BY <1>6, <1>a DEF EraseNode, WaitPlaces
  <2>3. /\ UNCHANGED <<asleep, shutdown, info, numlivenodes, end>>
        /\ Goto(t, Ended(t)) \/ Goto(t, "bury") \/ Throw(t, NotInMap)
    BY <1>6 DEF EraseNode
  <2> QED BY <1>k, <1>p, <2>1, <2>2, <2>3
<1>7. CASE BuryNode(t)
  <2>1. Ended(t) \in Places \ {"create"} BY <1>p DEF Ended
  <2> QED BY <1>7, <1>k, <1>a, <2>1 DEF BuryNode, WaitPlaces
<1>8. CASE ReaderStart(t)
  <2>1. pc[t].at = "readerStart" /\ WaitForNodeStart(t, Ends[pc[t].queue]["read"], "writerStart") BY <1>8 DEF ReaderStart
  <2>2. t \notin asleep /\ UNCHANGED <<shutdown, info, numlivenodes, end>>
    BY <2>1 DEF WaitForNodeStart
  <2>3. CASE Sleep(t) /\ UNCHANGED pc /\ ~shutdown /\ ~info[Ends[pc[t].queue]["read"]].started
    BY <2>1, <2>2, <2>3, FallAsleep DEF Reason, WaitPlaces
  <2>4. CASE UNCHANGED asleep /\ (Goto(t, "writerStart") \/ Throw(t, "Shutdown"))
    BY <1>k, <1>p, <2>1, <2>2, <2>4
  <2> QED BY <2>1, <2>3, <2>4 DEF WaitForNodeStart
<1>9. CASE WriterStart(t)
  <2>1. pc[t].at = "writerStart" /\ WaitForNodeStart(t, Ends[pc[t].queue]["write"], "connect") BY <1>9 DEF WriterStart
  <2>2. t \notin asleep /\ UNCHANGED <<shutdown, info, numlivenodes, end>>
    BY <2>1 DEF WaitForNodeStart
  <2>3. CASE Sleep(t) /\ UNCHANGED pc /\ ~shutdown /\ ~info[Ends[pc[t].queue]["write"]].started
    BY <2>1, <2>2, <2>3, FallAsleep DEF Reason, WaitPlaces
  <2>4. CASE UNCHANGED asleep /\ (Goto(t, "connect") \/ Throw(t, "Shutdown"))
    BY <1>k, <1>p, <2>1, <2>2, <2>4
  <2> QED BY <2>1, <2>3, <2>4 DEF WaitForNodeStart
<1>10. CASE WaitStart(t)
  <2>1. pc[t].at = "waitStart" /\ WaitForNodeStart(t, pc[t].node, "idle") BY <1>10 DEF WaitStart
  <2>2. t \notin asleep /\ UNCHANGED <<shutdown, info, numlivenodes, end>>
    BY <2>1 DEF WaitForNodeStart
  <2>3. CASE Sleep(t) /\ UNCHANGED pc /\ ~shutdown /\ ~info[pc[t].node].started
    BY <2>1, <2>2, <2>3, FallAsleep DEF Reason, WaitPlaces
  <2>4. CASE UNCHANGED asleep /\ (Goto(t, "idle") \/ Throw(t, "Shutdown"))
    BY <1>k, <1>p, <2>1, <2>2, <2>4
  <2> QED BY <2>1, <2>3, <2>4 DEF WaitForNodeStart
<1>11. CASE ConnectEndpoints(t) BY <1>11, <1>k, <1>a, <1>p DEF ConnectEndpoints, WaitPlaces
<1>12. CASE LookupNodes(t) BY <1>12, <1>k, <1>a, <1>p DEF LookupNodes, WaitPlaces
(* An end that opens wakes who waits for it at the node.                   *)
<1>t. ASSUME NEW d \in Side, NEW p \in Places \ {"create"}, Attach(t, d, p), pc[t].queue \in Queues,
             pc[t].at \notin WaitPlaces \cup {"unborn"}
      PROVE  Goal
  <2> DEFINE q == pc[t].queue
  <2>1. /\ end' = [end EXCEPT ![q][d] = "open"] /\ Wake(NodeWaiters(Ends[q][d])) /\ Goto(t, p)
        /\ UNCHANGED <<shutdown, info, numlivenodes>>
    BY <1>t DEF Attach
  <2>2. t \notin asleep' BY <1>t, <1>a, <2>1 DEF Wake
  <2>3. Moved(t) BY <1>m, <1>t, <2>1, <2>2
  <2>4. Newborn' BY <1>w, <2>1, <2>3, NewbornKept
  <2>5. asleep' \subseteq asleep /\ \A u \in asleep' : pc'[u] = pc[u]
    BY <1>w, <2>1, <2>3 DEF Wake, Moved
  <2>6. SleepersWait' BY <2>5 DEF WInv, SleepersWait
  <2>7. \A u \in asleep' : Reason(u)'
    <3> SUFFICES ASSUME NEW u \in asleep' PROVE Reason(u)' OBVIOUS
    <3>1. Reason(u) /\ pc'[u] = pc[u] /\ u \in Threads BY <1>w, <2>5, Reasons DEF WInv
    <3>2. u \notin NodeWaiters(Ends[q][d]) BY <2>1 DEF Wake
    <3>3. pc[u] \in PC /\ Knows(u, pc[u]) BY <1>w, <3>1 DEF TypeOK, CallsKnow
    <3>4. pc[u].at = "get" => end'[pc[u].queue][pc[u].side] # "open"
      <4> SUFFICES ASSUME pc[u].at = "get" PROVE end'[pc[u].queue][pc[u].side] # "open"
        OBVIOUS
      <4>1. pc[u].queue \in Queues /\ pc[u].side \in Side BY <3>3 DEF Knows, QueueCalls, PC
      <4>2. pc[u].queue # q \/ pc[u].side # d BY <3>1, <3>2 DEF NodeWaiters
      <4>3. end[pc[u].queue][pc[u].side] # "open" BY <3>1 DEF Reason
      <4> HIDE DEF q
      <4> QED BY <1>w, <2>1, <4>1, <4>2, <4>3 DEF TypeOK
    <3>5. pc[u].at = "blocked" => end'[pc[u].queue][Other(pc[u].side)] # "shut"
      <4> SUFFICES ASSUME pc[u].at = "blocked" PROVE end'[pc[u].queue][Other(pc[u].side)] # "shut"
        OBVIOUS
      <4>1. pc[u].queue \in Queues /\ Other(pc[u].side) \in Side
        BY <3>3 DEF Knows, QueueCalls, PC, Other, Side
      <4>2. end[pc[u].queue][Other(pc[u].side)] # "shut" BY <3>1 DEF Reason
      <4> HIDE DEF q
      <4> QED BY <1>t, <1>w, <2>1, <4>1, <4>2 DEF TypeOK
    <3> QED BY <2>1, <3>1, <3>4, <3>5 DEF Reason, LiveDeadWaiters
  <2>8. ThreadsWake' BY <2>7 DEF ThreadsWake, Reason
  <2> QED BY <2>4, <2>6, <2>8
<1>13. CASE AttachWriter(t)
  BY <1>13, <1>t, <1>w, <1>p DEF AttachWriter, Knows, QueueCalls, WaitPlaces, Side
<1>14. CASE AttachReader(t)
  BY <1>14, <1>t, <1>w, <1>p DEF AttachReader, Knows, QueueCalls, WaitPlaces, Side
<1>15. CASE ReleaseNodes(t)
  <2> DEFINE q == pc[t].queue
             W == IF \E d \in Side : Closes(q, d) THEN QueueWaiters(q) ELSE {}
  <2>0. pc[t].at = "release" /\ q \in Queues
    BY <1>15, <1>w DEF ReleaseNodes, Knows, QueueCalls
  <2>1. /\ end' = [end EXCEPT ![q] = [d \in Side |-> IF Closes(q, d) THEN "shut" ELSE end[q][d]]]
        /\ Wake(W) /\ Goto(t, "idle") /\ UNCHANGED <<shutdown, info, numlivenodes>>
    BY <1>15 DEF ReleaseNodes
  <2>2. t \notin asleep' BY <1>a, <2>0, <2>1 DEF Wake, WaitPlaces
  <2>3. Moved(t) BY <1>m, <1>p, <2>0, <2>1, <2>2
  <2>4. Newborn' BY <1>w, <2>1, <2>3, NewbornKept
  <2>5. asleep' \subseteq asleep /\ \A u \in asleep' : pc'[u] = pc[u]
    BY <1>w, <2>1, <2>3 DEF Wake, Moved
  <2>6. SleepersWait' BY <2>5 DEF WInv, SleepersWait
  <2>7. /\ \A p \in Queues, d \in Side : end'[p][d] = end[p][d] \/ (end'[p][d] = "shut" /\ p = q)
        /\ (\A d \in Side : ~Closes(q, d)) => \A p \in Queues, d \in Side : end'[p][d] = end[p][d]
    BY <1>w, <2>0, <2>1 DEF TypeOK
  <2>8. \A u \in asleep' : Reason(u)'
    <3> SUFFICES ASSUME NEW u \in asleep' PROVE Reason(u)' OBVIOUS
    <3>1. Reason(u) /\ pc'[u] = pc[u] /\ u \in Threads BY <1>w, <2>5, Reasons DEF WInv
    <3>2. u \notin W BY <2>1 DEF Wake
    <3>3. pc[u] \in PC /\ Knows(u, pc[u]) BY <1>w, <3>1 DEF TypeOK, CallsKnow
    <3>4. pc[u].at \in {"get", "blocked"} =>
            pc[u].queue \in Queues /\ pc[u].side \in Side /\ Other(pc[u].side) \in Side
      BY <3>3 DEF Knows, QueueCalls, PC, Other, Side
    <3>5. pc[u].at = "get" => end'[pc[u].queue][pc[u].side] # "open"
      BY <2>7, <3>1, <3>4 DEF Reason
    <3>6. pc[u].at = "blocked" => end'[pc[u].queue][Other(pc[u].side)] # "shut"
      BY <2>7, <3>1, <3>2, <3>4 DEF Reason, QueueWaiters
    <3> QED BY <2>1, <3>1, <3>5, <3>6 DEF Reason, LiveDeadWaiters
  <2>9. ThreadsWake' BY <2>8 DEF ThreadsWake, Reason
  <2> QED BY <2>4, <2>6, <2>9
<1>16. CASE GetEnd(t)
  <2>1. pc[t].at = "get" /\ t \notin asleep /\ UNCHANGED <<shutdown, info, numlivenodes, end>>
    BY <1>16 DEF GetEnd
  <2>2. CASE Sleep(t) /\ UNCHANGED pc /\ end[pc[t].queue][pc[t].side] # "open"
    <3>1. Reason(t) BY <2>1, <2>2 DEF Reason, LiveDeadWaiters
    <3> QED BY <2>1, <2>2, <3>1, FallAsleep DEF WaitPlaces
  <2>3. CASE UNCHANGED asleep /\ (Goto(t, "idle") \/ Throw(t, "Shutdown"))
    BY <1>k, <1>p, <2>1, <2>3
  <2> QED BY <1>16, <2>2, <2>3 DEF GetEnd
<1>17. CASE Unblock(t)
  <2>1. pc[t].at = "blocked" /\ t \notin asleep /\ UNCHANGED <<shutdown, info, numlivenodes, end>>
    BY <1>17 DEF Unblock
  <2>2. CASE Sleep(t) /\ UNCHANGED pc /\ end[pc[t].queue][Other(pc[t].side)] # "shut"
    <3>1. Reason(t) BY <2>1, <2>2 DEF Reason, LiveDeadWaiters
    <3> QED BY <2>1, <2>2, <3>1, FallAsleep DEF WaitPlaces
  <2>3. CASE UNCHANGED asleep /\ (Goto(t, "idle") \/ Throw(t, "Shutdown") \/ Throw(t, "BrokenQueue"))
    BY <1>k, <1>p, <2>1, <2>3
  <2> QED BY <1>17, <2>2, <2>3 DEF Unblock
<1>18. CASE WaitForNodeEnd(t)
  <2>1. pc[t].at = "waitEnd" /\ t \notin asleep /\ UNCHANGED <<shutdown, info, numlivenodes, end>>
    BY <1>18 DEF WaitForNodeEnd
  <2>2. CASE Sleep(t) /\ UNCHANGED pc /\ ~shutdown /\ ~info[pc[t].node].dead
    <3>1. Reason(t) BY <2>1, <2>2 DEF Reason, LiveDeadWaiters
    <3> QED BY <2>1, <2>2, <3>1, FallAsleep DEF WaitPlaces
  <2>3. CASE UNCHANGED asleep /\ (Goto(t, "idle") \/ Throw(t, NeverBegan))
    BY <1>k, <1>p, <2>1, <2>3
  <2> QED BY <1>18, <2>2, <2>3 DEF WaitForNodeEnd, WaitOver
<1>19. CASE WaitForAllNodeEnd(t)
  <2>1. pc[t].at = "waitAll" /\ t \notin asleep /\ UNCHANGED <<shutdown, info, numlivenodes, end>>
    BY <1>19 DEF WaitForAllNodeEnd
  <2>2. CASE Sleep(t) /\ UNCHANGED pc /\ ~shutdown /\ numlivenodes > 0
    <3>1. Reason(t) BY <2>1, <2>2 DEF Reason, LiveDeadWaiters
    <3> QED BY <2>1, <2>2, <3>1, FallAsleep DEF WaitPlaces
  <2>3. CASE UNCHANGED asleep /\ (Goto(t, "idle"))
    BY <1>k, <1>p, <2>1, <2>3
  <2> QED BY <1>19, <2>2, <2>3 DEF WaitForAllNodeEnd
<1>20. CASE NotifyKernel(t) BY <1>20, <1>k, <1>a, <1>p DEF NotifyKernel, WaitPlaces
<1>21. CASE SendWakeup(t) BY <1>21, <1>k, <1>a, <1>p DEF SendWakeup, WaitPlaces
<1> QED
  BY <1>1, <1>2, <1>3, <1>4, <1>5, <1>6, <1>7, <1>8, <1>9, <1>10, <1>11, <1>12,
     <1>13, <1>14, <1>15, <1>16, <1>17, <1>18, <1>19, <1>20, <1>21 DEF Inside

(* A node is created: its thread has not been started, and no other call   *)
(* creates it.                                                             *)
LEMMA CreateKept ==
  ASSUME WInv, NEW t \in Threads, NEW n \in Nodes, NEW r \in PC, t \notin asleep, UNCHANGED asleep,
         Call(t, r), r.node = n, r.at \in {"create", "insert"}, r.at = "create" => n \notin External,
         n \notin External => r.at = "create",
         ~info[n].there, info' = [info EXCEPT ![n].there = TRUE],
         UNCHANGED <<shutdown, numlivenodes, end>>
  PROVE  SleepersWait' /\ Newborn' /\ ThreadsWake'
<1>0. /\ TypeOK /\ CallsKnow /\ Newborn /\ SleepersWait /\ asleep \subseteq Threads
      /\ pc \in [Threads -> PC]
  BY DEF WInv, IInv, TypeOK
<1>1. pc[t].at = "idle" /\ pc'[t] = r /\ \A u \in Threads \ {t} : pc'[u] = pc[u]
  BY <1>0 DEF Call
<1>2. /\ info'[n].there
      /\ \A m \in Nodes : /\ m # n => info'[m] = info[m]
                          /\ info'[m].started = info[m].started /\ info'[m].dead = info[m].dead
  BY <1>0 DEF TypeOK
<1>3. \A u \in Threads : pc[u].at = "create" =>
        pc[u].node \in Nodes \ External /\ pc[u].node \in Threads \ {t} /\ pc[u].node # n
  BY <1>0, <1>1 DEF Newborn, CallsKnow, Knows, NodeCalls, Threads
<1>4. Newborn'
  <2>1. ASSUME NEW u \in Threads, pc'[u].at = "create"
        PROVE  /\ info'[pc'[u].node].there /\ pc'[pc'[u].node].at = "unborn"
               /\ \A v \in Threads : pc'[v].at = "create" /\ pc'[v].node = pc'[u].node => v = u
    <3>1. CASE u = t
      <4>1. pc'[u].node = n /\ n \notin External BY <1>1, <2>1, <3>1
      <4>2. n \in Threads /\ pc[n].at = "unborn" /\ n # t
        BY <1>0, <1>1, <4>1 DEF Newborn, Threads
      <4> QED BY <1>1, <1>2, <1>3, <3>1, <4>1, <4>2
    <3>2. CASE u # t
      <4>1. pc'[u] = pc[u] BY <1>1, <3>2
      <4>2. /\ info[pc[u].node].there /\ pc[pc[u].node].at = "unborn"
            /\ \A v \in Threads : pc[v].at = "create" /\ pc[v].node = pc[u].node => v = u
        BY <1>0, <2>1, <4>1 DEF Newborn
      <4> QED BY <1>1, <1>2, <1>3, <2>1, <4>1, <4>2
    <3> QED BY <3>1, <3>2
  <2>2. \A m \in Nodes \ External : ~info'[m].there => pc'[m].at = "unborn"
    <3> SUFFICES ASSUME NEW m \in Nodes \ External, ~info'[m].there PROVE pc'[m].at = "unborn"
      OBVIOUS
    <3>1. m # n /\ info'[m] = info[m] BY <1>2
    <3>2. m \in Threads /\ pc[m].at = "unborn" BY <1>0, <3>1 DEF Newborn, Threads
    <3> QED BY <1>1, <3>2
  <2> QED BY <2>1, <2>2 DEF Newborn
<1>5. \A u \in asleep' : pc'[u] = pc[u] BY <1>0, <1>1
<1>6. SleepersWait' BY <1>0, <1>5 DEF SleepersWait
<1>7. \A u \in asleep' : Reason(u)'
  <2> SUFFICES ASSUME NEW u \in asleep' PROVE Reason(u)' OBVIOUS
  <2>1. Reason(u) /\ pc'[u] = pc[u] /\ u \in Threads BY <1>0, <1>5, Reasons DEF WInv
  <2>2. pc[u] \in PC /\ Knows(u, pc[u]) BY <1>0, <2>1 DEF CallsKnow
  <2>3. pc[u].at \in {"waitStart", "waitEnd"} => pc[u].node \in Nodes
    BY <2>2 DEF Knows, NodeCalls
  <2>4. pc[u].at \in {"readerStart", "writerStart"} =>
          Ends[pc[u].queue]["read"] \in Nodes /\ Ends[pc[u].queue]["write"] \in Nodes
    BY <2>2, ThreadAssumption DEF Knows, QueueCalls, Side
  <2> QED BY <1>2, <2>1, <2>3, <2>4 DEF Reason, LiveDeadWaiters
<1>8. ThreadsWake' BY <1>7 DEF ThreadsWake, Reason
<1> QED BY <1>4, <1>6, <1>8

LEMMA OutsideSleep ==
  ASSUME WInv, NEW t \in Threads,
         \/ Outside(t)
         \/ \E q \in Queues, d \in Side : GetQueue(t, q, d) \/ Block(t, q, d)
         \/ Finish(t)
  PROVE  SleepersWait' /\ Newborn' /\ ThreadsWake'
<1> USE DEF cvars, nvars, kvars, qvars, tvars
<1> DEFINE Goal == SleepersWait' /\ Newborn' /\ ThreadsWake'
<1>w. /\ TypeOK /\ CallsKnow /\ pc[t] \in PC /\ pc \in [Threads -> PC] /\ asleep \subseteq Threads
  BY DEF WInv, IInv, TypeOK
<1>a. pc[t].at = "idle" => t \notin asleep BY DEF WInv, SleepersWait, WaitPlaces
<1>p. {"idle", "ending", "notify", "insert", "destroy", "waitStart", "waitEnd", "waitAll",
       "readerStart", "get", "blocked"} \subseteq Places \ {"create"} /\ "create" \in Places
  BY DEF Places
<1>i. At("idle") \in PC /\ At("idle").at # "create" BY AtType, <1>p
(* Calls that throw, and calls that go on, but for the creation of a node. *)
<1>k. ASSUME pc[t].at = "idle", UNCHANGED asleep, NEW p \in Places \ {"create"}, NEW e,
             Goto(t, p) \/ Throw(t, e), UNCHANGED <<shutdown, info, numlivenodes, end>>
      PROVE  Goal
  <2>1. Moved(t) BY <1>i, <1>k, <1>a, <1>w, MovedBy
  <2> QED BY <1>k, <1>w, <2>1, MoverKept
<1>c. ASSUME UNCHANGED asleep, NEW r \in PC, r.at # "create", Call(t, r),
             UNCHANGED <<shutdown, info, numlivenodes, end>>
      PROVE  Goal
  <2>1. pc[t].at = "idle" BY <1>c DEF Call
  <2>2. Moved(t) BY <1>c, <1>a, <1>w, <2>1 DEF Moved, Call
  <2> QED BY <1>c, <1>w, <2>2, MoverKept
<1>1. ASSUME NEW n \in Nodes, CreateNode(t, n) PROVE Goal
  <2>1. CASE shutdown BY <1>1, <1>k, <1>p, <2>1 DEF CreateNode
  <2>2. CASE ~shutdown
    <3> DEFINE p == IF n \in External THEN "insert" ELSE "create"
               r == AtNode(p, n)
    <3>1. /\ Call(t, r) /\ info' = [info EXCEPT ![n].there = TRUE] /\ ~info[n].there
          /\ UNCHANGED <<asleep, shutdown, numlivenodes, end>>
      BY <1>1, <2>2 DEF CreateNode
    <3>2. r \in PC /\ r.at = p /\ r.node = n BY <1>p, AtType
    <3>3. t \notin asleep BY <1>a, <3>1 DEF Call
    <3>4. /\ p \in {"create", "insert"} /\ (p = "create" => n \notin External)
          /\ (n \notin External => p = "create")
      OBVIOUS
    <3> HIDE DEF r, p
    <3> QED BY <3>1, <3>2, <3>3, <3>4, CreateKept
  <2> QED BY <2>1, <2>2
<1>2. ASSUME NEW n \in Nodes, DestroyExternalEndpoint(t, n) PROVE Goal
  <2>1. CASE shutdown BY <1>2, <1>k, <1>p, <2>1 DEF DestroyExternalEndpoint
  <2>2. CASE ~shutdown
    <3>1. AtNode("destroy", n) \in PC /\ AtNode("destroy", n).at = "destroy" BY <1>p, AtType
    <3> QED BY <1>2, <1>c, <2>2, <3>1 DEF DestroyExternalEndpoint
  <2> QED BY <2>1, <2>2
<1>3. ASSUME NEW p \in {"waitStart", "waitEnd", "waitAll"}, NEW n \in Nodes \cup {None}, Wait(t, p, n)
      PROVE  Goal
  <2>1. AtNode(p, n) \in PC /\ AtNode(p, n).at = p BY <1>p, AtType
  <2> QED BY <1>3, <1>c, <2>1 DEF Wait
<1>4. ASSUME Terminate(t) PROVE Goal
  <2>1. /\ pc[t].at = "idle" /\ Goto(t, "notify") /\ Wake(LiveDeadWaiters)
        /\ UNCHANGED <<info, end>>
    BY <1>4 DEF Terminate
  <2>2. t \notin asleep' BY <1>a, <2>1 DEF Wake
  <2>3. Moved(t) BY <1>i, <1>p, <1>w, <2>1, <2>2, MovedBy
  <2> QED BY <2>1, <2>3, AllWoken
<1>5. ASSUME NEW q \in Queues, CreateQueue(t, q) PROVE Goal
  <2> DEFINE r == AtQueue("readerStart", q, "read")
  <2>1. r \in PC /\ r.at = "readerStart" BY <1>p, AtType DEF Side
  <2>2. Call(t, r) /\ UNCHANGED <<asleep, shutdown, info, numlivenodes, end>>
    BY <1>5 DEF CreateQueue
  <2> QED BY <1>c, <2>1, <2>2
<1>6. ASSUME NEW q \in Queues, NEW d \in Side, Transfer(t, q, d) PROVE Goal
  <2>1. PICK u \in Threads : pc[u].at = "blocked" /\ Goto(u, "idle") /\ Wake({u})
    BY <1>6 DEF Transfer, QueueWaiters
  <2>2. u \notin asleep' /\ asleep' \subseteq asleep BY <2>1 DEF Wake
  <2>3. Moved(u) BY <1>i, <1>p, <1>w, <2>1, <2>2, MovedBy
  <2>4. UNCHANGED <<shutdown, info, numlivenodes, end>> BY <1>6 DEF Transfer
  <2> QED BY <1>w, <2>2, <2>3, <2>4, MoverKept
<1>7. ASSUME NEW q \in Queues, NEW d \in Side, GetQueue(t, q, d) PROVE Goal
  <2>1. CASE shutdown BY <1>7, <1>k, <1>p, <2>1 DEF GetQueue
  <2>2. CASE ~shutdown
    <3>1. AtQueue("get", q, d) \in PC /\ AtQueue("get", q, d).at = "get" BY <1>p, AtType
    <3> QED BY <1>7, <1>c, <2>2, <3>1 DEF GetQueue
  <2> QED BY <2>1, <2>2
<1>8. ASSUME NEW q \in Queues, NEW d \in Side, Block(t, q, d) PROVE Goal
  <2>0. pc[t].at = "idle" /\ UNCHANGED <<shutdown, info, numlivenodes, end>> BY <1>8 DEF Block
  <2>1. CASE UNCHANGED asleep /\ (Throw(t, "Shutdown") \/ Throw(t, "BrokenQueue"))
    BY <1>k, <1>p, <2>0, <2>1
  <2>2. CASE Call(t, AtQueue("blocked", q, d)) /\ Sleep(t) /\ end[q][Other(d)] # "shut"
    <3> DEFINE r == AtQueue("blocked", q, d)
    <3>1. r \in PC /\ r.at = "blocked" /\ r.queue = q /\ r.side = d
      BY <1>p, AtType DEF AtQueue, At
    <3> HIDE DEF r
    <3>2. pc'[t] = r /\ \A u \in Threads \ {t} : pc'[u] = pc[u]
      BY <1>w, <2>2 DEF Call, r
    <3>3. Newborn'
      <4>1. \A u \in Threads : pc'[u].at = "create" => u # t /\ pc'[u] = pc[u] BY <3>1, <3>2
      <4>2. \A u \in Threads : pc[u].at = "create" => pc[u].node \in Nodes \ External
        BY <1>w DEF CallsKnow, Knows, NodeCalls
      <4>3. \A n \in Nodes \ External : n \in Threads /\ (pc[n].at = "unborn" => pc'[n].at = "unborn")
        BY <2>0, <3>2 DEF Threads
      <4> QED BY <2>0, <4>1, <4>2, <4>3 DEF WInv, Newborn
    <3>4. \A u \in asleep' : u = t \/ (u \in asleep /\ pc'[u] = pc[u])
      BY <1>w, <2>2, <3>2 DEF Sleep
    <3>5. SleepersWait' BY <3>1, <3>2, <3>4 DEF WInv, SleepersWait, WaitPlaces
    <3>6. \A u \in asleep' : Reason(u)'
      <4> SUFFICES ASSUME NEW u \in asleep' PROVE Reason(u)' OBVIOUS
      <4>1. CASE u = t BY <2>0, <2>2, <3>1, <3>2, <4>1 DEF Reason, LiveDeadWaiters
      <4>2. CASE u # t
        <5>1. Reason(u) /\ pc'[u] = pc[u] BY <3>4, <4>2, Reasons DEF WInv
        <5> QED BY <2>0, <5>1 DEF Reason, LiveDeadWaiters
      <4> QED BY <4>1, <4>2
    <3>7. ThreadsWake' BY <3>6 DEF ThreadsWake, Reason
    <3> QED BY <3>3, <3>5, <3>7
  <2> QED BY <1>8, <2>1, <2>2 DEF Block
<1>9. ASSUME Finish(t) PROVE Goal BY <1>9, <1>k, <1>p DEF Finish
<1> HIDE DEF Goal
<1>b. ASSUME NEW n \in Nodes \cup {None}
      PROVE  \A p \in {"waitStart", "waitEnd", "waitAll"} : Wait(t, p, n) => Goal
  BY <1>3
<1>d. Goal BY <1>1, <1>2, <1>b, <1>4, <1>5, <1>6, <1>7, <1>8, <1>9 DEF Outside
<1> QED BY <1>d DEF Goal

(* The kernel thread moves no other thread and puts none to sleep.         *)
LEMMA KernelThreadSleep ==
  ASSUME WInv, KernelThread
  PROVE  SleepersWait' /\ Newborn' /\ ThreadsWake'
<1> USE DEF cvars, nvars, kvars, qvars, tvars
<1>0. TypeOK /\ CallsKnow /\ asleep \subseteq Threads BY DEF WInv, IInv, TypeOK
<1>1. /\ UNCHANGED <<pc, shutdown, info, numlivenodes>>
      /\ asleep' \subseteq asleep
      /\ UNCHANGED end \/ CollectNode
  BY DEF KernelThread, KernelBegin, SignalKernelStart, RunLoop, Woken, LockGarbage, CollectNode,
         UnlockGarbage, CopyNodeMap, NotifyNode, Notified, DrainLoop, LoopTurn, LastGarbage,
         SignalKernelEnd, PostDone, KSame, Wake
<1>2. Newborn' BY <1>1 DEF WInv, Newborn
<1>3. CASE UNCHANGED end BY <1>1, <1>2, <1>3, SleepersKept DEF WInv
<1>4. CASE CollectNode
  <2> DEFINE n == garbagenodes[Len(garbagenodes)]
  <2> HIDE DEF n
  <2>1. /\ end' = [q \in Queues |-> [d \in Side |->
                     IF Ends[q][d] = n /\ end[q][d] = "open" THEN "shut" ELSE end[q][d]]]
        /\ Wake(WaitersAtQueuesOf(n))
    BY <1>4 DEF CollectNode, n
  <2>2. SleepersWait' BY <1>1 DEF WInv, SleepersWait
  <2>3. \A u \in asleep' : Reason(u)'
    <3> SUFFICES ASSUME NEW u \in asleep' PROVE Reason(u)' OBVIOUS
    <3>1. Reason(u) /\ u \in Threads BY <1>0, <1>1, Reasons DEF WInv
    <3>2. u \notin WaitersAtQueuesOf(n) BY <2>1 DEF Wake
    <3>3. pc[u] \in PC /\ Knows(u, pc[u]) BY <1>0, <3>1 DEF TypeOK, CallsKnow
    <3>4. pc[u].at \in {"get", "blocked"} =>
            pc[u].queue \in Queues /\ pc[u].side \in Side /\ Other(pc[u].side) \in Side
      BY <3>3 DEF Knows, QueueCalls, PC, Other, Side
    <3>5. pc[u].at = "get" => end'[pc[u].queue][pc[u].side] # "open"
      BY <2>1, <3>1, <3>4 DEF Reason
    <3>6. pc[u].at = "blocked" => end'[pc[u].queue][Other(pc[u].side)] # "shut"
      <4> SUFFICES ASSUME pc[u].at = "blocked"
                   PROVE  end'[pc[u].queue][Other(pc[u].side)] # "shut"
        OBVIOUS
      <4> DEFINE q == pc[u].queue
                 d == Other(pc[u].side)
      <4>1. q \in Queues /\ d \in Side /\ end[q][d] # "shut" BY <3>1, <3>4 DEF Reason
      <4>2. u \in QueueWaiters(q) BY <3>1 DEF QueueWaiters
      <4>3. ~(Ends[q][d] = n /\ end[q][d] = "open")
        BY <3>2, <4>1, <4>2 DEF WaitersAtQueuesOf
      <4> HIDE DEF q, d
      <4>4. end'[q][d] # "shut" BY <2>1, <4>1, <4>3
      <4> QED BY <4>4 DEF q, d
    <3> QED BY <1>1, <3>1, <3>5, <3>6 DEF Reason, LiveDeadWaiters
  <2>4. ThreadsWake' BY <2>3 DEF ThreadsWake, Reason
  <2> QED BY <1>2, <2>2, <2>4
<1> QED BY <1>1, <1>3, <1>4

LEMMA InitSleep == Init => WInv
<1> SUFFICES ASSUME Init PROVE WInv OBVIOUS
<1>1. \A p \in {"idle", "unborn"} : At(p).at = p BY AtType DEF Places
<1>2. Newborn
  <2>1. \A t \in Threads : pc[t].at # "create" BY <1>1 DEF Init
  <2>2. \A n \in Nodes \ External : pc[n].at = "unborn"
    BY <1>1, ThreadAssumption DEF Init, Threads
  <2> QED BY <2>1, <2>2 DEF Newborn
<1>3. SleepersWait /\ ThreadsWake BY DEF Init, SleepersWait, ThreadsWake
<1> QED BY <1>2, <1>3, InitInv DEF WInv

LEMMA StepSleep == WInv /\ [Next]_vars => WInv'
<1> SUFFICES ASSUME WInv, [Next]_vars PROVE WInv' OBVIOUS
<1>0. IInv' BY StepInv DEF WInv
<1> SUFFICES SleepersWait' /\ Newborn' /\ ThreadsWake' BY <1>0 DEF WInv
<1>1. CASE KernelThread BY <1>1, KernelThreadSleep
<1>2. ASSUME NEW t \in Threads, Inside(t) PROVE SleepersWait' /\ Newborn' /\ ThreadsWake'
  BY <1>2, InsideSleep
<1>3. ASSUME NEW t \in Threads, Outside(t) PROVE SleepersWait' /\ Newborn' /\ ThreadsWake'
  BY <1>3, OutsideSleep
<1>4. ASSUME NEW n \in Nodes \ External, ProcessStep(n)
      PROVE  SleepersWait' /\ Newborn' /\ ThreadsWake'
  <2>1. n \in Threads BY DEF Threads
  <2>2. Finish(n) \/ \E q \in Queues, d \in Side : GetQueue(n, q, d) \/ Block(n, q, d)
    BY <1>4 DEF ProcessStep
  <2> QED BY <2>1, <2>2, OutsideSleep
<1>5. CASE UNCHANGED vars
  <2> USE <1>5 DEF vars, cvars, nvars, kvars, qvars, tvars
  <2>1. Newborn' BY DEF WInv, Newborn
  <2> QED BY <2>1, SleepersKept DEF WInv
<1> QED BY <1>1, <1>2, <1>3, <1>4, <1>5 DEF Next

(* The inductive invariant behind the waits of all other threads: besides  *)
(* IInv, that a thread sleeps only in a wait, and that CreateNode starts a *)
(* thread that is not asleep.                                              *)
THEOREM SleepInvariance == Spec => []WInv
BY InitSleep, StepSleep, PTL DEF Spec

(* No thread sleeps through what it waits for: the waits of LocalContext   *)
(* on nodelivedead, of PseudoNode::GetReader and GetWriter, and of a queue *)
(* on its condition, however creations, ends and Terminate interleave.     *)
THEOREM NobodySleepsThrough == Spec => []ThreadsWake
<1>1. WInv => ThreadsWake BY DEF WInv
<1> QED BY <1>1, SleepInvariance, PTL

---------------------------------------------------------------------------
(* The life of a node: the ASSERTs about it hold, live nodes are counted   *)
(* right, no end of a queue stays open at a node that has been collected   *)
(* and, with one client, Wait returns only when no node is left.           *)

(* Where a call starts or ends an external endpoint.                       *)
EndpointCalls == {"insert", "begin", "destroy", "ending", "erase", "bury"}

(* The client t creates or destroys the endpoint x.                        *)
Holds(t, x) == pc[t].at \in EndpointCalls /\ pc[t].node = x

(* A node with a thread: what the context and nodemap say of it, given     *)
(* where its thread is.                                                    *)
NodeLife(n) ==
  /\ pc[n].at \notin {"insert", "destroy"}
  /\ pc[n].at \in {"unborn", "begin"} => ~info[n].started
  /\ pc[n].at \notin {"erase", "bury", "exited", "aborted"} => ~info[n].dead
  /\ pc[n].at \notin {"unborn", "bury", "exited"} => n \in nodemap
  /\ pc[n].at \notin {"unborn", "begin"} /\ ~shutdown => info[n].started

(* An external endpoint: one client at a time creates or destroys it.      *)
EndpointLife(x) ==
  /\ ~info[x].there => ~info[x].started /\ ~info[x].dead /\ x \notin nodemap
  /\ info[x].dead /\ ~shutdown => info[x].started
  /\ \A t \in Clients : Holds(t, x) =>
       /\ info[x].there
       /\ \A u \in Clients : Holds(u, x) => u = t
       /\ pc[t].at \in {"insert", "begin"} => ~info[x].started /\ ~info[x].dead
       /\ pc[t].at = "insert" => x \notin nodemap
       /\ pc[t].at \in {"begin", "ending", "erase"} => x \in nodemap
       /\ pc[t].at = "ending" /\ ~shutdown => info[x].started /\ ~info[x].dead
  /\ ~shutdown /\ x \in nodemap =>
       \/ info[x].started /\ ~info[x].dead
       \/ \E t \in Clients : Holds(t, x) /\ pc[t].at \in {"begin", "erase"}

Lives ==
  /\ \A n \in Nodes \ External : NodeLife(n)
  /\ \A x \in External : EndpointLife(x)
  /\ \A t \in Clients : pc[t].at \in EndpointCalls => pc[t].node \in External

(* The kernel thread is past its loop only after Terminate.                *)
PastLoop ==
  /\ status \in {"TERMINATE", "DONE"} => shutdown
  /\ kpc # "init" => status # "INITIALIZED"
  /\ \A t \in Threads : pc[t].at = "notify" => shutdown
  /\ kpc \in {"copy", "notify", "drain", "last", "end", "done", "exited"} => shutdown
  /\ kpc \in {"gc", "clear", "woken"} /\ kret # "loop" => shutdown

LInv == WInv /\ Lives /\ PastLoop /\ NodeAssertsHold /\ LiveCountExact

(* The kernel thread has seen nodemap empty.                               *)
HasDrained == kpc \in {"last", "end", "done", "exited"} \/ (kpc \in {"gc", "clear"} /\ kret = "end")

Drains ==
  /\ shutdown => pc[Main].at \notin {"create", "insert"}
  /\ HasDrained => nodemap = {} /\ \A t \in Threads : pc[t].at \notin {"create", "insert", "bury"}
  /\ kpc = "woken" => kret # "end"
  /\ kpc \in {"end", "done", "exited"} => garbagenodes = <<>>
  /\ status = "DONE" => kpc = "exited"

DInv == LInv /\ Drains

---------------------------------------------------------------------------
(* What a thread's move leaves of pc.                                      *)

LEMMA GotoIs ==
  ASSUME TypeOK, NEW t \in Threads, NEW p \in Places, Goto(t, p)
  PROVE  /\ pc'[t].at = p /\ \A u \in Threads \ {t} : pc'[u] = pc[u]
         /\ p # "idle" /\ ~(t \in Nodes /\ p = "ending") =>
              pc'[t].node = pc[t].node /\ pc'[t].queue = pc[t].queue
<1>1. pc \in [Threads -> PC] /\ pc[t] \in PC BY DEF TypeOK
<1>2. At(p).at = p BY AtType
<1>3. /\ [pc[t] EXCEPT !.at = p].at = p /\ [pc[t] EXCEPT !.at = p].node = pc[t].node
      /\ [pc[t] EXCEPT !.at = p].queue = pc[t].queue
  BY <1>1 DEF PC
<1>4. \A u \in Threads \ {t} : pc'[u] = pc[u] BY <1>1 DEF Goto
<1>5. CASE p = "idle" \/ (t \in Nodes /\ p = "ending")
  <2>1. pc'[t] = At(p) BY <1>1, <1>5 DEF Goto
  <2> QED BY <1>2, <1>4, <1>5, <2>1
<1>6. CASE ~(p = "idle" \/ (t \in Nodes /\ p = "ending"))
  <2>1. pc'[t] = [pc[t] EXCEPT !.at = p] BY <1>1, <1>6 DEF Goto
  <2> QED BY <1>3, <1>4, <2>1
<1> QED BY <1>5, <1>6

LEMMA ThrowIs ==
  ASSUME TypeOK, NEW t \in Threads, NEW e, Throw(t, e)
  PROVE  /\ \A u \in Threads \ {t} : pc'[u] = pc[u]
         /\ t \in Clients => pc'[t].at = "idle"
         /\ t \notin Clients => pc'[t].at = (IF Caught(e) THEN "ending" ELSE "aborted")
<1>1. {"idle", "ending", "aborted"} \subseteq Places BY DEF Places
<1>2. CASE t \in Clients BY <1>1, <1>2, GotoIs DEF Throw
<1>3. CASE t \notin Clients /\ Caught(e) BY <1>1, <1>3, GotoIs DEF Throw
<1>4. CASE t \notin Clients /\ ~Caught(e) BY <1>1, <1>4, GotoIs DEF Throw
<1> QED BY <1>2, <1>3, <1>4

LEMMA CallIs ==
  ASSUME TypeOK, NEW t \in Threads, NEW r \in PC, Call(t, r)
  PROVE  pc[t].at = "idle" /\ pc'[t] = r /\ \A u \in Threads \ {t} : pc'[u] = pc[u]
BY DEF TypeOK, Call

LEMMA ThreadKinds ==
  /\ Clients \subseteq Threads /\ Nodes \ External \subseteq Threads
  /\ \A t \in Threads : t \in Clients <=> t \notin Nodes \ External
  /\ \A t \in Threads : t \in Clients <=> t \notin Nodes
BY ThreadAssumption DEF Threads

(* A throw of no ASSERT, or of one of the others.                          *)
LEMMA AssertsKept ==
  ASSUME TypeOK, NodeAssertsHold, NEW t \in Threads, NEW e,
         UNCHANGED thrown \/ (Throw(t, e) /\ e \notin {NotInMap, NeverBegan})
  PROVE  NodeAssertsHold'
BY DEF TypeOK, NodeAssertsHold, Throw

---------------------------------------------------------------------------
(* What keeps the life of a node.                                          *)

LEMMA NodeKept ==
  ASSUME NEW n \in Nodes \ External, NodeLife(n), pc'[n] = pc[n], shutdown => shutdown',
         info'[n].started = info[n].started, info'[n].dead = info[n].dead,
         n \in nodemap => n \in nodemap'
  PROVE  NodeLife(n)'
BY DEF NodeLife

LEMMA EndpointKept ==
  ASSUME NEW x \in External, EndpointLife(x), info'[x] = info[x], shutdown => shutdown',
         x \in nodemap' <=> x \in nodemap,
         \A u \in Clients : Holds(u, x) \/ Holds(u, x)' => pc'[u] = pc[u]
  PROVE  EndpointLife(x)'
<1>1. \A u \in Clients : Holds(u, x)' <=> Holds(u, x) BY DEF Holds
<1>2. \A u \in Clients : Holds(u, x) => pc'[u] = pc[u] OBVIOUS
<1> HIDE DEF Holds
<1>3. /\ ~info'[x].there => ~info'[x].started /\ ~info'[x].dead /\ x \notin nodemap'
      /\ info'[x].dead /\ ~shutdown' => info'[x].started
  BY DEF EndpointLife
<1>4. ASSUME NEW t \in Clients, Holds(t, x)'
      PROVE  /\ info'[x].there
             /\ \A u \in Clients : Holds(u, x)' => u = t
             /\ pc'[t].at \in {"insert", "begin"} => ~info'[x].started /\ ~info'[x].dead
             /\ pc'[t].at = "insert" => x \notin nodemap'
             /\ pc'[t].at \in {"begin", "ending", "erase"} => x \in nodemap'
             /\ pc'[t].at = "ending" /\ ~shutdown' => info'[x].started /\ ~info'[x].dead
  BY <1>1, <1>2, <1>4 DEF EndpointLife
<1>5. ASSUME ~shutdown', x \in nodemap'
      PROVE  \/ info'[x].started /\ ~info'[x].dead
             \/ \E t \in Clients : Holds(t, x)' /\ pc'[t].at \in {"begin", "erase"}
  BY <1>1, <1>2, <1>5 DEF EndpointLife
<1> QED BY <1>3, <1>4, <1>5 DEF EndpointLife

(* A step of t that starts and ends no node.                               *)
Neutral(t) ==
  /\ UNCHANGED <<info, nodemap, numlivenodes>> /\ (shutdown => shutdown')
  /\ \A u \in Threads \ {t} : pc'[u] = pc[u]
  /\ t \in Clients => pc[t].at \notin EndpointCalls /\ pc'[t].at \notin EndpointCalls
  /\ t \notin Clients =>
       /\ pc[t].at \notin {"unborn", "begin", "erase", "bury", "exited", "aborted"}
       /\ pc'[t].at \notin {"unborn", "insert", "begin", "destroy", "erase", "bury", "exited"}

LEMMA NeutralKeeps ==
  ASSUME Lives, LiveCountExact, NEW t \in Threads, Neutral(t)
  PROVE  Lives' /\ LiveCountExact'
<1>1. ASSUME NEW n \in Nodes \ External PROVE NodeLife(n)'
  <2>1. NodeLife(n) /\ n \in Threads BY ThreadKinds DEF Lives
  <2>2. CASE n # t BY <2>1, <2>2, NodeKept DEF Neutral
  <2>3. CASE n = t
    <3>1. t \notin Clients BY <2>3, ThreadKinds
    <3> QED BY <2>1, <2>3, <3>1 DEF Neutral, NodeLife
  <2> QED BY <2>2, <2>3
<1>2. ASSUME NEW x \in External PROVE EndpointLife(x)'
  <2>1. EndpointLife(x) BY DEF Lives
  <2>2. \A u \in Clients : Holds(u, x) \/ Holds(u, x)' => pc'[u] = pc[u]
    BY ThreadKinds DEF Neutral, Holds
  <2> QED BY <2>1, <2>2, EndpointKept DEF Neutral
<1>3. \A u \in Clients : pc'[u].at \in EndpointCalls => pc'[u].node \in External
  BY ThreadKinds DEF Lives, Neutral
<1>4. LiveCountExact' BY DEF LiveCountExact, Neutral
<1> QED BY <1>1, <1>2, <1>3, <1>4 DEF Lives

---------------------------------------------------------------------------
(* The count of live nodes.                                                *)

Live == {n \in Nodes : info[n].started /\ ~info[n].dead}

LEMMA LiveFinite ==
  /\ IsFiniteSet(Live) /\ Cardinality(Live) \in Nat /\ Cardinality(Live) < UnsignedMod
  /\ UnsignedMod \in Nat
<1>1. Live \subseteq Nodes BY DEF Live
<1>2. IsFiniteSet(Live) /\ Cardinality(Live) <= Cardinality(Nodes)
  BY <1>1, CountAssumption, FS_Subset
<1>3. Cardinality(Live) \in Nat /\ Cardinality(Nodes) \in Nat
  BY <1>2, CountAssumption, FS_CardinalityType
<1> QED BY <1>2, <1>3, CountAssumption

LEMMA CountUp ==
  ASSUME NEW k \in Nat, k + 1 < UnsignedMod PROVE (k + 1) % UnsignedMod = k + 1
BY CountAssumption

LEMMA CountsDown ==
  ASSUME NEW k \in Nat, 0 < k, k < UnsignedMod PROVE (k + UnsignedMod - 1) % UnsignedMod = k - 1
BY CountAssumption

(* Counting up the start of a node that was not live.                      *)
LEMMA StartCounted ==
  ASSUME LiveCountExact, NEW m \in Nodes, ~info[m].started, ~info[m].dead,
         TypeOK, info' = [info EXCEPT ![m].started = TRUE],
         numlivenodes' = (numlivenodes + 1) % UnsignedMod, UNCHANGED shutdown
  PROVE  LiveCountExact'
<1> SUFFICES ASSUME ~shutdown PROVE numlivenodes' = Cardinality(Live')
  BY DEF LiveCountExact, Live
<1>1. numlivenodes = Cardinality(Live) BY DEF LiveCountExact, Live
<1>2. Live' = Live \cup {m} /\ m \notin Live BY DEF TypeOK, Live
<1>3. Cardinality(Live') = Cardinality(Live) + 1 BY <1>2, LiveFinite, FS_AddElement
<1>4. Live' \subseteq Nodes BY DEF Live
<1>5. Cardinality(Live') <= Cardinality(Nodes) /\ Cardinality(Nodes) \in Nat
  BY <1>4, CountAssumption, FS_Subset, FS_CardinalityType
<1>6. Cardinality(Live) + 1 < UnsignedMod BY <1>3, <1>5, CountAssumption, LiveFinite
<1> QED BY <1>1, <1>3, <1>6, LiveFinite, CountUp

(* Counting down the end of a node that was live.                          *)
LEMMA EndCounted ==
  ASSUME LiveCountExact, NEW m \in Nodes, ~shutdown => info[m].started /\ ~info[m].dead,
         TypeOK, info' = [info EXCEPT ![m].dead = TRUE],
         numlivenodes' = CountDown, UNCHANGED shutdown
  PROVE  LiveCountExact'
<1> SUFFICES ASSUME ~shutdown PROVE numlivenodes' = Cardinality(Live')
  BY DEF LiveCountExact, Live
<1>1. numlivenodes = Cardinality(Live) BY DEF LiveCountExact, Live
<1>2. Live' = Live \ {m} /\ m \in Live BY DEF TypeOK, Live
<1>3. Cardinality(Live') = Cardinality(Live) - 1 BY <1>2, LiveFinite, FS_RemoveElement
<1>4. Cardinality(Live) > 0 BY <1>2, LiveFinite, FS_EmptySet
<1> QED BY <1>1, <1>3, <1>4, LiveFinite, CountsDown DEF CountDown

---------------------------------------------------------------------------
(* The steps that start or end a node.                                     *)

(* A client that starts or ends a node works on an endpoint, the thread of *)
(* a node on itself.                                                       *)
LEMMA WhoseLife ==
  ASSUME WInv, Lives, NEW t \in Threads, pc[t].at \in EndpointCalls
  PROVE  /\ t \in Clients => NodeOf(t) = pc[t].node /\ NodeOf(t) \in External
                             /\ Holds(t, NodeOf(t)) /\ EndpointLife(NodeOf(t))
         /\ t \notin Clients => NodeOf(t) = t /\ t \in Nodes \ External /\ NodeLife(t)
         /\ NodeOf(t) \in Nodes
<1>1. CASE t \in Clients
  <2>1. NodeOf(t) = pc[t].node BY <1>1, ThreadKinds DEF NodeOf
  <2> QED BY <1>1, <2>1, ThreadAssumption DEF Lives, Holds
<1>2. CASE t \notin Clients BY <1>2, ThreadKinds DEF NodeOf, Lives
<1> QED BY <1>1, <1>2

(* Only t moves, and only its node is touched: all others keep their lives.*)
LEMMA OthersKeep ==
  ASSUME WInv, Lives, NEW t \in Threads, pc[t].at \in EndpointCalls, UNCHANGED shutdown,
         \A u \in Threads \ {t} : pc'[u] = pc[u],
         pc'[t].at \in EndpointCalls => pc'[t].node = pc[t].node \/ t \notin Clients,
         \A n \in Nodes \ {NodeOf(t)} : info'[n] = info[n] /\ (n \in nodemap' <=> n \in nodemap)
  PROVE  /\ \A n \in Nodes \ External : n # NodeOf(t) => NodeLife(n)'
         /\ \A x \in External : x # NodeOf(t) => EndpointLife(x)'
         /\ \A u \in Clients : pc'[u].at \in EndpointCalls => pc'[u].node \in External
<1>1. ASSUME NEW n \in Nodes \ External, n # NodeOf(t) PROVE NodeLife(n)'
  <2>1. n # t BY <1>1 DEF NodeOf
  <2>2. n \in Threads /\ NodeLife(n) BY ThreadKinds DEF Lives
  <2> QED BY <1>1, <2>1, <2>2, NodeKept
<1>2. ASSUME NEW x \in External, x # NodeOf(t) PROVE EndpointLife(x)'
  <2>1. x \in Nodes /\ EndpointLife(x) BY ThreadAssumption DEF Lives
  <2>2. ASSUME NEW u \in Clients, Holds(u, x) \/ Holds(u, x)' PROVE pc'[u] = pc[u]
    <3>1. u \in Threads BY ThreadKinds
    <3>2. CASE u = t
      <4>1. NodeOf(t) = pc[t].node BY <3>2, ThreadKinds DEF NodeOf
      <4> QED BY <1>2, <2>2, <3>2, <4>1 DEF Holds
    <3> QED BY <3>1, <3>2
  <2> QED BY <1>2, <2>1, <2>2, EndpointKept
<1>3. ASSUME NEW u \in Clients, pc'[u].at \in EndpointCalls PROVE pc'[u].node \in External
  <2>1. u \in Threads BY ThreadKinds
  <2> QED BY <1>3, <2>1 DEF Lives
<1> QED BY <1>1, <1>2, <1>3

LEMMA CreateLife ==
  ASSUME LInv, NEW t \in Threads, InternalCreateNode(t), status = "RUNNING"
  PROVE  Lives' /\ NodeAssertsHold' /\ LiveCountExact'
<1> USE DEF cvars, nvars, kvars, qvars, tvars
<1> DEFINE n == pc[t].node
<1>1. TypeOK /\ CallsKnow /\ Newborn /\ Lives /\ pc[t].at = "create" /\ Knows(t, pc[t])
  BY DEF LInv, WInv, IInv, CallsKnow, InternalCreateNode
<1>2. n \in Nodes \ External /\ n \in Threads /\ NodeLife(n) /\ n # t /\ pc[n].at = "unborn"
  BY <1>1, ThreadKinds DEF Knows, NodeCalls, Newborn, Lives
<1>3. /\ pc' = [[pc EXCEPT ![t] = At("idle")] EXCEPT ![n] = At("begin")]
      /\ nodemap' = nodemap \cup {n} /\ UNCHANGED <<shutdown, info, numlivenodes, thrown>>
  BY DEF InternalCreateNode
<1>4. /\ \A u \in Threads \ {t, n} : pc'[u] = pc[u]
      /\ pc'[t].at = "idle" /\ pc'[n].at = "begin"
  BY <1>1, <1>2, <1>3, AtType DEF TypeOK, Places
<1> HIDE DEF n
<1>5. ASSUME NEW m \in Nodes \ External PROVE NodeLife(m)'
  <2>1. m \in Threads /\ NodeLife(m) BY <1>1, ThreadKinds DEF Lives
  <2>2. CASE m = n BY <1>2, <1>3, <1>4, <2>1, <2>2 DEF NodeLife
  <2>3. CASE m = t /\ m # n BY <1>1, <1>3, <1>4, <2>1, <2>3 DEF NodeLife
  <2>4. CASE m \notin {t, n} BY <1>3, <1>4, <2>1, <2>4, NodeKept
  <2> QED BY <2>2, <2>3, <2>4
<1>6. \A u \in Clients : u # n /\ u \in Threads BY <1>2, ThreadKinds
<1>7. ASSUME NEW x \in External PROVE EndpointLife(x)'
  <2>1. EndpointLife(x) /\ x # n BY <1>1, <1>2 DEF Lives
  <2>2. \A u \in Clients : Holds(u, x) \/ Holds(u, x)' => pc'[u] = pc[u]
    BY <1>1, <1>4, <1>6 DEF Holds, EndpointCalls
  <2> QED BY <1>3, <2>1, <2>2, EndpointKept
<1>8. \A u \in Clients : pc'[u].at \in EndpointCalls => pc'[u].node \in External
  BY <1>1, <1>4, <1>6 DEF Lives, EndpointCalls
<1>9. NodeAssertsHold' /\ LiveCountExact' BY <1>3 DEF LInv, NodeAssertsHold, LiveCountExact
<1> QED BY <1>5, <1>7, <1>8, <1>9 DEF Lives

LEMMA InsertLife ==
  ASSUME LInv, NEW t \in Threads, InsertEndpoint(t)
  PROVE  Lives' /\ NodeAssertsHold' /\ LiveCountExact'
<1> USE DEF cvars, nvars, kvars, qvars, tvars
<1>0. PICK x : x = pc[t].node OBVIOUS
<1>1. TypeOK /\ Lives /\ WInv /\ pc[t].at = "insert" /\ Goto(t, "begin")
      /\ nodemap' = nodemap \cup {x} /\ UNCHANGED <<shutdown, info, numlivenodes, thrown>>
  BY <1>0 DEF LInv, WInv, IInv, InsertEndpoint
<1>2. pc[t].at \in EndpointCalls BY <1>1 DEF EndpointCalls
<1>3. t \in Clients BY <1>1, ThreadKinds DEF Lives, NodeLife
<1>4. NodeOf(t) = x /\ x \in External /\ Holds(t, x) /\ EndpointLife(x)
  BY <1>0, <1>1, <1>2, <1>3, WhoseLife
<1>5. pc'[t].at = "begin" /\ pc'[t].node = x /\ \A u \in Threads \ {t} : pc'[u] = pc[u]
  BY <1>0, <1>1, GotoIs DEF Places
<1>6. /\ \A n \in Nodes \ External : n # x => NodeLife(n)'
      /\ \A y \in External : y # x => EndpointLife(y)'
      /\ \A u \in Clients : pc'[u].at \in EndpointCalls => pc'[u].node \in External
  BY <1>1, <1>2, <1>3, <1>4, <1>5, OthersKeep, <1>0
<1>7. EndpointLife(x)'
  <2>1. \A u \in Clients : Holds(u, x)' => u = t
    BY <1>3, <1>4, <1>5, ThreadKinds DEF Holds, EndpointLife
  <2>2. Holds(t, x)' BY <1>5 DEF Holds, EndpointCalls
  <2>3. info[x].there /\ ~info[x].started /\ ~info[x].dead
    BY <1>1, <1>3, <1>4 DEF EndpointLife
  <2> HIDE DEF Holds
  <2> QED BY <1>1, <1>3, <1>5, <2>1, <2>2, <2>3 DEF EndpointLife
<1>8. NodeAssertsHold' /\ LiveCountExact' BY <1>1 DEF LInv, NodeAssertsHold, LiveCountExact
<1> QED BY <1>4, <1>6, <1>7, <1>8 DEF Lives

(* It suffices to look at the node of t.                                   *)
LEMMA OneLife ==
  ASSUME LInv, NEW t \in Threads, pc[t].at \in EndpointCalls, UNCHANGED shutdown,
         \A u \in Threads \ {t} : pc'[u] = pc[u],
         pc'[t].at \in EndpointCalls => pc'[t].node = pc[t].node \/ t \notin Clients,
         \A n \in Nodes \ {NodeOf(t)} : info'[n] = info[n] /\ (n \in nodemap' <=> n \in nodemap),
         NEW m \in Nodes, m = NodeOf(t), t \in Clients => EndpointLife(m)',
         t \notin Clients => NodeLife(m)'
  PROVE  Lives'
<1>1. WInv /\ Lives BY DEF LInv
<1>2. /\ \A n \in Nodes \ External : n # m => NodeLife(n)'
      /\ \A y \in External : y # m => EndpointLife(y)'
      /\ \A u \in Clients : pc'[u].at \in EndpointCalls => pc'[u].node \in External
  BY <1>1, OthersKeep
<1>3. /\ t \in Clients => m \in External
      /\ t \notin Clients => m \in Nodes \ External
  BY <1>1, WhoseLife
<1> QED BY <1>2, <1>3 DEF Lives

(* Nobody else holds the endpoint that t holds.                            *)
LEMMA OnlyHolder ==
  ASSUME NEW t \in Clients, NEW x \in External, Holds(t, x), EndpointLife(x),
         \A u \in Threads \ {t} : pc'[u] = pc[u]
  PROVE  \A u \in Clients : Holds(u, x)' => u = t
BY ThreadKinds DEF Holds, EndpointLife

(* The node of a thread at a life-cycle step, by its kind.                 *)
LEMMA LifeOf ==
  ASSUME LInv, NEW t \in Threads, pc[t].at \in EndpointCalls
  PROVE  \E m \in Nodes : /\ m = NodeOf(t)
                          /\ t \in Clients => m = pc[t].node /\ m \in External
                                              /\ Holds(t, m) /\ EndpointLife(m)
                          /\ t \notin Clients => m = t /\ m \notin External /\ NodeLife(m)
BY WhoseLife DEF LInv

LEMMA StartLife ==
  ASSUME LInv, NEW t \in Threads, SignalNodeStart(t)
  PROVE  Lives' /\ NodeAssertsHold' /\ LiveCountExact'
<1> USE DEF cvars, nvars, kvars, qvars, tvars
<1>1. TypeOK /\ NodeAssertsHold /\ LiveCountExact /\ pc[t].at = "begin"
      /\ pc[t].at \in EndpointCalls /\ UNCHANGED <<shutdown, nodemap>>
  BY DEF LInv, WInv, IInv, SignalNodeStart, EndpointCalls
<1>2. PICK m \in Nodes : /\ m = NodeOf(t)
                         /\ t \in Clients => m = pc[t].node /\ m \in External
                                             /\ Holds(t, m) /\ EndpointLife(m)
                         /\ t \notin Clients => m = t /\ m \notin External /\ NodeLife(m)
  BY <1>1, LifeOf
<1>3. CASE shutdown
  <2>1. Throw(t, "Shutdown") /\ UNCHANGED <<info, numlivenodes>>
    BY <1>3 DEF SignalNodeStart
  <2>2. /\ \A u \in Threads \ {t} : pc'[u] = pc[u]
        /\ t \in Clients => pc'[t].at = "idle"
        /\ t \notin Clients => pc'[t].at = "ending"
    BY <1>1, <2>1, ThrowIs DEF Caught
  <2>3. t \in Clients => EndpointLife(m)'
    <3> SUFFICES ASSUME t \in Clients PROVE EndpointLife(m)' OBVIOUS
    <3>1. \A u \in Clients : ~Holds(u, m)'
      BY <1>2, <2>2, OnlyHolder DEF Holds, EndpointCalls
    <3> HIDE DEF Holds
    <3> QED BY <1>1, <1>2, <1>3, <2>1, <3>1 DEF EndpointLife
  <2>4. t \notin Clients => NodeLife(m)'
    BY <1>1, <1>2, <1>3, <2>1, <2>2 DEF NodeLife
  <2>5. Lives' BY <1>1, <1>2, <2>1, <2>2, <2>3, <2>4, OneLife DEF EndpointCalls
  <2>6. NodeAssertsHold'
    <3>1. "Shutdown" \notin {NotInMap, NeverBegan} BY DEF NotInMap, NeverBegan
    <3> QED BY <1>1, <2>1, <3>1, AssertsKept
  <2>7. LiveCountExact' BY <1>1, <1>3 DEF LiveCountExact
  <2> QED BY <2>5, <2>6, <2>7
<1>4. CASE ~shutdown
  <2>1. /\ info' = [info EXCEPT ![m].started = TRUE] /\ Goto(t, "idle")
        /\ numlivenodes' = (numlivenodes + 1) % UnsignedMod /\ UNCHANGED thrown
    BY <1>2, <1>4 DEF SignalNodeStart
  <2>2. pc'[t].at = "idle" /\ \A u \in Threads \ {t} : pc'[u] = pc[u]
    BY <1>1, <2>1, GotoIs DEF Places
  <2>3. /\ info'[m].started /\ info'[m].dead = info[m].dead /\ info'[m].there = info[m].there
        /\ \A n \in Nodes \ {m} : info'[n] = info[n]
    BY <1>1, <2>1 DEF TypeOK
  <2>4. ~info[m].started /\ ~info[m].dead /\ m \in nodemap /\ (t \in Clients => info[m].there)
    BY <1>1, <1>2 DEF NodeLife, EndpointLife
  <2>5. t \in Clients => EndpointLife(m)'
    <3> SUFFICES ASSUME t \in Clients PROVE EndpointLife(m)' OBVIOUS
    <3>1. \A u \in Clients : ~Holds(u, m)'
      BY <1>2, <2>2, OnlyHolder DEF Holds, EndpointCalls
    <3> HIDE DEF Holds
    <3> QED BY <1>1, <2>3, <2>4, <3>1 DEF EndpointLife
  <2>6. t \notin Clients => NodeLife(m)' BY <1>1, <1>2, <2>2, <2>3, <2>4 DEF NodeLife
  <2>7. Lives' BY <1>1, <1>2, <2>2, <2>3, <2>5, <2>6, OneLife DEF EndpointCalls
  <2>8. NodeAssertsHold' BY <1>1, <2>1, AssertsKept
  <2>9. LiveCountExact' BY <1>1, <2>1, <2>4, StartCounted
  <2> QED BY <2>7, <2>8, <2>9
<1> QED BY <1>3, <1>4

LEMMA FindLife ==
  ASSUME LInv, NEW t \in Threads, FindEndpoint(t)
  PROVE  Lives' /\ NodeAssertsHold' /\ LiveCountExact'
<1> USE DEF cvars, nvars, kvars, qvars, tvars
<1>1. TypeOK /\ Lives /\ NodeAssertsHold /\ LiveCountExact /\ pc[t].at = "destroy"
      /\ pc[t].at \in EndpointCalls
      /\ UNCHANGED <<shutdown, info, numlivenodes, nodemap, thrown>>
  BY DEF LInv, WInv, IInv, FindEndpoint, EndpointCalls
<1>2. t \in Clients BY <1>1, ThreadKinds DEF Lives, NodeLife
<1>3. PICK m \in Nodes : m = NodeOf(t) /\ m = pc[t].node /\ m \in External
                         /\ Holds(t, m) /\ EndpointLife(m)
  BY <1>1, <1>2, LifeOf
<1>4. /\ \A u \in Threads \ {t} : pc'[u] = pc[u]
      /\ \/ m \in nodemap /\ pc'[t].at = "ending" /\ pc'[t].node = m
         \/ m \notin nodemap /\ pc'[t].at = "idle"
  <2>1. t \notin Nodes BY <1>2, ThreadKinds
  <2>2. CASE m \in nodemap
    <3>1. Goto(t, "ending") BY <1>3, <2>2 DEF FindEndpoint
    <3> QED BY <1>1, <1>3, <2>1, <2>2, <3>1, GotoIs DEF Places
  <2>3. CASE m \notin nodemap
    <3>1. Goto(t, "idle") BY <1>3, <2>3 DEF FindEndpoint
    <3> QED BY <1>1, <2>3, <3>1, GotoIs DEF Places
  <2> QED BY <2>2, <2>3
<1>5. EndpointLife(m)'
  <2>1. \A u \in Clients : Holds(u, m)' => u = t BY <1>2, <1>3, <1>4, OnlyHolder
  <2>2. \A u \in Clients : Holds(u, m) => u = t BY <1>2, <1>3 DEF EndpointLife
  <2>3. Holds(t, m)' => pc'[t].at = "ending" /\ m \in nodemap
    BY <1>4 DEF Holds, EndpointCalls
  <2>4. info[m].there /\ (~shutdown /\ m \in nodemap => info[m].started /\ ~info[m].dead)
    BY <1>1, <1>2, <1>3, <2>2 DEF EndpointLife
  <2>5. info[m].dead /\ ~shutdown => info[m].started BY <1>3 DEF EndpointLife
  <2> HIDE DEF Holds
  <2> QED BY <1>1, <2>1, <2>3, <2>4, <2>5 DEF EndpointLife
<1>6. Lives' BY <1>1, <1>2, <1>3, <1>4, <1>5, OneLife DEF EndpointCalls
<1>7. NodeAssertsHold' /\ LiveCountExact' BY <1>1 DEF NodeAssertsHold, LiveCountExact
<1> QED BY <1>6, <1>7

LEMMA EndLife ==
  ASSUME LInv, NEW t \in Threads, SignalNodeEnd(t)
  PROVE  Lives' /\ NodeAssertsHold' /\ LiveCountExact'
<1> USE DEF cvars, nvars, kvars, qvars, tvars
<1>1. TypeOK /\ NodeAssertsHold /\ LiveCountExact /\ pc[t].at = "ending"
      /\ pc[t].at \in EndpointCalls /\ UNCHANGED <<shutdown, nodemap, thrown>>
  BY DEF LInv, WInv, IInv, SignalNodeEnd, EndpointCalls
<1>2. PICK m \in Nodes : /\ m = NodeOf(t)
                         /\ t \in Clients => m = pc[t].node /\ m \in External
                                             /\ Holds(t, m) /\ EndpointLife(m)
                         /\ t \notin Clients => m = t /\ m \notin External /\ NodeLife(m)
  BY <1>1, LifeOf
<1>3. /\ info' = [info EXCEPT ![m].dead = TRUE] /\ numlivenodes' = CountDown /\ Goto(t, "erase")
  BY <1>2 DEF SignalNodeEnd
<1>4. /\ pc'[t].at = "erase" /\ pc'[t].node = pc[t].node
      /\ \A u \in Threads \ {t} : pc'[u] = pc[u]
  BY <1>1, <1>3, GotoIs DEF Places
<1>5. /\ info'[m].dead /\ info'[m].started = info[m].started /\ info'[m].there = info[m].there
      /\ \A n \in Nodes \ {m} : info'[n] = info[n]
  BY <1>1, <1>3 DEF TypeOK
<1>6. m \in nodemap /\ (~shutdown => info[m].started /\ ~info[m].dead)
      /\ (t \in Clients => info[m].there)
  BY <1>1, <1>2 DEF NodeLife, EndpointLife
<1>7. t \in Clients => EndpointLife(m)'
  <2> SUFFICES ASSUME t \in Clients PROVE EndpointLife(m)' OBVIOUS
  <2>1. \A u \in Clients : Holds(u, m)' => u = t BY <1>2, <1>4, OnlyHolder
  <2>2. Holds(t, m)' BY <1>2, <1>4 DEF Holds, EndpointCalls
  <2> HIDE DEF Holds
  <2> QED BY <1>1, <1>4, <1>5, <1>6, <2>1, <2>2 DEF EndpointLife
<1>8. t \notin Clients => NodeLife(m)' BY <1>1, <1>2, <1>4, <1>5, <1>6 DEF NodeLife
<1>9. Lives' BY <1>1, <1>2, <1>4, <1>5, <1>7, <1>8, OneLife
<1>10. NodeAssertsHold' BY <1>1, AssertsKept
<1>11. LiveCountExact' BY <1>1, <1>3, <1>6, EndCounted
<1> QED BY <1>9, <1>10, <1>11

(* The ASSERT of NodeTerminated: the node is in nodemap.                   *)
LEMMA EraseLife ==
  ASSUME LInv, NEW t \in Threads, EraseNode(t)
  PROVE  Lives' /\ NodeAssertsHold' /\ LiveCountExact'
<1> USE DEF cvars, nvars, kvars, qvars, tvars
<1>1. TypeOK /\ NodeAssertsHold /\ LiveCountExact /\ PastLoop /\ pc[t].at = "erase"
      /\ pc[t].at \in EndpointCalls /\ UNCHANGED <<shutdown, info, numlivenodes>>
  BY DEF LInv, WInv, IInv, EraseNode, EndpointCalls
<1>2. PICK m \in Nodes : /\ m = NodeOf(t)
                         /\ t \in Clients => m = pc[t].node /\ m \in External
                                             /\ Holds(t, m) /\ EndpointLife(m)
                         /\ t \notin Clients => m = t /\ m \notin External /\ NodeLife(m)
  BY <1>1, LifeOf
<1>3. m \in nodemap /\ (t \in Clients => info[m].there)
  BY <1>1, <1>2 DEF NodeLife, EndpointLife
<1>4. /\ UNCHANGED thrown
      /\ \/ shutdown /\ Goto(t, Ended(t)) /\ nodemap' = nodemap
         \/ Goto(t, "bury") /\ nodemap' = nodemap \ {m}
  BY <1>1, <1>2, <1>3 DEF EraseNode, PastLoop
<1>5. /\ \A u \in Threads \ {t} : pc'[u] = pc[u]
      /\ \/ shutdown /\ pc'[t].at = Ended(t) /\ nodemap' = nodemap
         \/ pc'[t].at = "bury" /\ pc'[t].node = pc[t].node /\ nodemap' = nodemap \ {m}
  BY <1>1, <1>4, GotoIs, EndedGoes DEF Places
<1>6. t \in Clients => EndpointLife(m)'
  <2> SUFFICES ASSUME t \in Clients PROVE EndpointLife(m)' OBVIOUS
  <2>1. \A u \in Clients : Holds(u, m)' => u = t BY <1>2, <1>5, OnlyHolder
  <2>2. Holds(t, m)' => pc'[t].at = "bury" BY <1>5 DEF Holds, EndpointCalls, Ended
  <2>3. info[m].dead /\ ~shutdown => info[m].started BY <1>2 DEF EndpointLife
  <2> HIDE DEF Holds
  <2> QED BY <1>1, <1>3, <1>5, <2>1, <2>2, <2>3 DEF EndpointLife
<1>7. t \notin Clients => NodeLife(m)'
  BY <1>1, <1>2, <1>5 DEF NodeLife, Ended
<1>8. \A n \in Nodes \ {m} : n \in nodemap' <=> n \in nodemap BY <1>5
<1>9. pc'[t].at \in EndpointCalls => pc'[t].node = pc[t].node
  BY <1>5 DEF Ended, EndpointCalls
<1>10. Lives' BY <1>1, <1>2, <1>5, <1>6, <1>7, <1>8, <1>9, OneLife
<1>11. NodeAssertsHold' /\ LiveCountExact' BY <1>1, <1>4 DEF NodeAssertsHold, LiveCountExact
<1> QED BY <1>10, <1>11

LEMMA BuryLife ==
  ASSUME LInv, NEW t \in Threads, BuryNode(t)
  PROVE  Lives' /\ NodeAssertsHold' /\ LiveCountExact'
<1> USE DEF cvars, nvars, kvars, qvars, tvars
<1>1. TypeOK /\ NodeAssertsHold /\ LiveCountExact /\ pc[t].at = "bury" /\ Goto(t, Ended(t))
      /\ pc[t].at \in EndpointCalls /\ UNCHANGED <<shutdown, info, numlivenodes, nodemap, thrown>>
  BY DEF LInv, WInv, IInv, BuryNode, EndpointCalls
<1>2. PICK m \in Nodes : /\ m = NodeOf(t)
                         /\ t \in Clients => m = pc[t].node /\ m \in External
                                             /\ Holds(t, m) /\ EndpointLife(m)
                         /\ t \notin Clients => m = t /\ m \notin External /\ NodeLife(m)
  BY <1>1, LifeOf
<1>3. pc'[t].at = Ended(t) /\ \A u \in Threads \ {t} : pc'[u] = pc[u]
  BY <1>1, GotoIs, EndedGoes
<1>4. t \in Clients => EndpointLife(m)'
  <2> SUFFICES ASSUME t \in Clients PROVE EndpointLife(m)' OBVIOUS
  <2>1. \A u \in Clients : ~Holds(u, m)'
    BY <1>2, <1>3, OnlyHolder DEF Holds, EndpointCalls, Ended
  <2>2. \A u \in Clients : Holds(u, m) => u = t BY <1>2 DEF EndpointLife
  <2>3. info[m].there /\ (~shutdown /\ m \in nodemap => info[m].started /\ ~info[m].dead)
    BY <1>1, <1>2, <2>2 DEF EndpointLife
  <2>4. info[m].dead /\ ~shutdown => info[m].started BY <1>2 DEF EndpointLife
  <2> HIDE DEF Holds
  <2> QED BY <1>1, <2>1, <2>3, <2>4 DEF EndpointLife
<1>5. t \notin Clients => NodeLife(m)' BY <1>1, <1>2, <1>3 DEF NodeLife, Ended
<1>6. pc'[t].at \notin EndpointCalls BY <1>3 DEF Ended, EndpointCalls
<1>7. Lives' BY <1>1, <1>2, <1>3, <1>4, <1>5, <1>6, OneLife
<1>8. NodeAssertsHold' /\ LiveCountExact' BY <1>1 DEF NodeAssertsHold, LiveCountExact
<1> QED BY <1>7, <1>8

(* A name is registered: an endpoint has nobody else who works on it.      *)
LEMMA RegisterLife ==
  ASSUME LInv, NEW t \in Threads, NEW n \in Nodes, CreateNode(t, n), ~shutdown
  PROVE  Lives' /\ NodeAssertsHold' /\ LiveCountExact'
<1> USE DEF cvars, nvars, kvars, qvars, tvars
<1> DEFINE p == IF n \in External THEN "insert" ELSE "create"
<1>1. /\ TypeOK /\ Lives /\ ~info[n].there /\ Call(t, AtNode(p, n))
      /\ n \in External => t \in Clients
      /\ info' = [info EXCEPT ![n].there = TRUE]
      /\ UNCHANGED <<shutdown, numlivenodes, nodemap, thrown>>
  BY DEF LInv, WInv, IInv, CreateNode
<1>2. AtNode(p, n) \in PC /\ AtNode(p, n).at = p /\ AtNode(p, n).node = n
  BY AtType DEF Places
<1>3. /\ pc[t].at = "idle" /\ pc'[t].at = p /\ pc'[t].node = n
      /\ \A u \in Threads \ {t} : pc'[u] = pc[u]
  BY <1>1, <1>2, CallIs
<1>4. /\ info'[n].there
      /\ \A m \in Nodes : /\ info'[m].started = info[m].started /\ info'[m].dead = info[m].dead
                          /\ m # n => info'[m] = info[m]
  BY <1>1 DEF TypeOK
<1>5. ASSUME NEW m \in Nodes \ External PROVE NodeLife(m)'
  <2>1. m \in Threads /\ NodeLife(m) BY <1>1, ThreadKinds DEF Lives
  <2>2. CASE m # t BY <1>1, <1>3, <1>4, <2>1, <2>2, NodeKept
  <2>3. CASE m = t
    <3>1. p = "create" BY <1>1, <2>3, ThreadKinds
    <3> QED BY <1>1, <1>3, <1>4, <2>1, <2>3, <3>1 DEF NodeLife
  <2> QED BY <2>2, <2>3
<1>6. ASSUME NEW x \in External PROVE EndpointLife(x)'
  <2>1. EndpointLife(x) /\ x \in Nodes BY <1>1, ThreadAssumption DEF Lives
  <2>2. CASE x # n
    <3>1. \A u \in Clients : Holds(u, x) \/ Holds(u, x)' => pc'[u] = pc[u]
      BY <1>3, <2>2, ThreadKinds DEF Holds, EndpointCalls
    <3> QED BY <1>1, <1>4, <2>1, <2>2, <3>1, EndpointKept
  <2>3. CASE x = n
    <3>1. t \in Clients /\ p = "insert" BY <1>1, <2>3
    <3>2. \A u \in Clients : ~Holds(u, x) BY <1>1, <2>1, <2>3 DEF EndpointLife
    <3>3. \A u \in Clients : Holds(u, x)' => u = t
      BY <1>3, <3>2, ThreadKinds DEF Holds
    <3>4. ~info[x].started /\ ~info[x].dead /\ x \notin nodemap
      BY <1>1, <2>1, <2>3 DEF EndpointLife
    <3> HIDE DEF Holds
    <3> QED BY <1>1, <1>3, <1>4, <2>3, <3>1, <3>3, <3>4 DEF EndpointLife
  <2> QED BY <2>2, <2>3
<1>7. \A u \in Clients : pc'[u].at \in EndpointCalls => pc'[u].node \in External
  <2>1. pc'[t].at \in EndpointCalls => pc'[t].node \in External BY <1>3 DEF EndpointCalls
  <2> QED BY <1>1, <1>3, <2>1, ThreadKinds DEF Lives
<1>8. NodeAssertsHold' BY <1>1 DEF LInv, NodeAssertsHold
<1>9. LiveCountExact'
  <2>1. {m \in Nodes : info'[m].started /\ ~info'[m].dead} =
        {m \in Nodes : info[m].started /\ ~info[m].dead}
    BY <1>4
  <2> QED BY <1>1, <2>1 DEF LInv, LiveCountExact
<1> QED BY <1>5, <1>6, <1>7, <1>8, <1>9 DEF Lives

LEMMA DestroyLife ==
  ASSUME LInv, NEW t \in Threads, NEW n \in Nodes, DestroyExternalEndpoint(t, n), ~shutdown
  PROVE  Lives' /\ NodeAssertsHold' /\ LiveCountExact'
<1> USE DEF cvars, nvars, kvars, qvars, tvars
<1>1. /\ TypeOK /\ Lives /\ info[n].there /\ Call(t, AtNode("destroy", n))
      /\ t \in Clients /\ n \in External
      /\ \A u \in Clients \ {t} : ~Holds(u, n)
      /\ UNCHANGED <<shutdown, info, numlivenodes, nodemap, thrown>>
  BY DEF LInv, WInv, IInv, DestroyExternalEndpoint, Holds, EndpointCalls
<1>2. /\ AtNode("destroy", n) \in PC /\ AtNode("destroy", n).at = "destroy"
      /\ AtNode("destroy", n).node = n
  BY AtType DEF Places
<1>3. /\ pc[t].at = "idle" /\ pc'[t].at = "destroy" /\ pc'[t].node = n
      /\ \A u \in Threads \ {t} : pc'[u] = pc[u]
  BY <1>1, <1>2, CallIs
<1>4. ASSUME NEW m \in Nodes \ External PROVE NodeLife(m)'
  <2>1. m \in Threads /\ NodeLife(m) /\ m # t BY <1>1, ThreadKinds DEF Lives
  <2> QED BY <1>1, <1>3, <2>1, NodeKept
<1>5. ASSUME NEW x \in External PROVE EndpointLife(x)'
  <2>1. EndpointLife(x) BY <1>1 DEF Lives
  <2>2. CASE x # n
    <3>1. \A u \in Clients : Holds(u, x) \/ Holds(u, x)' => pc'[u] = pc[u]
      BY <1>3, <2>2, ThreadKinds DEF Holds, EndpointCalls
    <3> QED BY <1>1, <2>1, <3>1, EndpointKept
  <2>3. CASE x = n
    <3>1. \A u \in Clients : ~Holds(u, x) BY <1>1, <1>3, <2>3 DEF Holds, EndpointCalls
    <3>2. \A u \in Clients : Holds(u, x)' => u = t
      BY <1>1, <1>3, <2>3, ThreadKinds DEF Holds
    <3>3. ~shutdown /\ x \in nodemap => info[x].started /\ ~info[x].dead
      BY <2>1, <3>1 DEF EndpointLife
    <3>4. info[x].dead /\ ~shutdown => info[x].started BY <2>1 DEF EndpointLife
    <3> HIDE DEF Holds
    <3> QED BY <1>1, <1>3, <2>3, <3>2, <3>3, <3>4 DEF EndpointLife
  <2> QED BY <2>2, <2>3
<1>6. \A u \in Clients : pc'[u].at \in EndpointCalls => pc'[u].node \in External
  BY <1>1, <1>3, ThreadKinds DEF Lives
<1>7. NodeAssertsHold' /\ LiveCountExact' BY <1>1 DEF LInv, NodeAssertsHold, LiveCountExact
<1> QED BY <1>4, <1>5, <1>6, <1>7 DEF Lives

---------------------------------------------------------------------------
(* Every step keeps the life of all nodes.                                 *)

(* A step of t inside a call that starts and ends no node: it goes on, or  *)
(* throws something harmless, or stays.                                    *)
LEMMA CallLife ==
  ASSUME LInv, NEW t \in Threads, UNCHANGED <<info, nodemap, numlivenodes>>, shutdown => shutdown',
         pc[t].at \notin EndpointCalls \cup {"unborn", "exited", "aborted"},
         NEW p \in Places \ (EndpointCalls \cup {"unborn", "exited"}), NEW e,
         e \notin {NotInMap, NeverBegan},
         \/ (Goto(t, p) \/ UNCHANGED pc) /\ UNCHANGED thrown
         \/ Throw(t, e)
  PROVE  Lives' /\ NodeAssertsHold' /\ LiveCountExact'
<1>1. TypeOK /\ Lives /\ NodeAssertsHold /\ LiveCountExact BY DEF LInv, WInv, IInv
<1>2. Neutral(t)
  <2>1. CASE Goto(t, p)
    <3>1. pc'[t].at = p /\ \A u \in Threads \ {t} : pc'[u] = pc[u] BY <1>1, <2>1, GotoIs
    <3> QED BY <3>1 DEF Neutral, EndpointCalls
  <2>2. CASE UNCHANGED pc BY <2>2 DEF Neutral, EndpointCalls
  <2>3. CASE Throw(t, e)
    <3>1. /\ \A u \in Threads \ {t} : pc'[u] = pc[u]
          /\ t \in Clients => pc'[t].at = "idle"
          /\ t \notin Clients => pc'[t].at \in {"ending", "aborted"}
      BY <1>1, <2>3, ThrowIs
    <3> QED BY <3>1 DEF Neutral, EndpointCalls
  <2> QED BY <2>1, <2>2, <2>3
<1>3. NodeAssertsHold' BY <1>1, AssertsKept
<1> QED BY <1>1, <1>2, <1>3, NeutralKeeps

LEMMA InsideLife ==
  ASSUME LInv, NEW t \in Threads, Inside(t)
  PROVE  Lives' /\ NodeAssertsHold' /\ LiveCountExact'
<1> USE DEF cvars, nvars, kvars, qvars, tvars
<1> DEFINE Goal == Lives' /\ NodeAssertsHold' /\ LiveCountExact'
           Stays == UNCHANGED <<info, nodemap, numlivenodes, shutdown>>
           From == {"create", "readerStart", "writerStart", "connect", "lookup", "attachWriter",
                    "attachReader", "release", "get", "blocked", "waitStart", "waitEnd",
                    "waitAll", "notify", "wakeup"}
           To == {"idle", "writerStart", "connect", "lookup", "attachWriter", "attachReader",
                  "release", "wakeup"}
           Harmless == {"Shutdown", "BrokenQueue", NotRunning, NoSuchNode}
<1>p. /\ From \cap (EndpointCalls \cup {"unborn", "exited", "aborted"}) = {}
      /\ To \subseteq Places \ (EndpointCalls \cup {"unborn", "exited"}) /\ "idle" \in To
  BY DEF Places, EndpointCalls
<1>e. Harmless \cap {NotInMap, NeverBegan} = {} /\ "Shutdown" \in Harmless
  BY DEF NotInMap, NeverBegan, NotRunning, NoSuchNode
<1>g. ASSUME Stays, pc[t].at \in From, NEW p \in To, Goto(t, p), UNCHANGED thrown PROVE Goal
  <2> HIDE DEF From, To, Harmless
  <2> QED BY <1>g, <1>p, <1>e, CallLife
<1>h. ASSUME Stays, pc[t].at \in From, NEW e \in Harmless, Throw(t, e) PROVE Goal
  <2> HIDE DEF From, To, Harmless
  <2> QED BY <1>h, <1>p, <1>e, CallLife
<1>s. ASSUME Stays, pc[t].at \in From, UNCHANGED <<pc, thrown>> PROVE Goal
  <2> HIDE DEF From, To, Harmless
  <2> QED BY <1>s, <1>p, <1>e, CallLife
<1>1. CASE InternalCreateNode(t)
  <2>1. CASE status = "RUNNING" BY <1>1, <2>1, CreateLife
  <2>2. CASE status # "RUNNING" BY <1>1, <1>g, <1>h, <1>s, <2>2 DEF InternalCreateNode
  <2> QED BY <2>1, <2>2
<1>2. CASE InsertEndpoint(t) BY <1>2, InsertLife
<1>3. CASE SignalNodeStart(t) BY <1>3, StartLife
<1>4. CASE FindEndpoint(t) BY <1>4, FindLife
<1>5. CASE SignalNodeEnd(t) BY <1>5, EndLife
<1>6. CASE EraseNode(t) BY <1>6, EraseLife
<1>7. CASE BuryNode(t) BY <1>7, BuryLife
<1>w. ASSUME NEW n, NEW p \in To, pc[t].at \in From,
             WaitForNodeStart(t, n, p)
      PROVE  Goal
  BY <1>g, <1>h, <1>s, <1>w DEF WaitForNodeStart
<1>8. CASE ReaderStart(t) BY <1>8, <1>w DEF ReaderStart
<1>9. CASE WriterStart(t) BY <1>9, <1>w DEF WriterStart
<1>10. CASE WaitStart(t) BY <1>10, <1>w DEF WaitStart
<1>11. CASE ConnectEndpoints(t) BY <1>11, <1>g, <1>h, <1>s DEF ConnectEndpoints
<1>12. CASE LookupNodes(t) BY <1>12, <1>g, <1>h, <1>s DEF LookupNodes
<1>13. CASE AttachWriter(t) BY <1>13, <1>g, <1>h, <1>s DEF AttachWriter, Attach
<1>14. CASE AttachReader(t) BY <1>14, <1>g, <1>h, <1>s DEF AttachReader, Attach
<1>15. CASE ReleaseNodes(t) BY <1>15, <1>g, <1>h, <1>s DEF ReleaseNodes
<1>16. CASE GetEnd(t) BY <1>16, <1>g, <1>h, <1>s DEF GetEnd
<1>17. CASE Unblock(t) BY <1>17, <1>g, <1>h, <1>s DEF Unblock
(* The ASSERT of WaitForNodeEnd: a node that is dead had started.          *)
<1>18. CASE WaitForNodeEnd(t)
  <2>1. pc[t].at = "waitEnd" /\ UNCHANGED <<info, nodemap, numlivenodes, shutdown>>
    BY <1>18 DEF WaitForNodeEnd
  <2>2. pc[t].node \in Nodes BY <2>1 DEF LInv, WInv, IInv, CallsKnow, Knows, NodeCalls
  <2>3. WaitOver(pc[t].node) => info[pc[t].node].started
    <3> SUFFICES ASSUME WaitOver(pc[t].node) PROVE info[pc[t].node].started OBVIOUS
    <3>1. ~shutdown /\ info[pc[t].node].dead BY DEF WaitOver
    <3>2. CASE pc[t].node \in External
      <4>1. EndpointLife(pc[t].node) BY <3>2 DEF LInv, Lives
      <4> QED BY <3>1, <4>1 DEF EndpointLife
    <3>3. CASE pc[t].node \notin External
      <4>1. NodeLife(pc[t].node) BY <2>2, <3>3 DEF LInv, Lives
      <4> QED BY <3>1, <4>1 DEF NodeLife
    <3> QED BY <3>2, <3>3
  <2>4. (Goto(t, "idle") \/ UNCHANGED pc) /\ UNCHANGED thrown
    BY <1>18, <2>3 DEF WaitForNodeEnd
  <2> QED BY <1>g, <1>h, <1>s, <2>1, <2>4
<1>19. CASE WaitForAllNodeEnd(t) BY <1>19, <1>g, <1>h, <1>s DEF WaitForAllNodeEnd
<1>20. CASE NotifyKernel(t) BY <1>20, <1>g, <1>h, <1>s DEF NotifyKernel
<1>21. CASE SendWakeup(t) BY <1>21, <1>g, <1>h, <1>s DEF SendWakeup
<1> QED
  BY <1>1, <1>2, <1>3, <1>4, <1>5, <1>6, <1>7, <1>8, <1>9, <1>10, <1>11, <1>12, <1>13,
     <1>14, <1>15, <1>16, <1>17, <1>18, <1>19, <1>20, <1>21 DEF Inside

LEMMA OutsideLife ==
  ASSUME LInv, NEW t \in Threads,
         \/ Outside(t)
         \/ \E q \in Queues, d \in Side : GetQueue(t, q, d) \/ Block(t, q, d)
         \/ Finish(t)
  PROVE  Lives' /\ NodeAssertsHold' /\ LiveCountExact'
<1> USE DEF cvars, nvars, kvars, qvars, tvars
<1> DEFINE Goal == Lives' /\ NodeAssertsHold' /\ LiveCountExact'
<1>0. TypeOK /\ Lives /\ NodeAssertsHold /\ LiveCountExact BY DEF LInv, WInv, IInv
<1>p. {"idle", "notify"} \subseteq Places \ (EndpointCalls \cup {"unborn", "exited"})
  BY DEF Places, EndpointCalls
<1>e. {"Shutdown", "BrokenQueue"} \cap {NotInMap, NeverBegan} = {}
  BY DEF NotInMap, NeverBegan
<1>k. ASSUME NEW u \in Threads, UNCHANGED <<info, nodemap, numlivenodes>>, shutdown => shutdown',
             pc[u].at \in {"idle", "blocked"},
             NEW p \in Places \ (EndpointCalls \cup {"unborn", "exited"}), NEW e,
             e \in {"Shutdown", "BrokenQueue"},
             (Goto(u, p) /\ UNCHANGED thrown) \/ Throw(u, e)
      PROVE  Goal
  BY <1>e, <1>k, CallLife DEF EndpointCalls
<1>c. ASSUME UNCHANGED <<info, nodemap, numlivenodes, shutdown, thrown>>, NEW r \in PC, Call(t, r),
             r.at \in {"waitStart", "waitEnd", "waitAll", "readerStart", "get", "blocked"}
      PROVE  Goal
  <2>1. Neutral(t) BY <1>0, <1>c, CallIs DEF Neutral, EndpointCalls
  <2>2. NodeAssertsHold' BY <1>0, <1>c, AssertsKept
  <2> QED BY <1>0, <2>1, <2>2, NeutralKeeps
<1> HIDE DEF Goal
<1>q. {"waitStart", "waitEnd", "waitAll", "readerStart", "get", "blocked"} \subseteq Places
  BY DEF Places
<1>1. ASSUME NEW n \in Nodes, CreateNode(t, n) PROVE Goal
  <2>1. CASE shutdown BY <1>1, <1>k, <1>p, <2>1 DEF CreateNode
  <2>2. CASE ~shutdown BY <1>1, <2>2, RegisterLife DEF Goal
  <2> QED BY <2>1, <2>2
<1>2. ASSUME NEW n \in Nodes, DestroyExternalEndpoint(t, n) PROVE Goal
  <2>1. CASE shutdown BY <1>2, <1>k, <1>p, <2>1 DEF DestroyExternalEndpoint
  <2>2. CASE ~shutdown BY <1>2, <2>2, DestroyLife DEF Goal
  <2> QED BY <2>1, <2>2
<1>3. ASSUME NEW p \in {"waitStart", "waitEnd", "waitAll"}, NEW n \in Nodes \cup {None}, Wait(t, p, n)
      PROVE  Goal
  <2>1. AtNode(p, n) \in PC /\ AtNode(p, n).at = p BY <1>q, AtType
  <2> QED BY <1>3, <1>c, <2>1 DEF Wait
<1>4. ASSUME Terminate(t) PROVE Goal BY <1>4, <1>k, <1>p DEF Terminate
<1>5. ASSUME NEW q \in Queues, CreateQueue(t, q) PROVE Goal
  <2>1. AtQueue("readerStart", q, "read") \in PC /\ AtQueue("readerStart", q, "read").at = "readerStart"
    BY <1>q, AtType DEF Side
  <2> QED BY <1>5, <1>c, <2>1 DEF CreateQueue
<1>6. ASSUME NEW q \in Queues, NEW d \in Side, Transfer(t, q, d) PROVE Goal
  <2>1. PICK u \in Threads : pc[u].at = "blocked" /\ Goto(u, "idle")
    BY <1>6 DEF Transfer, QueueWaiters
  <2> QED BY <1>6, <1>k, <1>p, <2>1 DEF Transfer
<1>7. ASSUME NEW q \in Queues, NEW d \in Side, GetQueue(t, q, d) PROVE Goal
  <2>1. CASE shutdown BY <1>7, <1>k, <1>p, <2>1 DEF GetQueue
  <2>2. CASE ~shutdown
    <3>1. AtQueue("get", q, d) \in PC /\ AtQueue("get", q, d).at = "get" BY <1>q, AtType
    <3> QED BY <1>7, <1>c, <2>2, <3>1 DEF GetQueue
  <2> QED BY <2>1, <2>2
<1>8. ASSUME NEW q \in Queues, NEW d \in Side, Block(t, q, d) PROVE Goal
  <2>1. CASE Throw(t, "Shutdown") \/ Throw(t, "BrokenQueue")
    BY <1>8, <1>k, <1>p, <2>1 DEF Block
  <2>2. CASE Call(t, AtQueue("blocked", q, d)) /\ UNCHANGED thrown
    <3>1. AtQueue("blocked", q, d) \in PC /\ AtQueue("blocked", q, d).at = "blocked" BY <1>q, AtType
    <3> QED BY <1>8, <1>c, <2>2, <3>1 DEF Block
  <2> QED BY <1>8, <2>1, <2>2 DEF Block
<1>9. ASSUME Finish(t) PROVE Goal
  <2>1. /\ t \in Nodes \ External /\ pc[t].at = "idle" /\ Goto(t, "ending")
        /\ UNCHANGED <<info, nodemap, numlivenodes, shutdown, thrown>>
    BY <1>9 DEF Finish
  <2>2. pc'[t].at = "ending" /\ \A u \in Threads \ {t} : pc'[u] = pc[u]
    BY <1>0, <2>1, GotoIs DEF Places
  <2>3. Neutral(t) BY <2>1, <2>2, ThreadKinds DEF Neutral
  <2>4. NodeAssertsHold' BY <1>0, <2>1, AssertsKept
  <2> QED BY <1>0, <2>3, <2>4, NeutralKeeps DEF Goal
<1>b. ASSUME NEW n \in Nodes \cup {None}
      PROVE  \A p \in {"waitStart", "waitEnd", "waitAll"} : Wait(t, p, n) => Goal
  BY <1>3
<1>d. Goal BY <1>1, <1>2, <1>b, <1>4, <1>5, <1>6, <1>7, <1>8, <1>9 DEF Outside
<1> QED BY <1>d DEF Goal

LEMMA KernelThreadLife ==
  ASSUME LInv, KernelThread
  PROVE  Lives' /\ NodeAssertsHold' /\ LiveCountExact'
<1> USE DEF cvars, nvars, kvars, qvars, tvars
<1>1. UNCHANGED <<pc, shutdown, info, numlivenodes, nodemap, thrown>>
  BY DEF KernelThread, KernelBegin, SignalKernelStart, RunLoop, Woken, LockGarbage, CollectNode,
         UnlockGarbage, CopyNodeMap, NotifyNode, Notified, DrainLoop, LoopTurn, LastGarbage,
         SignalKernelEnd, PostDone, KSame
<1>2. Lives'
  <2>1. ASSUME NEW n \in Nodes \ External PROVE NodeLife(n)'
    BY <1>1, NodeKept DEF LInv, Lives
  <2>2. ASSUME NEW x \in External PROVE EndpointLife(x)'
    BY <1>1, EndpointKept DEF LInv, Lives
  <2> QED BY <1>1, <2>1, <2>2 DEF LInv, Lives
<1> QED BY <1>1, <1>2 DEF LInv, NodeAssertsHold, LiveCountExact

---------------------------------------------------------------------------
(* After Terminate.                                                        *)

(* What a step inside a call may do to what the end of the kernel looks at.*)
LEMMA InsideMoves ==
  ASSUME TypeOK, CallsKnow, Newborn, NEW t \in Threads, Inside(t)
  PROVE  /\ UNCHANGED <<shutdown, kpc, kret>>
         /\ \A u \in Threads :
              /\ pc'[u].at \in {"notify", "create", "insert"} => pc'[u] = pc[u]
              /\ pc'[u].at = "bury" => pc'[u] = pc[u] \/ pc[u].at = "erase"
         /\ nodemap' \subseteq nodemap \/ pc[t].at \in {"create", "insert"}
         /\ garbagenodes' = garbagenodes \/ pc[t].at = "bury"
         /\ status' = status \/ (pc[t].at = "notify" /\ status' = "TERMINATE")
<1> USE DEF cvars, nvars, kvars, qvars, tvars
<1> DEFINE Goal == \A u \in Threads :
                     /\ pc'[u].at \in {"notify", "create", "insert"} => pc'[u] = pc[u]
                     /\ pc'[u].at = "bury" => pc'[u] = pc[u] \/ pc[u].at = "erase"
           To == {"idle", "begin", "ending", "erase", "exited", "writerStart", "connect",
                  "lookup", "attachWriter", "attachReader", "release", "wakeup"}
<1>r. /\ UNCHANGED <<shutdown, kpc, kret>>
      /\ nodemap' \subseteq nodemap \/ pc[t].at \in {"create", "insert"}
      /\ garbagenodes' = garbagenodes \/ pc[t].at = "bury"
      /\ status' = status \/ (pc[t].at = "notify" /\ status' = "TERMINATE")
  BY DEF Inside, InternalCreateNode, InsertEndpoint, SignalNodeStart, FindEndpoint, SignalNodeEnd,
         EraseNode, BuryNode, ReaderStart, WriterStart, WaitForNodeStart, ConnectEndpoints,
         LookupNodes, AttachWriter, AttachReader, Attach, ReleaseNodes, GetEnd, Unblock, WaitStart,
         WaitForNodeEnd, WaitForAllNodeEnd, NotifyKernel, SendWakeup
<1> SUFFICES Goal BY <1>r
<1>g. ASSUME NEW p \in To, Goto(t, p) PROVE Goal
  <2>1. p \in Places \ {"notify", "create", "insert", "bury"} BY DEF Places
  <2> HIDE DEF To
  <2>2. pc'[t].at = p /\ \A u \in Threads \ {t} : pc'[u] = pc[u] BY <1>g, <2>1, GotoIs
  <2> QED BY <2>1, <2>2
<1>h. ASSUME NEW e, Throw(t, e) PROVE Goal BY <1>h, ThrowIs
<1>s. ASSUME UNCHANGED pc PROVE Goal BY <1>s
<1>1. CASE InternalCreateNode(t)
  <2>1. CASE status # "RUNNING" BY <1>1, <1>h, <2>1 DEF InternalCreateNode
  <2>2. CASE status = "RUNNING"
    <3>1. pc' = [pc EXCEPT ![t] = At("idle"), ![pc[t].node] = At("begin")]
      BY <1>1, <2>2 DEF InternalCreateNode
    <3>2. At("idle").at = "idle" /\ At("begin").at = "begin" BY AtType DEF Places
    <3> QED BY <3>1, <3>2 DEF TypeOK
  <2> QED BY <2>1, <2>2
<1>2. CASE InsertEndpoint(t) BY <1>2, <1>g DEF InsertEndpoint
<1>3. CASE SignalNodeStart(t) BY <1>3, <1>g, <1>h DEF SignalNodeStart
<1>4. CASE FindEndpoint(t) BY <1>4, <1>g DEF FindEndpoint
<1>5. CASE SignalNodeEnd(t) BY <1>5, <1>g DEF SignalNodeEnd
<1>6. CASE EraseNode(t)
  <2>1. CASE Goto(t, "bury")
    <3>1. "bury" \in Places /\ pc[t].at = "erase" BY <1>6 DEF Places, EraseNode
    <3> QED BY <2>1, <3>1, GotoIs
  <2> QED BY <1>6, <1>g, <1>h, <2>1 DEF EraseNode, Ended
<1>7. CASE BuryNode(t) BY <1>7, <1>g DEF BuryNode, Ended
<1>w. ASSUME NEW n, NEW p \in To, WaitForNodeStart(t, n, p) PROVE Goal
  BY <1>w, <1>g, <1>h, <1>s DEF WaitForNodeStart
<1>8. CASE ReaderStart(t) BY <1>8, <1>w DEF ReaderStart
<1>9. CASE WriterStart(t) BY <1>9, <1>w DEF WriterStart
<1>10. CASE WaitStart(t) BY <1>10, <1>w DEF WaitStart
<1>11. CASE ConnectEndpoints(t) BY <1>11, <1>g, <1>h DEF ConnectEndpoints
<1>12. CASE LookupNodes(t) BY <1>12, <1>g, <1>h DEF LookupNodes
<1>13. CASE AttachWriter(t) BY <1>13, <1>g DEF AttachWriter, Attach
<1>14. CASE AttachReader(t) BY <1>14, <1>g DEF AttachReader, Attach
<1>15. CASE ReleaseNodes(t) BY <1>15, <1>g DEF ReleaseNodes
<1>16. CASE GetEnd(t) BY <1>16, <1>g, <1>h, <1>s DEF GetEnd
<1>17. CASE Unblock(t) BY <1>17, <1>g, <1>h, <1>s DEF Unblock
<1>18. CASE WaitForNodeEnd(t) BY <1>18, <1>g, <1>h, <1>s DEF WaitForNodeEnd
<1>19. CASE WaitForAllNodeEnd(t) BY <1>19, <1>g, <1>s DEF WaitForAllNodeEnd
<1>20. CASE NotifyKernel(t) BY <1>20, <1>g DEF NotifyKernel
<1>21. CASE SendWakeup(t) BY <1>21, <1>g DEF SendWakeup
<1> QED
  BY <1>1, <1>2, <1>3, <1>4, <1>5, <1>6, <1>7, <1>8, <1>9, <1>10, <1>11, <1>12, <1>13,
     <1>14, <1>15, <1>16, <1>17, <1>18, <1>19, <1>20, <1>21 DEF Inside

(* The same for a new call.                                                *)
LEMMA OutsideMoves ==
  ASSUME TypeOK, NEW t \in Threads,
         \/ Outside(t)
         \/ \E q \in Queues, d \in Side : GetQueue(t, q, d) \/ Block(t, q, d)
         \/ Finish(t)
  PROVE  /\ UNCHANGED <<status, nodemap, garbagenodes, shut, end, kpc, kret>>
         /\ \A u \in Threads : pc'[u] # pc[u] => pc[u].at \in {"idle", "blocked"}
         /\ \A u \in Threads : pc'[u].at = "bury" => pc'[u] = pc[u]
         /\ \A u \in Threads : pc'[u].at \in {"create", "insert"} => pc'[u] = pc[u] \/ (u = t /\ ~shutdown)
         /\ shutdown' = shutdown \/ (t \in Clients /\ shutdown' /\ pc'[t].at = "notify")
         /\ \A u \in Threads : pc'[u].at = "notify" => shutdown' \/ pc'[u] = pc[u]
<1> USE DEF cvars, nvars, kvars, qvars, tvars
<1> DEFINE Goal ==
      /\ \A u \in Threads : pc'[u] # pc[u] => pc[u].at \in {"idle", "blocked"}
      /\ \A u \in Threads : pc'[u].at = "bury" => pc'[u] = pc[u]
      /\ \A u \in Threads : pc'[u].at \in {"create", "insert"} => pc'[u] = pc[u] \/ (u = t /\ ~shutdown)
      /\ shutdown' = shutdown \/ (t \in Clients /\ shutdown' /\ pc'[t].at = "notify")
      /\ \A u \in Threads : pc'[u].at = "notify" => shutdown' \/ pc'[u] = pc[u]
<1>r. UNCHANGED <<status, nodemap, garbagenodes, shut, end, kpc, kret>>
  BY DEF Outside, CreateNode, DestroyExternalEndpoint, Wait, Terminate, CreateQueue, Transfer,
         GetQueue, Block, Finish
<1> SUFFICES Goal BY <1>r
<1>g. ASSUME NEW u \in Threads, pc[u].at \in {"idle", "blocked"}, NEW p \in {"idle", "ending"},
             Goto(u, p), UNCHANGED shutdown
      PROVE  Goal
  <2>1. p \in Places BY DEF Places
  <2>2. pc'[u].at = p /\ \A v \in Threads \ {u} : pc'[v] = pc[v] BY <1>g, <2>1, GotoIs
  <2> QED BY <1>g, <2>2
<1>h. ASSUME pc[t].at = "idle", NEW e, Throw(t, e), UNCHANGED shutdown PROVE Goal
  BY <1>h, ThrowIs
<1>c. ASSUME NEW r \in PC, Call(t, r), UNCHANGED shutdown, r.at \notin {"bury", "notify"},
             r.at \in {"create", "insert"} => ~shutdown
      PROVE  Goal
  BY <1>c, CallIs
<1> HIDE DEF Goal
<1>q. {"waitStart", "waitEnd", "waitAll", "readerStart", "get", "blocked", "destroy", "create",
       "insert", "notify"} \subseteq Places
  BY DEF Places
<1>1. ASSUME NEW n \in Nodes, CreateNode(t, n) PROVE Goal
  <2>1. CASE shutdown BY <1>1, <1>h, <2>1 DEF CreateNode
  <2>2. CASE ~shutdown
    <3> DEFINE p == IF n \in External THEN "insert" ELSE "create"
    <3>1. Call(t, AtNode(p, n)) /\ UNCHANGED shutdown BY <1>1, <2>2 DEF CreateNode
    <3>2. AtNode(p, n) \in PC /\ AtNode(p, n).at = p BY <1>q, AtType
    <3> QED BY <1>c, <2>2, <3>1, <3>2
  <2> QED BY <2>1, <2>2
<1>2. ASSUME NEW n \in Nodes, DestroyExternalEndpoint(t, n) PROVE Goal
  <2>1. CASE shutdown BY <1>2, <1>h, <2>1 DEF DestroyExternalEndpoint
  <2>2. CASE ~shutdown
    <3>1. AtNode("destroy", n) \in PC /\ AtNode("destroy", n).at = "destroy" BY <1>q, AtType
    <3> QED BY <1>2, <1>c, <2>2, <3>1 DEF DestroyExternalEndpoint
  <2> QED BY <2>1, <2>2
<1>3. ASSUME NEW p \in {"waitStart", "waitEnd", "waitAll"}, NEW n \in Nodes \cup {None}, Wait(t, p, n)
      PROVE  Goal
  <2>1. AtNode(p, n) \in PC /\ AtNode(p, n).at = p BY <1>q, AtType
  <2> QED BY <1>3, <1>c, <2>1 DEF Wait
<1>4. ASSUME Terminate(t) PROVE Goal
  <2>1. t \in Clients /\ pc[t].at = "idle" /\ shutdown' = TRUE /\ Goto(t, "notify")
    BY <1>4 DEF Terminate
  <2>2. pc'[t].at = "notify" /\ \A v \in Threads \ {t} : pc'[v] = pc[v] BY <1>q, <2>1, GotoIs
  <2> QED BY <2>1, <2>2 DEF Goal
<1>5. ASSUME NEW q \in Queues, CreateQueue(t, q) PROVE Goal
  <2>1. AtQueue("readerStart", q, "read") \in PC /\ AtQueue("readerStart", q, "read").at = "readerStart"
    BY <1>q, AtType DEF Side
  <2> QED BY <1>5, <1>c, <2>1 DEF CreateQueue
<1>6. ASSUME NEW q \in Queues, NEW d \in Side, Transfer(t, q, d) PROVE Goal
  <2>1. PICK u \in Threads : pc[u].at = "blocked" /\ Goto(u, "idle")
    BY <1>6 DEF Transfer, QueueWaiters
  <2> QED BY <1>6, <1>g, <2>1 DEF Transfer
<1>7. ASSUME NEW q \in Queues, NEW d \in Side, GetQueue(t, q, d) PROVE Goal
  <2>1. CASE shutdown BY <1>7, <1>h, <2>1 DEF GetQueue
  <2>2. CASE ~shutdown
    <3>1. AtQueue("get", q, d) \in PC /\ AtQueue("get", q, d).at = "get" BY <1>q, AtType
    <3> QED BY <1>7, <1>c, <2>2, <3>1 DEF GetQueue
  <2> QED BY <2>1, <2>2
<1>8. ASSUME NEW q \in Queues, NEW d \in Side, Block(t, q, d) PROVE Goal
  <2>1. CASE Throw(t, "Shutdown") \/ Throw(t, "BrokenQueue") BY <1>8, <1>h, <2>1 DEF Block
  <2>2. CASE Call(t, AtQueue("blocked", q, d))
    <3>1. AtQueue("blocked", q, d) \in PC /\ AtQueue("blocked", q, d).at = "blocked" BY <1>q, AtType
    <3> QED BY <1>8, <1>c, <2>2, <3>1 DEF Block
  <2> QED BY <1>8, <2>1, <2>2 DEF Block
<1>9. ASSUME Finish(t) PROVE Goal BY <1>9, <1>g DEF Finish
<1>b. ASSUME NEW n \in Nodes \cup {None}
      PROVE  \A p \in {"waitStart", "waitEnd", "waitAll"} : Wait(t, p, n) => Goal
  BY <1>3
<1> QED BY <1>1, <1>2, <1>b, <1>4, <1>5, <1>6, <1>7, <1>8, <1>9 DEF Outside

(* What the kernel thread leaves alone.                                    *)
LEMMA KernelThreadLeaves ==
  ASSUME KernelThread
  PROVE  UNCHANGED <<pc, shutdown, nodemap, info, numlivenodes, thrown>>
BY DEF KernelThread, KernelBegin, SignalKernelStart, RunLoop, Woken, LockGarbage, CollectNode,
       UnlockGarbage, CopyNodeMap, NotifyNode, Notified, DrainLoop, LoopTurn, LastGarbage,
       SignalKernelEnd, PostDone, KSame, cvars, nvars, kvars, qvars, tvars

LEMMA KernelThreadPast ==
  ASSUME TypeOK, PastLoop, KernelThread
  PROVE  PastLoop'
<1> USE DEF cvars, nvars, kvars, qvars, tvars
<1>0. UNCHANGED <<pc, shutdown>> BY KernelThreadLeaves
<1>s. status \in Status BY DEF TypeOK
<1>1. CASE KernelBegin BY <1>0, <1>1, <1>s DEF KernelBegin, KGoto, PastLoop, Status
<1>2. CASE SignalKernelStart
  BY <1>0, <1>2 DEF SignalKernelStart, StartThrows, KGoto, ClearGarbage, PastLoop
<1>3. CASE RunLoop
  BY <1>0, <1>3, <1>s DEF RunLoop, LoopTurn, KGoto, ClearGarbage, PastLoop, Status
<1>4. CASE Woken BY <1>0, <1>4 DEF Woken, ClearGarbage, PastLoop
<1>5. CASE LockGarbage BY <1>0, <1>5 DEF LockGarbage, KGoto, PastLoop
<1>6. CASE CollectNode BY <1>0, <1>6 DEF CollectNode, PastLoop
<1>7. CASE UnlockGarbage
  <2>1. kret \in {"loop", "drain", "end"} BY DEF TypeOK
  <2> QED BY <1>0, <1>7, <2>1 DEF UnlockGarbage, KGoto, PastLoop
<1>8. CASE CopyNodeMap BY <1>0, <1>8 DEF CopyNodeMap, KGoto, PastLoop
<1>9. ASSUME NEW n \in Nodes, NotifyNode(n) PROVE PastLoop'
  BY <1>0, <1>9 DEF NotifyNode, PastLoop
<1>10. CASE Notified BY <1>0, <1>10 DEF Notified, ClearGarbage, PastLoop
<1>11. CASE DrainLoop BY <1>0, <1>11 DEF DrainLoop, LoopTurn, KGoto, ClearGarbage, PastLoop
<1>12. CASE LastGarbage BY <1>0, <1>12 DEF LastGarbage, ClearGarbage, PastLoop
<1>13. CASE SignalKernelEnd BY <1>0, <1>13 DEF SignalKernelEnd, KGoto, PastLoop
<1>14. CASE PostDone BY <1>0, <1>14 DEF PostDone, KGoto, PastLoop
<1> QED
  BY <1>1, <1>2, <1>3, <1>4, <1>5, <1>6, <1>7, <1>8, <1>9, <1>10, <1>11, <1>12, <1>13,
     <1>14 DEF KernelThread

LEMMA InitLife == Init => LInv
<1> SUFFICES ASSUME Init PROVE LInv OBVIOUS
<1>1. WInv BY InitSleep
<1>2. \A p \in {"idle", "unborn"} : At(p).at = p BY AtType DEF Places
<1>3. /\ \A t \in Clients : pc[t].at = "idle"
      /\ \A n \in Nodes \ External : pc[n].at = "unborn"
  BY <1>2, ThreadKinds DEF Init
<1>4. \A n \in Nodes : ~info[n].there /\ ~info[n].started /\ ~info[n].dead BY DEF Init
<1>5. Lives
  <2>1. \A t \in Clients, x \in External : ~Holds(t, x) BY <1>3 DEF Holds, EndpointCalls
  <2>2. \A x \in External : EndpointLife(x)
    BY <1>4, <2>1, ThreadAssumption DEF EndpointLife, Init
  <2>3. \A n \in Nodes \ External : NodeLife(n) BY <1>3, <1>4 DEF NodeLife, Init
  <2> QED BY <1>3, <2>2, <2>3 DEF Lives, EndpointCalls
<1>6. PastLoop
  <2>1. \A t \in Threads : pc[t].at # "notify" BY <1>3, ThreadKinds
  <2> QED BY <2>1 DEF PastLoop, Init
<1>7. NodeAssertsHold
  <2>1. None \notin {NotInMap, NeverBegan} BY NoneAssumption DEF Asserts
  <2> QED BY <2>1 DEF Init, NodeAssertsHold
<1>8. LiveCountExact
  <2>1. {n \in Nodes : info[n].started /\ ~info[n].dead} = {} BY <1>4
  <2> QED BY <2>1, FS_EmptySet DEF LiveCountExact, Init
<1> QED BY <1>1, <1>5, <1>6, <1>7, <1>8 DEF LInv

LEMMA StepLife == LInv /\ [Next]_vars => LInv'
<1> SUFFICES ASSUME LInv, [Next]_vars PROVE LInv' OBVIOUS
<1>0. TypeOK /\ CallsKnow /\ Newborn /\ PastLoop BY DEF LInv, WInv, IInv
<1>w. WInv' BY StepSleep DEF LInv
<1> SUFFICES (Lives' /\ NodeAssertsHold' /\ LiveCountExact') /\ PastLoop' BY <1>w DEF LInv
<1>1. CASE KernelThread BY <1>0, <1>1, KernelThreadLife, KernelThreadPast
<1>2. ASSUME NEW t \in Threads, Inside(t)
      PROVE  (Lives' /\ NodeAssertsHold' /\ LiveCountExact') /\ PastLoop'
  <2>1. PastLoop' BY <1>0, <1>2, InsideMoves DEF PastLoop
  <2> QED BY <1>2, <2>1, InsideLife
<1>o. ASSUME NEW t \in Threads,
             \/ Outside(t)
             \/ \E q \in Queues, d \in Side : GetQueue(t, q, d) \/ Block(t, q, d)
             \/ Finish(t)
      PROVE  (Lives' /\ NodeAssertsHold' /\ LiveCountExact') /\ PastLoop'
  <2>1. /\ UNCHANGED <<status, kpc, kret>> /\ (shutdown => shutdown')
        /\ \A u \in Threads : pc'[u].at = "notify" => shutdown' \/ pc'[u] = pc[u]
    BY <1>0, <1>o, OutsideMoves
  <2>2. PastLoop' BY <1>0, <2>1 DEF PastLoop
  <2> QED BY <1>o, <2>2, OutsideLife
<1>3. ASSUME NEW n \in Nodes \ External, ProcessStep(n)
      PROVE  (Lives' /\ NodeAssertsHold' /\ LiveCountExact') /\ PastLoop'
  <2>1. n \in Threads BY DEF Threads
  <2>2. Finish(n) \/ \E q \in Queues, d \in Side : GetQueue(n, q, d) \/ Block(n, q, d)
    BY <1>3 DEF ProcessStep
  <2> QED BY <1>o, <2>1, <2>2
<1>4. CASE UNCHANGED vars
  <2> USE <1>4 DEF vars, cvars, nvars, kvars, qvars, tvars
  <2>1. ASSUME NEW n \in Nodes \ External PROVE NodeLife(n)' BY NodeKept DEF LInv, Lives
  <2>2. ASSUME NEW x \in External PROVE EndpointLife(x)' BY EndpointKept DEF LInv, Lives
  <2>3. Lives' BY <2>1, <2>2 DEF LInv, Lives
  <2>4. PastLoop' BY <1>0 DEF PastLoop
  <2> QED BY <2>3, <2>4 DEF LInv, NodeAssertsHold, LiveCountExact
<1> QED BY <1>1, <1>2, <1>o, <1>3, <1>4 DEF Next

(* The inductive invariant of the life cycle: what the context, nodemap    *)
(* and the calls under way say of every node, by where its thread is or    *)
(* which client works on it.                                               *)
THEOREM LifeInvariance == Spec => []LInv
BY InitLife, StepLife, PTL DEF Spec

(* The ASSERTs of Kernel::NodeTerminated (the node is in nodemap) and of   *)
(* LocalContext::WaitForNodeEnd (a dead node had started) hold, however    *)
(* the starts and ends of nodes, the calls of any number of clients and    *)
(* Terminate interleave.                                                   *)
THEOREM NodeAsserts == Spec => []NodeAssertsHold
<1>1. LInv => NodeAssertsHold BY DEF LInv
<1> QED BY <1>1, LifeInvariance, PTL

(* Until Terminate the unsigned numlivenodes of LocalContext is the number *)
(* of nodes that have started and not ended: every start is counted once   *)
(* and every end once, with or without a thread, and it does not wrap.     *)
THEOREM LiveNodesCounted == Spec => []LiveCountExact
<1>1. LInv => LiveCountExact BY DEF LInv
<1> QED BY <1>1, LifeInvariance, PTL

---------------------------------------------------------------------------
(* With one client, Wait returns when no node is left.                     *)

LEMMA InitDrains == Init => DInv
<1> SUFFICES ASSUME Init PROVE Drains BY InitLife DEF DInv
<1> QED BY DEF Init, Drains, HasDrained

(* An empty nodemap, and no node about to be entered or buried: no step of *)
(* a thread changes that, for every node under way is in nodemap.          *)
LEMMA StepDrains == Clients = {Main} /\ DInv /\ [Next]_vars => DInv'
<1> SUFFICES ASSUME Clients = {Main}, DInv, [Next]_vars PROVE Drains'
  BY StepLife DEF DInv
<1> USE DEF cvars, nvars, kvars, qvars, tvars
<1>0. TypeOK /\ CallsKnow /\ Newborn /\ PastLoop /\ Lives /\ Drains /\ LInv /\ Main \in Threads
  BY ThreadKinds DEF DInv, LInv, WInv, IInv
<1>e. ASSUME NEW t \in Threads, pc[t].at = "erase" PROVE nodemap # {}
  <2>1. CASE t \in Clients
    <3>1. pc[t].node \in External /\ Holds(t, pc[t].node) /\ EndpointLife(pc[t].node)
      BY <1>0, <1>e, <2>1 DEF Lives, Holds, EndpointCalls
    <3> QED BY <1>e, <2>1, <3>1 DEF EndpointLife
  <2>2. CASE t \notin Clients BY <1>0, <1>e, <2>2, ThreadKinds DEF Lives, NodeLife
  <2> QED BY <2>1, <2>2
<1>1. CASE KernelThread
  <2>0. UNCHANGED <<pc, shutdown, nodemap>> BY <1>1, KernelThreadLeaves
  <2>1. CASE KernelBegin BY <1>0, <2>0, <2>1 DEF KernelBegin, KGoto, Drains, HasDrained
  <2>2. CASE SignalKernelStart
    BY <1>0, <2>0, <2>2 DEF SignalKernelStart, KGoto, ClearGarbage, Drains, HasDrained
  <2>3. CASE RunLoop
    BY <1>0, <2>0, <2>3 DEF RunLoop, LoopTurn, KGoto, ClearGarbage, Drains, HasDrained
  <2>4. CASE Woken BY <1>0, <2>0, <2>4 DEF Woken, ClearGarbage, Drains, HasDrained
  <2>5. CASE LockGarbage BY <1>0, <2>0, <2>5 DEF LockGarbage, KGoto, Drains, HasDrained
  <2>6. CASE CollectNode BY <1>0, <2>0, <2>6 DEF CollectNode, Drains, HasDrained
  <2>7. CASE UnlockGarbage
    <3>1. kret \in {"loop", "drain", "end"} BY <1>0 DEF TypeOK
    <3> QED BY <1>0, <2>0, <2>7, <3>1 DEF UnlockGarbage, KGoto, Drains, HasDrained
  <2>8. CASE CopyNodeMap BY <1>0, <2>0, <2>8 DEF CopyNodeMap, KGoto, Drains, HasDrained
  <2>9. ASSUME NEW n \in Nodes, NotifyNode(n) PROVE Drains'
    BY <1>0, <2>0, <2>9 DEF NotifyNode, Drains, HasDrained
  <2>10. CASE Notified BY <1>0, <2>0, <2>10 DEF Notified, ClearGarbage, Drains, HasDrained
  <2>11. CASE DrainLoop
    <3>1. /\ kpc = "drain" /\ NodeLockFree /\ UNCHANGED <<status, garbagenodes>>
          /\ \/ Drained /\ kpc' = "last"
             \/ kpc' = "woken" /\ kret' = "drain"
             \/ kpc' = "gc" /\ kret' = "drain"
      BY <2>11 DEF DrainLoop, LoopTurn, KGoto, ClearGarbage
    <3>2. shutdown BY <1>0, <3>1 DEF PastLoop
    <3>3. ASSUME Drained, NEW t \in Threads PROVE pc[t].at \notin {"create", "insert", "bury"}
      <4>1. pc[t].at # "bury" BY <3>1 DEF NodeLockFree
      <4>2. CASE t \in Clients BY <1>0, <3>2, <4>1, <4>2 DEF Drains
      <4>3. CASE t \notin Clients
        <5>1. NodeLife(t) /\ t \notin nodemap BY <1>0, <3>3, <4>3, ThreadKinds DEF Lives, Drained
        <5> QED BY <5>1, <4>1 DEF NodeLife
      <4> QED BY <4>2, <4>3
    <3> QED BY <1>0, <2>0, <3>1, <3>3 DEF Drains, HasDrained, Drained
  <2>12. CASE LastGarbage BY <1>0, <2>0, <2>12 DEF LastGarbage, ClearGarbage, Drains, HasDrained
  <2>13. CASE SignalKernelEnd BY <1>0, <2>0, <2>13 DEF SignalKernelEnd, KGoto, Drains, HasDrained
  <2>14. CASE PostDone BY <1>0, <2>0, <2>14 DEF PostDone, KGoto, Drains, HasDrained
  <2> QED
    BY <1>1, <2>1, <2>2, <2>3, <2>4, <2>5, <2>6, <2>7, <2>8, <2>9, <2>10, <2>11, <2>12,
       <2>13, <2>14 DEF KernelThread
<1>2. ASSUME NEW t \in Threads, Inside(t) PROVE Drains'
  <2>1. /\ UNCHANGED <<shutdown, kpc, kret>>
        /\ \A u \in Threads :
              /\ pc'[u].at \in {"notify", "create", "insert"} => pc'[u] = pc[u]
              /\ pc'[u].at = "bury" => pc'[u] = pc[u] \/ pc[u].at = "erase"
        /\ nodemap' \subseteq nodemap \/ pc[t].at \in {"create", "insert"}
        /\ garbagenodes' = garbagenodes \/ pc[t].at = "bury"
        /\ status' = status \/ (pc[t].at = "notify" /\ status' = "TERMINATE")
    BY <1>0, <1>2, InsideMoves
  <2>2. shutdown' => pc'[Main].at \notin {"create", "insert"} BY <1>0, <2>1 DEF Drains
  <2>3. HasDrained => nodemap' = {} /\ garbagenodes' = garbagenodes
                      /\ \A u \in Threads : pc'[u].at \notin {"create", "insert", "bury"}
    BY <1>0, <1>e, <2>1 DEF Drains
  <2> QED BY <1>0, <2>1, <2>2, <2>3 DEF Drains, HasDrained
<1>o. ASSUME NEW t \in Threads,
             \/ Outside(t)
             \/ \E q \in Queues, d \in Side : GetQueue(t, q, d) \/ Block(t, q, d)
             \/ Finish(t)
      PROVE  Drains'
  <2>1. /\ UNCHANGED <<status, nodemap, garbagenodes, kpc, kret>>
        /\ \A u \in Threads : pc'[u] # pc[u] => pc[u].at \in {"idle", "blocked"}
        /\ \A u \in Threads : pc'[u].at = "bury" => pc'[u] = pc[u]
        /\ \A u \in Threads : pc'[u].at \in {"create", "insert"} => pc'[u] = pc[u] \/ (u = t /\ ~shutdown)
        /\ shutdown' = shutdown \/ (t \in Clients /\ shutdown' /\ pc'[t].at = "notify")
    BY <1>0, <1>o, OutsideMoves
  <2>2. shutdown' => pc'[Main].at \notin {"create", "insert"} BY <1>0, <2>1 DEF Drains
  <2>3. HasDrained => \A u \in Threads : pc'[u].at \notin {"create", "insert", "bury"}
    <3>1. HasDrained => shutdown BY <1>0 DEF HasDrained, PastLoop
    <3> QED BY <1>0, <2>1, <3>1 DEF Drains
  <2> QED BY <1>0, <2>1, <2>2, <2>3 DEF Drains, HasDrained
<1>3. ASSUME NEW n \in Nodes \ External, ProcessStep(n) PROVE Drains'
  <2>1. n \in Threads BY DEF Threads
  <2>2. Finish(n) \/ \E q \in Queues, d \in Side : GetQueue(n, q, d) \/ Block(n, q, d)
    BY <1>3 DEF ProcessStep
  <2> QED BY <1>o, <2>1, <2>2
<1>4. CASE UNCHANGED vars
  BY <1>0, <1>4 DEF vars, Drains, HasDrained
<1> QED BY <1>1, <1>2, <1>o, <1>3, <1>4 DEF Next

LEMMA DrainedIsEnd == DInv => NodesEndFirst
<1> SUFFICES ASSUME DInv, status = "DONE"
    PROVE  /\ nodemap = {} /\ garbagenodes = <<>>
           /\ \A n \in Nodes \ External : pc[n].at \in {"unborn", "exited"}
  BY DEF NodesEndFirst
<1>1. kpc = "exited" /\ HasDrained BY DEF DInv, Drains, HasDrained
<1>2. nodemap = {} /\ garbagenodes = <<>> BY <1>1 DEF DInv, Drains
<1>3. ASSUME NEW n \in Nodes \ External PROVE pc[n].at \in {"unborn", "exited"}
  <2>1. n \in Threads /\ NodeLife(n) BY ThreadKinds DEF DInv, LInv, Lives
  <2>2. pc[n].at # "bury" BY <1>1, <2>1 DEF DInv, Drains
  <2> QED BY <1>2, <2>1, <2>2 DEF NodeLife
<1> QED BY <1>2, <1>3

(* Kernel::EntryPoint posts DONE only when no node and no garbage is left  *)
(* and every thread of a node has ended, in a program with one client (a   *)
(* second one may be inside CreateNode while the kernel drains).           *)
THEOREM NodesEndBeforeKernel == ASSUME Clients = {Main} PROVE Spec => []NodesEndFirst
<1>1. Init => DInv BY InitDrains
<1>2. DInv /\ [Next]_vars => DInv' BY StepDrains
<1>3. DInv => NodesEndFirst BY DrainedIsEnd
<1> QED BY <1>1, <1>2, <1>3, PTL DEF Spec

---------------------------------------------------------------------------
(* No end of a queue stays open at a node that has been collected.         *)

Attaching == {"attachReader", "release"}

(* Nobody who attaches a queue leaves it, no end opens and none is         *)
(* collected.                                                              *)
LEMMA EndsKept ==
  ASSUME EndsShut, UNCHANGED <<end, shut>>,
         \A u \in Threads : pc[u].at \in Attaching => pc'[u] = pc[u]
  PROVE  EndsShut'
<1> SUFFICES ASSUME NEW q \in Queues, NEW d \in Side, end[q][d] = "open", Ends[q][d] \in shut
             PROVE  \E t \in Threads : pc'[t].queue = q /\ pc'[t].at \in {"attachReader", "release"}
  BY DEF EndsShut
<1>1. PICK t \in Threads : pc[t].queue = q /\ pc[t].at \in {"attachReader", "release"}
  BY DEF EndsShut
<1> QED BY <1>1 DEF Attaching

(* One end opens; who opens it attaches.                                   *)
LEMMA AttachEnds ==
  ASSUME TypeOK, CallsKnow, EndsShut, NEW t \in Threads, NEW d \in Side, NEW p \in Attaching,
         Attach(t, d, p), pc[t].at \in {"attachWriter", "attachReader"}
  PROVE  EndsShut'
<1> USE DEF cvars, nvars, kvars, qvars, tvars
<1>1. PICK q : q = pc[t].queue OBVIOUS
<1>2. q \in Queues BY <1>1 DEF CallsKnow, Knows, QueueCalls
<1>3. end' = [end EXCEPT ![q][d] = "open"] /\ Goto(t, p) /\ UNCHANGED shut
  BY <1>1 DEF Attach
<1>4. p \in Places /\ p # "idle" /\ p # "ending" BY DEF Attaching, Places
<1>5. pc'[t].at = p /\ pc'[t].queue = q /\ \A u \in Threads \ {t} : pc'[u] = pc[u]
  BY <1>1, <1>3, <1>4, GotoIs
<1> SUFFICES ASSUME NEW r \in Queues, NEW c \in Side, end'[r][c] = "open", Ends[r][c] \in shut'
             PROVE  \E u \in Threads : pc'[u].queue = r /\ pc'[u].at \in {"attachReader", "release"}
  BY DEF EndsShut
<1>6. CASE r = q BY <1>5, <1>6 DEF Attaching
<1>7. CASE r # q
  <2>1. end[r][c] = "open" BY <1>2, <1>3, <1>7 DEF TypeOK
  <2>2. PICK u \in Threads : pc[u].queue = r /\ pc[u].at \in {"attachReader", "release"}
    BY <1>3, <2>1 DEF EndsShut
  <2>3. u # t BY <1>1, <1>7, <2>2
  <2> QED BY <1>5, <2>2, <2>3
<1> QED BY <1>6, <1>7

(* Who has attached a queue shuts the ends that nobody will shut any more. *)
LEMMA ReleaseEnds ==
  ASSUME TypeOK, CallsKnow, EndsShut, NEW t \in Threads, ReleaseNodes(t)
  PROVE  EndsShut'
<1> USE DEF cvars, nvars, kvars, qvars, tvars
<1>1. PICK q : q = pc[t].queue OBVIOUS
<1>2. pc[t].at = "release" /\ q \in Queues
  BY <1>1 DEF CallsKnow, Knows, QueueCalls, ReleaseNodes
<1>3. /\ end' = [end EXCEPT ![q] = [d \in Side |-> IF Closes(q, d) THEN "shut" ELSE end[q][d]]]
      /\ Goto(t, "idle") /\ UNCHANGED shut
  BY <1>1 DEF ReleaseNodes
<1>5. \A u \in Threads \ {t} : pc'[u] = pc[u] BY <1>3, GotoIs DEF Places
<1> SUFFICES ASSUME NEW r \in Queues, NEW c \in Side, end'[r][c] = "open", Ends[r][c] \in shut'
             PROVE  \E u \in Threads : pc'[u].queue = r /\ pc'[u].at \in {"attachReader", "release"}
  BY DEF EndsShut
<1>6. r # q
  <2> SUFFICES ASSUME r = q PROVE FALSE OBVIOUS
  <2>1. end'[r][c] = (IF Closes(r, c) THEN "shut" ELSE end[r][c]) BY <1>2, <1>3 DEF TypeOK
  <2>2. ~Closes(r, c) /\ end[r][c] = "open" BY <2>1
  <2> QED BY <1>3, <2>2 DEF Closes
<1>7. end[r][c] = "open" BY <1>2, <1>3, <1>6 DEF TypeOK
<1>8. PICK u \in Threads : pc[u].queue = r /\ pc[u].at \in {"attachReader", "release"}
  BY <1>3, <1>7 DEF EndsShut
<1>9. u # t BY <1>1, <1>6, <1>8
<1> QED BY <1>5, <1>8, <1>9

LEMMA InsideEnds ==
  ASSUME TypeOK, CallsKnow, Newborn, EndsShut, NEW t \in Threads, Inside(t)
  PROVE  EndsShut'
<1> USE DEF cvars, nvars, kvars, qvars, tvars
<1> DEFINE From == {"create", "insert", "begin", "destroy", "ending", "erase", "bury",
                    "readerStart", "writerStart", "connect", "lookup", "get", "blocked",
                    "waitStart", "waitEnd", "waitAll", "notify", "wakeup"}
           To == {"idle", "begin", "ending", "erase", "bury", "exited", "writerStart", "connect",
                  "lookup", "attachWriter", "wakeup"}
<1>g. ASSUME pc[t].at \in From, NEW p \in To, Goto(t, p), UNCHANGED <<end, shut>> PROVE EndsShut'
  <2>1. p \in Places BY DEF Places
  <2>2. pc[t].at \notin Attaching BY <1>g DEF Attaching
  <2>3. \A u \in Threads \ {t} : pc'[u] = pc[u] BY <1>g, <2>1, GotoIs
  <2> QED BY <1>g, <2>2, <2>3, EndsKept
<1>h. ASSUME pc[t].at \in From, NEW e, Throw(t, e), UNCHANGED <<end, shut>> PROVE EndsShut'
  <2>1. pc[t].at \notin Attaching BY <1>h DEF Attaching
  <2>2. \A u \in Threads \ {t} : pc'[u] = pc[u] BY <1>h, ThrowIs
  <2> QED BY <1>h, <2>1, <2>2, EndsKept
<1>s. ASSUME UNCHANGED <<pc, end, shut>> PROVE EndsShut' BY <1>s, EndsKept
<1>1. CASE InternalCreateNode(t)
  <2>0. pc[t].at = "create" /\ UNCHANGED <<end, shut>> BY <1>1 DEF InternalCreateNode
  <2>1. CASE status # "RUNNING" BY <1>1, <1>h, <2>0, <2>1 DEF InternalCreateNode
  <2>2. CASE status = "RUNNING"
    <3>1. pc' = [pc EXCEPT ![t] = At("idle"), ![pc[t].node] = At("begin")]
      BY <1>1, <2>2 DEF InternalCreateNode
    <3>2. pc[pc[t].node].at = "unborn" BY <2>0 DEF Newborn
    <3>3. \A u \in Threads : pc[u].at \in Attaching => pc'[u] = pc[u]
      BY <2>0, <3>1, <3>2 DEF TypeOK, Attaching
    <3> QED BY <2>0, <3>3, EndsKept
  <2> QED BY <2>1, <2>2
<1>2. CASE InsertEndpoint(t) BY <1>2, <1>g DEF InsertEndpoint
<1>3. CASE SignalNodeStart(t) BY <1>3, <1>g, <1>h DEF SignalNodeStart
<1>4. CASE FindEndpoint(t) BY <1>4, <1>g DEF FindEndpoint
<1>5. CASE SignalNodeEnd(t) BY <1>5, <1>g DEF SignalNodeEnd
<1>6. CASE EraseNode(t) BY <1>6, <1>g, <1>h DEF EraseNode, Ended
<1>7. CASE BuryNode(t) BY <1>7, <1>g DEF BuryNode, Ended
<1>w. ASSUME NEW n, NEW p \in To, pc[t].at \in From, WaitForNodeStart(t, n, p) PROVE EndsShut'
  BY <1>w, <1>g, <1>h, <1>s DEF WaitForNodeStart
<1>8. CASE ReaderStart(t) BY <1>8, <1>w DEF ReaderStart
<1>9. CASE WriterStart(t) BY <1>9, <1>w DEF WriterStart
<1>10. CASE WaitStart(t) BY <1>10, <1>w DEF WaitStart
<1>11. CASE ConnectEndpoints(t) BY <1>11, <1>g, <1>h DEF ConnectEndpoints
<1>12. CASE LookupNodes(t) BY <1>12, <1>g, <1>h DEF LookupNodes
<1>13. CASE AttachWriter(t) BY <1>13, AttachEnds DEF AttachWriter, Attaching, Side
<1>14. CASE AttachReader(t) BY <1>14, AttachEnds DEF AttachReader, Attaching, Side
<1>15. CASE ReleaseNodes(t) BY <1>15, ReleaseEnds
<1>16. CASE GetEnd(t) BY <1>16, <1>g, <1>h, <1>s DEF GetEnd
<1>17. CASE Unblock(t) BY <1>17, <1>g, <1>h, <1>s DEF Unblock
<1>18. CASE WaitForNodeEnd(t) BY <1>18, <1>g, <1>h, <1>s DEF WaitForNodeEnd
<1>19. CASE WaitForAllNodeEnd(t) BY <1>19, <1>g, <1>s DEF WaitForAllNodeEnd
<1>20. CASE NotifyKernel(t) BY <1>20, <1>g DEF NotifyKernel
<1>21. CASE SendWakeup(t) BY <1>21, <1>g DEF SendWakeup
<1> QED
  BY <1>1, <1>2, <1>3, <1>4, <1>5, <1>6, <1>7, <1>8, <1>9, <1>10, <1>11, <1>12, <1>13,
     <1>14, <1>15, <1>16, <1>17, <1>18, <1>19, <1>20, <1>21 DEF Inside

LEMMA StepEnds == WInv /\ EndsShut /\ [Next]_vars => EndsShut'
<1> SUFFICES ASSUME WInv, EndsShut, [Next]_vars PROVE EndsShut' OBVIOUS
<1> USE DEF cvars, nvars, kvars, qvars, tvars
<1>0. TypeOK /\ CallsKnow /\ Newborn BY DEF WInv, IInv
<1>1. CASE KernelThread
  <2>1. UNCHANGED pc BY <1>1, KernelThreadLeaves
  <2>2. UNCHANGED <<end, shut>> \/ CollectNode
    BY <1>1 DEF KernelThread, KernelBegin, SignalKernelStart, RunLoop, Woken, LockGarbage,
         UnlockGarbage, CopyNodeMap, NotifyNode, Notified, DrainLoop, LoopTurn, LastGarbage,
         SignalKernelEnd, PostDone, KSame
  <2>3. CASE UNCHANGED <<end, shut>> BY <2>1, <2>3, EndsKept
  <2>4. CASE CollectNode
    <3>1. PICK n : n = garbagenodes[Len(garbagenodes)] OBVIOUS
    <3>2. /\ end' = [q \in Queues |-> [d \in Side |->
                       IF Ends[q][d] = n /\ end[q][d] = "open" THEN "shut" ELSE end[q][d]]]
          /\ shut' = shut \cup {n}
      BY <2>4, <3>1 DEF CollectNode
    <3>3. \A q \in Queues, d \in Side : end'[q][d] = "open" /\ Ends[q][d] \in shut' =>
            end[q][d] = "open" /\ Ends[q][d] \in shut
      BY <3>2
    <3> QED BY <2>1, <3>3 DEF EndsShut
  <2> QED BY <2>2, <2>3, <2>4
<1>2. ASSUME NEW t \in Threads, Inside(t) PROVE EndsShut' BY <1>0, <1>2, InsideEnds
<1>o. ASSUME NEW t \in Threads,
             \/ Outside(t)
             \/ \E q \in Queues, d \in Side : GetQueue(t, q, d) \/ Block(t, q, d)
             \/ Finish(t)
      PROVE  EndsShut'
  <2>1. /\ UNCHANGED <<end, shut>>
        /\ \A u \in Threads : pc'[u] # pc[u] => pc[u].at \in {"idle", "blocked"}
    BY <1>0, <1>o, OutsideMoves
  <2> QED BY <2>1, EndsKept DEF Attaching
<1>3. ASSUME NEW n \in Nodes \ External, ProcessStep(n) PROVE EndsShut'
  <2>1. n \in Threads BY DEF Threads
  <2>2. Finish(n) \/ \E q \in Queues, d \in Side : GetQueue(n, q, d) \/ Block(n, q, d)
    BY <1>3 DEF ProcessStep
  <2> QED BY <1>o, <2>1, <2>2
<1>4. CASE UNCHANGED vars BY <1>4, EndsKept DEF vars
<1> QED BY <1>1, <1>2, <1>o, <1>3, <1>4 DEF Next

(* The end of a queue at a node that ClearGarbage has shut down does not   *)
(* stay open, even when CreateLocalQueue attached it after PseudoNode::    *)
(* Shutdown: whoever attached it shuts it when it drops the node.          *)
THEOREM NoEndStaysOpen == Spec => []EndsShut
<1>1. Init => EndsShut BY DEF Init, EndsShut
<1>2. WInv /\ EndsShut /\ [Next]_vars => EndsShut' BY StepEnds
<1> QED BY <1>1, <1>2, SleepInvariance, PTL DEF Spec
===========================================================================
