---------------------------- MODULE D4R_proofs ----------------------------
(***************************************************************************)
(* Proofs about module D4R, for every network of nodes and queues, every   *)
(* queue length and every choice of requests.                              *)
(***************************************************************************)
EXTENDS D4R, TLAPS

USE TopologyAssumption, ParameterAssumption DEF End

(* A node inside an operation works on an end of a queue that is its own.  *)
OwnsEnd ==
  \A n \in Node : pc[n] \in OpPc =>
    op[n].q \in Queue /\ Owner(op[n].q, op[n].d) = n

(* What GetRaw{De,En}queuePtr has found is still there when the node comes *)
(* back with Dequeue or Enqueue: only the node itself takes it away.       *)
StillThere ==
  \A n \in Node : pc[n] = "have" => op[n].want <= Avail(op[n].q, op[n].d)

(* The invariants of the runs, made inductive.                             *)
IInv == TypeOK /\ OwnsEnd /\ StillThere /\ CommExclusive /\ NoLostWakeup


---------------------------------------------------------------------------
(* Two nodes inside operations on the same queue are at its two ends.      *)
LEMMA OneNodePerEnd ==
  ASSUME OwnsEnd, NEW n \in Node, NEW m \in Node,
         pc[n] \in OpPc, pc[m] \in OpPc, op[n].q = op[m].q, op[n].d = op[m].d
  PROVE  n = m
BY DEF OwnsEnd

(* Facts about the records, so that no later step has to open them.        *)
LEMMA OpFacts ==
  /\ NoOp \in Op
  /\ \A o \in Op : o.d \in End /\ o.want \in Nat /\ o.size \in Nat
  /\ \A o \in Op, s \in Nat : o.q \in Queue => [o EXCEPT !.size = s] \in Op
  /\ \A q \in Queue, d \in End, w \in Nat :
       [q |-> q, d |-> d, want |-> w, size |-> 0] \in Op
<1>1. NoOp \in Op /\ NoOp.d \in End /\ NoOp.want \in Nat /\ NoOp.size \in Nat
  BY DEF Op, NoOp
<1>2. ASSUME NEW o \in [q : Queue, d : End, want : Nat, size : Nat], NEW s \in Nat
      PROVE  [o EXCEPT !.size = s] \in [q : Queue, d : End, want : Nat, size : Nat]
  OBVIOUS
<1>3. ASSUME NEW s \in Nat, NoOp.q \in Queue
      PROVE  [NoOp EXCEPT !.size = s] \in [q : Queue, d : End, want : Nat, size : Nat]
  BY <1>3 DEF NoOp
<1> QED
  BY <1>1, <1>2, <1>3 DEF Op

(* Updates of the queues a node still has to tell.                         *)
LEMMA PendingUpdate ==
  ASSUME NEW f \in [Node -> SUBSET Queue], NEW n \in Node
  PROVE  /\ \A S \in SUBSET Queue : [f EXCEPT ![n] = S] \in [Node -> SUBSET Queue]
         /\ \A q : [f EXCEPT ![n] = @ \ {q}] \in [Node -> SUBSET Queue]
<1>1. \A q : f[n] \ {q} \in SUBSET Queue
  OBVIOUS
<1>2. \A S \in SUBSET Queue : [f EXCEPT ![n] = S] \in [Node -> SUBSET Queue]
  BY Zenon
<1> QED
  BY <1>1, <1>2, Zenon

(* Block's queue size is the only field of op that a wait changes.         *)
LEMMA OpSize ==
  ASSUME NEW o \in Op, NEW s
  PROVE  LET p == [o EXCEPT !.size = s]
         IN  p.q = o.q /\ p.d = o.d /\ p.want = o.want
<1>1. CASE o \in [q : Queue, d : End, want : Nat, size : Nat]
  BY <1>1
<1>2. CASE o = NoOp
  BY <1>2 DEF NoOp
<1> QED
  BY <1>1, <1>2 DEF Op

(* The constructors of tags yield tags.                                    *)
LEMMA TagFacts ==
  /\ \A n \in Node : InitTag(n) \in Tag
  /\ \A a, b, c \in Tag, s \in Nat : BlockTag(a, b, c, s) \in Tag
  /\ \A a, b \in Tag : TransmitTag(a, b) \in Tag
<1>1. \A n \in Node : InitTag(n) \in Tag
  BY DEF InitTag, Tag
<1>2. ASSUME NEW a \in Tag, NEW b \in Tag, NEW c \in Tag, NEW s \in Nat
      PROVE  BlockTag(a, b, c, s) \in Tag
  <2>1. Larger(b.count, c.count) + 1 \in Nat
    BY DEF Larger, Tag
  <2> QED
    BY <2>1 DEF BlockTag, Tag
<1>3. \A a, b \in Tag : TransmitTag(a, b) \in Tag
  BY DEF TransmitTag, Tag
<1> QED
  BY <1>1, <1>2, <1>3

(* The invariant holds of the network as it is created.                    *)
LEMMA InitIInv == Init => IInv
<1> SUFFICES ASSUME Init PROVE IInv
  OBVIOUS
<1>1. TypeOK
  BY OpFacts, TagFacts DEF Init, TypeOK, Pc
<1>2. OwnsEnd /\ StillThere
  BY DEF Init, OwnsEnd, StillThere, OpPc, CommPc, WaitPc
<1>3. CommExclusive /\ NoLostWakeup
  BY DEF Init, CommExclusive, NoLostWakeup, InComm, CommPc
<1> QED
  BY <1>1, <1>2, <1>3 DEF IInv

(* What a node still has to tell stays a set of queues.                    *)
LEMMA PendingStep ==
  ASSUME TypeOK, NEW n \in Node, SignalTagChanged(n) \/ Shutdown(n) \/ Transmit(n)
  PROVE  pendR' \in [Node -> SUBSET Queue] /\ pendW' \in [Node -> SUBSET Queue]
<1> DEFINE P == [Node -> SUBSET Queue]
<1>1. Reads(n) \in SUBSET Queue /\ Writes(n) \in SUBSET Queue
  BY DEF Reads, Writes
<1>2. pendR \in P /\ pendW \in P
  BY DEF TypeOK
<1>3. /\ \A q : [pendR EXCEPT ![n] = @ \ {q}] \in P /\ [pendW EXCEPT ![n] = @ \ {q}] \in P
      /\ [pendR EXCEPT ![n] = Reads(n)] \in P /\ [pendW EXCEPT ![n] = Writes(n)] \in P
  BY <1>1, <1>2, PendingUpdate, Zenon
<1>4. CASE SignalTagChanged(n) \/ Shutdown(n)
  <2>1. \E q : /\ pendR' = [pendR EXCEPT ![n] = @ \ {q}] \/ pendR' = pendR
               /\ pendW' = [pendW EXCEPT ![n] = @ \ {q}] \/ pendW' = pendW
    BY <1>4 DEF SignalTagChanged, Shutdown
  <2> HIDE DEF P
  <2>2. pendR' \in P /\ pendW' \in P
    BY <1>2, <1>3, <2>1, Zenon
  <2> QED
    BY <2>2 DEF P
<1>5. CASE Transmit(n)
  <2>1. \/ pendR' = [pendR EXCEPT ![n] = Reads(n)] /\ pendW' = [pendW EXCEPT ![n] = Writes(n)]
        \/ pendR' = pendR /\ pendW' = pendW
    BY <1>5 DEF Transmit, StartSignal
  <2> HIDE DEF P
  <2>2. pendR' \in P /\ pendW' \in P
    BY <1>2, <1>3, <2>1, Zenon
  <2> QED
    BY <2>2 DEF P
<1> QED
  BY <1>4, <1>5

(* The types, action by action.                                            *)
LEMMA TypeStep == IInv /\ [Next]_vars => TypeOK'
<1> SUFFICES ASSUME IInv, [Next]_vars PROVE TypeOK'
  OBVIOUS
<1> USE DEF TypeOK, IInv, Goto
<1>0. ASSUME NEW n \in Node, pc[n] \in OpPc
      PROVE  /\ op[n].q \in Queue /\ op[n].d \in End /\ op[n].want \in Nat
             /\ op[n].size \in Nat /\ Peer(n) \in Node
  <2>1. op[n] \in Op /\ op[n].q \in Queue
    BY <1>0 DEF OwnsEnd
  <2>2. op[n].d \in End /\ op[n].want \in Nat /\ op[n].size \in Nat
    BY <2>1, OpFacts
  <2> QED
    BY <2>1, <2>2 DEF Peer, Owner, Other
<1>1. ASSUME NEW n \in Node, Begin(n) PROVE TypeOK'
  BY <1>1, OpFacts DEF Begin, qvars, tvars, Pc, OpPc
<1>2. ASSUME NEW n \in Node, GetPtr(n) PROVE TypeOK'
  <2> DEFINE q == op[n].q  d == op[n].d  w == op[n].want
  <2>0. q \in Queue /\ d \in End /\ w \in Nat
    BY <1>2, <1>0 DEF GetPtr, OpPc
  <2>1. CASE GetReady(n, q, d, w)
    BY <2>0, <2>1 DEF GetReady, qvars, tvars, Pc, OpPc
  <2>2. CASE GetBroken(n, q, d, w)
    BY <2>0, <2>2, OpFacts DEF GetBroken, qvars, tvars, Pc, OpPc
  <2>3. CASE GetGrow(n, q, d, w)
    BY <2>0, <2>3 DEF GetGrow, tvars, Wake, Larger, Other
  <2>4. CASE GetBlock(n, q, d, w)
    <3>1. op' \in [Node -> Op]
      BY <2>0, <2>4, OpFacts DEF GetBlock
    <3>2. pc' \in [Node -> Pc]
      BY <2>4 DEF GetBlock, TakeComm, Pc, OpPc, CommPc, WaitPc
    <3> QED
      BY <2>0, <2>4, <3>1, <3>2 DEF GetBlock, TakeComm
  <2> QED
    BY <1>2, <2>1, <2>2, <2>3, <2>4 DEF GetPtr
<1>3. ASSUME NEW n \in Node, CommWait(n) PROVE TypeOK'
  BY <1>3, <1>0 DEF CommWait, TakeComm, qvars, Pc, OpPc, CommPc, WaitPc
<1>4. ASSUME NEW n \in Node, GetPublicTag(n) PROVE TypeOK'
  BY <1>4, <1>0 DEF GetPublicTag, qvars, Pc, OpPc, CommPc
<1>5. ASSUME NEW n \in Node, Block(n) PROVE TypeOK'
  <2>1. BlockTag(privateTag[n], publicTag[n], tag[n], op[n].size) \in Tag
    BY <1>5, <1>0, TagFacts DEF Block, OpPc, CommPc
  <2> QED
    BY <1>5, <2>1, TagFacts
       DEF Block, StartSignal, Reads, Writes, qvars, Pc, OpPc, CommPc
<1>6. ASSUME NEW n \in Node, Transmit(n) PROVE TypeOK'
  <2>1. TransmitTag(privateTag[n], tag[n]) \in Tag
    BY TagFacts
  <2>2. InitTag(n) \in Tag
    BY TagFacts
  <2>3. pc' \in [Node -> Pc] /\ tag' \in [Node -> Tag]
    BY <1>6, <2>2 DEF Transmit, Pc, OpPc, CommPc
  <2>4. \/ /\ publicTag' = [publicTag EXCEPT ![n] = TransmitTag(privateTag[n], tag[n])]
           /\ StartSignal(n) /\ detect' = detect
        \/ /\ detect' = [detect EXCEPT ![n] =
                 publicTag[n] = tag[n] /\ SamePriority(publicTag[n], privateTag[n])]
           /\ publicTag' = publicTag /\ pendR' = pendR /\ pendW' = pendW
    BY <1>6 DEF Transmit
  <2>5. publicTag' \in [Node -> Tag]
    BY <2>1, <2>4
  <2>6. detect' \in [Node -> BOOLEAN]
    BY <2>4, Zenon
  <2>7. pendR' \in [Node -> SUBSET Queue] /\ pendW' \in [Node -> SUBSET Queue]
    BY <1>6, PendingStep
  <2> QED
    BY <1>6, <2>3, <2>5, <2>6, <2>7 DEF Transmit, qvars
<1>7. ASSUME NEW n \in Node, SignalTagChanged(n) PROVE TypeOK'
  <2>1. PICK q \in Queue, d \in End :
          /\ SignalEnd(n, q, d)
          /\ \/ pendR' = [pendR EXCEPT ![n] = @ \ {q}] /\ UNCHANGED pendW
             \/ pendW' = [pendW EXCEPT ![n] = @ \ {q}] /\ UNCHANGED pendR
    BY <1>7 DEF SignalTagChanged
  <2>2. pendR' \in [Node -> SUBSET Queue] /\ pendW' \in [Node -> SUBSET Queue]
    BY <1>7, PendingStep
  <2> QED
    BY <2>1, <2>2 DEF SignalEnd, Wake, Other, qvars
<1>8. ASSUME NEW n \in Node, EndComm(n) PROVE TypeOK'
  <2>1. op[n].q \in Queue
    BY <1>8, <1>0 DEF EndComm, OpPc, CommPc
  <2>2. /\ incomm' \in [Queue -> BOOLEAN] /\ asleep' \in [Node -> BOOLEAN]
        /\ detect' \in [Node -> BOOLEAN]
    BY <1>8 DEF EndComm, Wake
  <2>3. CASE detect[n] /\ op[n].d = "read"
    <3>1. /\ pc' = [pc EXCEPT ![n] = "exit"] /\ op' = [op EXCEPT ![n] = NoOp]
          /\ UNCHANGED <<length, lock>>
      BY <1>8, <2>3 DEF EndComm
    <3> QED
      BY <1>8, <2>2, <3>1, OpFacts DEF EndComm, Pc
  <2>4. CASE ~(detect[n] /\ op[n].d = "read")
    <3>1. /\ pc' = [pc EXCEPT ![n] = "loop"] /\ UNCHANGED op
          /\ lock' = [lock EXCEPT ![op[n].q] = n]
          /\ length' = [length EXCEPT ![op[n].q] =
               IF detect[n] THEN Larger(@, count[op[n].q] + request[op[n].q]["write"]) ELSE @]
      BY <1>8, <2>4 DEF EndComm
    <3>2. length' \in [Queue -> Nat] /\ \A q \in Queue : count[q] <= length'[q]
      BY <3>1, <2>1 DEF Larger
    <3> QED
      BY <1>8, <2>2, <3>1, <3>2 DEF EndComm, Pc, OpPc, WaitPc
  <2> QED
    BY <2>3, <2>4
<1>9. ASSUME NEW n \in Node, Loop(n) PROVE TypeOK'
  <2> DEFINE q == op[n].q  d == op[n].d
  <2>0. q \in Queue /\ d \in End
    BY <1>9, <1>0 DEF Loop, OpPc, WaitPc
  <2>1. CASE LoopActivate(n, q, d)
    BY <2>0, <2>1 DEF LoopActivate, tvars, Pc, OpPc
  <2>2. CASE LoopTransmit(n, q, d)
    BY <2>0, <2>2 DEF LoopTransmit, TakeComm, qvars, Pc, OpPc, CommPc, WaitPc
  <2>3. CASE LoopWait(n, q, d)
    BY <2>0, <2>3 DEF LoopWait, qvars, tvars
  <2> QED
    BY <1>9, <2>1, <2>2, <2>3 DEF Loop
<1>10. ASSUME NEW n \in Node, Transfer(n) PROVE TypeOK'
  <2>1. op[n].q \in Queue /\ op[n].d \in End /\ op[n].want \in Nat
    BY <1>10, <1>0 DEF Transfer, OpPc
  <2>2. op[n].want <= Avail(op[n].q, op[n].d)
    BY <1>10 DEF Transfer, StillThere
  <2>3. count' \in [Queue -> Nat] /\ \A q \in Queue : count'[q] <= length[q]
    BY <1>10, <2>1, <2>2 DEF Transfer, Avail
  <2>4. asleep' \in [Node -> BOOLEAN]
    BY <1>10 DEF Transfer, Notify, Wake
  <2> QED
    BY <1>10, <2>3, <2>4, OpFacts DEF Transfer, tvars, Pc
<1>11. ASSUME NEW n \in Node, Exit(n) PROVE TypeOK'
  BY <1>11 DEF Exit, StartSignal, Reads, Writes, qvars, tvars, Pc
<1>12. ASSUME NEW n \in Node, Shutdown(n) PROVE TypeOK'
  <2>1. pc' \in [Node -> Pc] /\ asleep' \in [Node -> BOOLEAN]
    BY <1>12 DEF Shutdown, Wake, Pc
  <2>2. /\ readshutdown' \in [Queue -> BOOLEAN] /\ writeshutdown' \in [Queue -> BOOLEAN]
    BY <1>12 DEF Shutdown
  <2>3. pendR' \in [Node -> SUBSET Queue] /\ pendW' \in [Node -> SUBSET Queue]
    BY <1>12, PendingStep
  <2> QED
    BY <1>12, <2>1, <2>2, <2>3 DEF Shutdown, tvars
<1>13. CASE UNCHANGED vars
  BY <1>13 DEF vars, qvars, tvars
<1> QED
  BY <1>1, <1>2, <1>3, <1>4, <1>5, <1>6, <1>7, <1>8, <1>9, <1>10, <1>11,
     <1>12, <1>13 DEF Next, Step, Finished

(* A step of one node leaves the control of the others alone, and leaves   *)
(* it inside an operation only if it was, except when it begins one.       *)
LEMMA OwnStep ==
  ASSUME IInv, NEW n \in Node, Begin(n) \/ Step(n) \/ Exit(n)
  PROVE  \A m \in Node \ {n} : pc'[m] = pc[m] /\ op'[m] = op[m]
<1> USE DEF IInv, TypeOK, Goto
<1>1. CASE Begin(n) \/ Exit(n) \/ GetPublicTag(n) \/ Block(n) \/ Transmit(n) \/ Transfer(n)
  BY <1>1 DEF Begin, Exit, GetPublicTag, Block, Transmit, Transfer
<1>2. CASE GetPtr(n)
  BY <1>2 DEF GetPtr, GetReady, GetBroken, GetGrow, GetBlock, TakeComm
<1>3. CASE CommWait(n) \/ SignalTagChanged(n) \/ Shutdown(n)
  BY <1>3 DEF CommWait, TakeComm, SignalTagChanged, SignalEnd, Shutdown
<1>4. CASE EndComm(n)
  BY <1>4 DEF EndComm
<1>5. CASE Loop(n)
  BY <1>5 DEF Loop, LoopActivate, LoopTransmit, LoopWait, TakeComm
<1> QED
  BY <1>1, <1>2, <1>3, <1>4, <1>5 DEF Step

(* OwnsEnd is preserved by every action.                                   *)
LEMMA OwnsEndStep == IInv /\ [Next]_vars => OwnsEnd'
<1> SUFFICES ASSUME IInv, [Next]_vars PROVE OwnsEnd'
  OBVIOUS
<1> USE DEF Goto
<1>0. pc \in [Node -> Pc] /\ op \in [Node -> Op] /\ OwnsEnd
  BY DEF IInv, TypeOK
<1>1. ASSUME NEW n \in Node, Begin(n) \/ Step(n) \/ Exit(n),
             pc'[n] \in OpPc => op'[n].q \in Queue /\ Owner(op'[n].q, op'[n].d) = n
      PROVE  OwnsEnd'
  BY <1>0, <1>1, OwnStep DEF OwnsEnd, Owner, OpPc, CommPc, WaitPc
<1>2. ASSUME NEW n \in Node, Begin(n) PROVE OwnsEnd'
  <2>1. PICK q \in Queue, d \in End, w \in Requests :
          /\ Owner(q, d) = n
          /\ op'[n] = [q |-> q, d |-> d, want |-> w, size |-> 0]
    BY <1>0, <1>2 DEF Begin
  <2> QED
    BY <1>1, <1>2, <2>1
<1>3. ASSUME NEW n \in Node, Step(n) \/ Exit(n) PROVE OwnsEnd'
  <2>1. pc'[n] \in OpPc => pc[n] \in OpPc /\ op'[n].q = op[n].q /\ op'[n].d = op[n].d
    <3>1. CASE GetPtr(n)
      <4> DEFINE q == op[n].q  d == op[n].d  w == op[n].want
      <4>1. pc[n] \in OpPc
        BY <3>1 DEF GetPtr, OpPc
      <4>2. CASE GetReady(n, q, d, w) \/ GetGrow(n, q, d, w)
        BY <4>1, <4>2 DEF GetReady, GetGrow
      <4>3. CASE GetBroken(n, q, d, w)
        BY <1>0, <4>3 DEF GetBroken, OpPc, CommPc, WaitPc
      <4>4. CASE GetBlock(n, q, d, w)
        <5>1. PICK s : op' = [op EXCEPT ![n] = [@ EXCEPT !.size = s]]
          BY <4>4 DEF GetBlock
        <5>2. op'[n] = [op[n] EXCEPT !.size = s]
          BY <1>0, <5>1
        <5> QED
          BY <1>0, <4>1, <5>2, OpSize
      <4> QED
        BY <3>1, <4>2, <4>3, <4>4 DEF GetPtr
    <3>2. CASE EndComm(n)
      BY <1>0, <3>2 DEF EndComm, OpPc, CommPc, WaitPc
    <3>3. CASE Loop(n)
      BY <1>0, <3>3 DEF Loop, LoopActivate, LoopTransmit, LoopWait, TakeComm, OpPc, WaitPc
    <3>4. CASE CommWait(n) \/ GetPublicTag(n) \/ Block(n) \/ Transmit(n)
      BY <1>0, <3>4 DEF CommWait, TakeComm, GetPublicTag, Block, Transmit, OpPc, CommPc, WaitPc
    <3>5. CASE SignalTagChanged(n)
      BY <1>0, <3>5 DEF SignalTagChanged, SignalEnd
    <3>6. CASE Transfer(n) \/ Shutdown(n) \/ Exit(n)
      BY <1>0, <3>6 DEF Transfer, Shutdown, Exit, OpPc, CommPc, WaitPc
    <3> QED
      BY <1>3, <3>1, <3>2, <3>3, <3>4, <3>5, <3>6 DEF Step
  <2> QED
    BY <1>0, <1>1, <1>3, <2>1 DEF OwnsEnd
<1>4. CASE UNCHANGED vars
  BY <1>0, <1>4 DEF vars, OwnsEnd, Owner, OpPc, CommPc, WaitPc
<1> QED
  BY <1>2, <1>3, <1>4 DEF Next, Finished

(* A step of node n takes nothing away from another node: there is as much *)
(* at its end of its queue as before.                                      *)
LEMMA AvailKept ==
  ASSUME IInv, NEW n \in Node, Begin(n) \/ Step(n) \/ Exit(n),
         NEW m \in Node \ {n}, pc[m] \in OpPc
  PROVE  Avail(op[m].q, op[m].d) <= Avail(op[m].q, op[m].d)'
<1>0. /\ count \in [Queue -> Nat] /\ length \in [Queue -> Nat]
      /\ request \in [Queue -> [End -> Nat]]
      /\ pc \in [Node -> Pc] /\ op \in [Node -> Op] /\ OwnsEnd
  BY DEF IInv, TypeOK
<1>1. op'[m] = op[m] /\ op[m].q \in Queue /\ op[m].d \in End
  BY <1>0, OwnStep, OpFacts DEF OwnsEnd
<1>2. CASE count' = count /\ length' = length
  BY <1>0, <1>1, <1>2 DEF Avail
<1>3. CASE GetPtr(n)
  <2>1. op[n].q \in Queue /\ op[n].d \in End /\ op[n].want \in Nat
    BY <1>0, <1>3, OpFacts DEF GetPtr, OwnsEnd, OpPc
  <2>2. CASE GetGrow(n, op[n].q, op[n].d, op[n].want)
    <3>1. /\ count' = count
          /\ length' = [length EXCEPT ![op[n].q] =
               Larger(@, request[op[n].q][Other(op[n].d)] + op[n].want)]
      BY <2>2 DEF GetGrow
    <3>2. request[op[n].q][Other(op[n].d)] \in Nat
      BY <1>0, <2>1 DEF Other
    <3> QED
      BY <1>0, <1>1, <2>1, <3>1, <3>2 DEF Avail, Larger
  <2> QED
    BY <1>2, <1>3, <2>2 DEF GetPtr, GetReady, GetBroken, GetBlock, qvars
<1>4. CASE EndComm(n)
  <2>1. op[n].q \in Queue
    BY <1>0, <1>4 DEF EndComm, OwnsEnd, OpPc, CommPc
  <2>2. /\ count' = count
        /\ \/ length' = length
           \/ length' = [length EXCEPT ![op[n].q] =
                           Larger(@, count[op[n].q] + request[op[n].q]["write"])]
    BY <1>0, <1>4 DEF EndComm
  <2>3. request[op[n].q]["write"] \in Nat
    BY <1>0, <2>1
  <2> QED
    BY <1>0, <1>1, <2>1, <2>2, <2>3 DEF Avail, Larger
<1>5. CASE Transfer(n)
  <2>1. /\ op[n].q \in Queue /\ op[n].d \in End /\ op[n].want \in Nat
        /\ pc[n] \in OpPc
    BY <1>0, <1>5, OpFacts DEF Transfer, OwnsEnd, OpPc
  <2>2. /\ length' = length
        /\ count' = [count EXCEPT ![op[n].q] =
                       IF op[n].d = "read" THEN @ - op[n].want ELSE @ + op[n].want]
    BY <1>5 DEF Transfer
  <2>3. op[n].q = op[m].q => op[n].d # op[m].d
    BY <1>0, <2>1, OneNodePerEnd
  <2> QED
    BY <1>0, <1>1, <2>1, <2>2, <2>3 DEF Avail
<1> QED
  BY <1>2, <1>3, <1>4, <1>5
     DEF Step, Begin, Exit, CommWait, GetPublicTag, Block, Transmit,
         SignalTagChanged, SignalEnd, Loop, LoopActivate, LoopTransmit,
         LoopWait, Shutdown, qvars

(* StillThere is preserved by every action.                                *)
LEMMA StillThereStep == IInv /\ [Next]_vars => StillThere'
<1> SUFFICES ASSUME IInv, [Next]_vars PROVE StillThere'
  OBVIOUS
<1>0. /\ count \in [Queue -> Nat] /\ length \in [Queue -> Nat]
      /\ pc \in [Node -> Pc] /\ op \in [Node -> Op] /\ OwnsEnd /\ StillThere
  BY DEF IInv, TypeOK
<1>1. ASSUME NEW n \in Node, Begin(n) \/ Step(n) \/ Exit(n) PROVE StillThere'
  <2>1. ASSUME NEW m \in Node \ {n}, pc'[m] = "have"
        PROVE  op'[m].want <= Avail(op[m].q, op[m].d)'
    <3>1. pc[m] = "have" /\ op'[m] = op[m]
      BY <1>1, <2>1, OwnStep
    <3>2. op[m].want <= Avail(op[m].q, op[m].d)
      BY <1>0, <3>1 DEF StillThere
    <3>3. Avail(op[m].q, op[m].d) <= Avail(op[m].q, op[m].d)'
      BY <1>1, <3>1, AvailKept DEF OpPc
    <3>4. /\ op[m].want \in Nat /\ Avail(op[m].q, op[m].d) \in Int
          /\ Avail(op[m].q, op[m].d)' \in Int
      <4>1. op[m].want \in Nat /\ op[m].q \in Queue
        BY <1>0, <3>1, OpFacts DEF OwnsEnd, OpPc
      <4>2. TypeOK'
        BY TypeStep
      <4> QED
        BY <1>0, <3>1, <4>1, <4>2 DEF Avail, TypeOK
    <3> QED
      BY <3>1, <3>2, <3>3, <3>4
  <2>2. ASSUME pc'[n] = "have"
        PROVE  op'[n].want <= Avail(op[n].q, op[n].d)'
    <3>1. GetPtr(n) /\ GetReady(n, op[n].q, op[n].d, op[n].want)
      BY <1>0, <1>1, <2>2
         DEF Step, Begin, Exit, GetPtr, GetBroken, GetGrow, GetBlock, CommWait,
             TakeComm, GetPublicTag, Block, Transmit, SignalTagChanged, SignalEnd,
             EndComm, Loop, LoopActivate, LoopTransmit, LoopWait, Transfer,
             Shutdown, Goto
    <3> QED
      BY <3>1 DEF GetReady, qvars, Avail
  <2> QED
    BY <2>1, <2>2 DEF StillThere
<1>2. CASE UNCHANGED vars
  BY <1>0, <1>2 DEF vars, qvars, StillThere, Avail
<1> QED
  BY <1>1, <1>2 DEF Next, Finished

(* incomm is taken only where it was free, and given up by its owner.      *)
LEMMA CommStep == IInv /\ [Next]_vars => CommExclusive'
<1> SUFFICES ASSUME IInv, [Next]_vars PROVE CommExclusive'
  OBVIOUS
<1>0. /\ incomm \in [Queue -> BOOLEAN] /\ pc \in [Node -> Pc]
      /\ op \in [Node -> Op] /\ OwnsEnd /\ CommExclusive
  BY DEF IInv, TypeOK
<1>t. op' \in [Node -> Op] /\ pc' \in [Node -> Pc]
  BY TypeStep DEF TypeOK
<1>1. ASSUME NEW n \in Node, Begin(n) \/ Step(n) \/ Exit(n),
             incomm' = incomm,
             \A q \in Queue : InComm(n, q)' <=> InComm(n, q)
      PROVE  CommExclusive'
  <2>1. \A m \in Node, q \in Queue : InComm(m, q)' <=> InComm(m, q)
    BY <1>1, OwnStep DEF InComm, CommPc
  <2> QED
    BY <1>0, <1>1, <2>1 DEF CommExclusive
<1>2. ASSUME NEW n \in Node, Begin(n) \/ Step(n),
             NEW q \in Queue, op[n].q = q, op'[n].q = q, pc[n] \notin CommPc,
             NEW waiting \in WaitPc, NEW taken \in CommPc,
             TakeComm(n, q, waiting, taken)
      PROVE  CommExclusive'
  <2>1. incomm' = [incomm EXCEPT ![q] = TRUE]
        /\ pc'[n] = IF incomm[q] THEN waiting ELSE taken
    BY <1>0, <1>2 DEF TakeComm, Goto
  <2>2. CASE incomm[q]
    <3>1. incomm' = incomm
      BY <1>0, <2>1, <2>2
    <3>2. pc'[n] \notin CommPc
      BY <1>2, <2>1, <2>2 DEF WaitPc, CommPc
    <3> QED
      BY <1>1, <1>2, <3>1, <3>2 DEF InComm, CommPc
  <2>3. CASE ~incomm[q]
    <3>1. \A m \in Node : ~InComm(m, q)
      BY <1>0, <2>3 DEF CommExclusive
    <3>2. InComm(n, q)' /\ \A r \in Queue \ {q} : ~InComm(n, r)' /\ ~InComm(n, r)
      BY <1>2, <2>1, <2>3 DEF InComm, CommPc
    <3>3. \A m \in Node \ {n}, r \in Queue : InComm(m, r)' <=> InComm(m, r)
      BY <1>2, OwnStep DEF InComm, CommPc
    <3>4. incomm'[q] /\ \A r \in Queue \ {q} : incomm'[r] = incomm[r]
      BY <1>0, <2>1
    <3>5. \A m \in Node : InComm(m, q)' <=> m = n
      BY <3>1, <3>2, <3>3
    <3>6. \A r \in Queue \ {q}, m \in Node : InComm(m, r)' <=> InComm(m, r)
      BY <3>2, <3>3
    <3> HIDE DEF InComm
    <3> QED
      BY <1>0, <3>4, <3>5, <3>6 DEF CommExclusive
  <2> QED
    BY <2>2, <2>3
<1>3. ASSUME NEW n \in Node, Begin(n) \/ Exit(n) PROVE CommExclusive'
  BY <1>0, <1>1, <1>3 DEF Begin, Exit, tvars, InComm, CommPc, Goto
<1>4. ASSUME NEW n \in Node, GetPtr(n) PROVE CommExclusive'
  <2> DEFINE q == op[n].q  d == op[n].d  w == op[n].want
  <2>0. Step(n) /\ pc[n] = "get" /\ q \in Queue
    BY <1>0, <1>4 DEF Step, GetPtr, OwnsEnd, OpPc
  <2>1. CASE GetReady(n, q, d, w) \/ GetBroken(n, q, d, w) \/ GetGrow(n, q, d, w)
    BY <1>0, <1>1, <2>0, <2>1
       DEF GetReady, GetBroken, GetGrow, tvars, InComm, CommPc, Goto
  <2>2. CASE GetBlock(n, q, d, w)
    <3>1. TakeComm(n, q, "blockwait", "blocktag")
      BY <2>2 DEF GetBlock
    <3>2. PICK s : op' = [op EXCEPT ![n] = [@ EXCEPT !.size = s]]
      BY <2>2 DEF GetBlock
    <3>3. op'[n].q = q
      BY <1>0, <3>2, OpSize
    <3> QED
      BY <1>2, <2>0, <3>1, <3>3 DEF CommPc, WaitPc
  <2> QED
    BY <1>4, <2>1, <2>2 DEF GetPtr
<1>5. ASSUME NEW n \in Node, CommWait(n) PROVE CommExclusive'
  <2>1. Step(n) /\ op' = op /\ op[n].q \in Queue /\ pc[n] \in {"blockwait", "transwait"}
    BY <1>0, <1>5 DEF Step, CommWait, OwnsEnd, OpPc, WaitPc
  <2>2. TakeComm(n, op[n].q, pc[n], IF pc[n] = "blockwait" THEN "blocktag" ELSE "transtag")
    BY <1>5 DEF CommWait
  <2> QED
    BY <1>2, <2>1, <2>2 DEF CommPc, WaitPc
<1>6. ASSUME NEW n \in Node, GetPublicTag(n) \/ Block(n) \/ Transmit(n)
      PROVE  CommExclusive'
  BY <1>0, <1>1, <1>6 DEF Step, GetPublicTag, Block, Transmit, InComm, CommPc, Goto
<1>7. ASSUME NEW n \in Node, SignalTagChanged(n) PROVE CommExclusive'
  BY <1>0, <1>1, <1>7 DEF Step, SignalTagChanged, SignalEnd, InComm, CommPc
<1>8. ASSUME NEW n \in Node, EndComm(n) PROVE CommExclusive'
  <2>0. PICK q \in Queue : q = op[n].q
    BY <1>0, <1>8 DEF EndComm, OwnsEnd, OpPc, CommPc
  <2>1. q \in Queue /\ InComm(n, q) /\ Step(n)
    BY <1>0, <1>8, <2>0 DEF EndComm, OwnsEnd, OpPc, InComm, CommPc, Step
  <2>2. incomm' = [incomm EXCEPT ![q] = FALSE] /\ pc'[n] \notin CommPc
    BY <1>0, <1>8, <2>0 DEF EndComm, Goto, CommPc
  <2>3. \A m \in Node \ {n} : ~InComm(m, q)
    BY <1>0, <2>1 DEF CommExclusive
  <2>4. \A m \in Node \ {n}, r \in Queue : InComm(m, r)' <=> InComm(m, r)
    BY <2>1, OwnStep DEF InComm, CommPc
  <2>5. \A r \in Queue : ~InComm(n, r)'
    BY <2>2 DEF InComm, CommPc
  <2>6. \A r \in Queue \ {q} : ~InComm(n, r)
    BY <2>1 DEF InComm
  <2>7. \A r \in Queue \ {q}, m \in Node : InComm(m, r)' <=> InComm(m, r)
    BY <2>4, <2>5, <2>6
  <2>8. \A m \in Node : ~InComm(m, q)'
    BY <2>3, <2>4, <2>5
  <2>9. ~incomm'[q] /\ \A r \in Queue \ {q} : incomm'[r] = incomm[r]
    BY <1>0, <2>1, <2>2
  <2>10. ASSUME NEW r \in Queue
        PROVE  /\ incomm'[r] <=> \E m \in Node : InComm(m, r)'
               /\ \A k, m \in Node : InComm(k, r)' /\ InComm(m, r)' => k = m
    <3>1. CASE r = q
      BY <2>8, <2>9, <3>1
    <3>2. CASE r # q
      <4>1. /\ incomm[r] <=> \E m \in Node : InComm(m, r)
            /\ \A k, m \in Node : InComm(k, r) /\ InComm(m, r) => k = m
        BY <1>0 DEF CommExclusive
      <4> QED
        BY <2>7, <2>9, <3>2, <4>1
    <3> QED
      BY <3>1, <3>2
  <2> QED
    BY <2>10 DEF CommExclusive
<1>9. ASSUME NEW n \in Node, Loop(n) PROVE CommExclusive'
  <2> DEFINE q == op[n].q  d == op[n].d
  <2>0. Step(n) /\ pc[n] = "loop" /\ q \in Queue
    BY <1>0, <1>9 DEF Step, Loop, OwnsEnd, OpPc, WaitPc
  <2>1. CASE LoopActivate(n, q, d) \/ LoopWait(n, q, d)
    BY <1>0, <1>1, <2>0, <2>1 DEF LoopActivate, LoopWait, tvars, InComm, CommPc, Goto
  <2>2. CASE LoopTransmit(n, q, d)
    BY <1>2, <2>0, <2>2 DEF LoopTransmit, CommPc, WaitPc
  <2> QED
    BY <1>9, <2>1, <2>2 DEF Loop
<1>10. ASSUME NEW n \in Node, Transfer(n) \/ Shutdown(n) PROVE CommExclusive'
  BY <1>0, <1>1, <1>10 DEF Step, Transfer, Shutdown, tvars, InComm, CommPc, Goto
<1>11. CASE UNCHANGED vars
  BY <1>0, <1>11 DEF vars, tvars, CommExclusive, InComm, CommPc
<1> QED
  BY <1>3, <1>4, <1>5, <1>6, <1>7, <1>8, <1>9, <1>10, <1>11 DEF Next, Step, Finished

(* Whom a step of node n leaves asleep, it leaves with the reason to sleep.*)
LEMMA SleepersKept ==
  ASSUME IInv, NEW n \in Node, Begin(n) \/ Step(n) \/ Exit(n),
         NEW m \in Node \ {n}, NEW q \in Queue, NEW d \in End,
         pc[m] \in OpPc, q = op[m].q, d = op[m].d, asleep'[m]
  PROVE  /\ asleep[m]
         /\ Blocked(q, d) => Blocked(q, d)'
         /\ ~changed[q][d] => ~changed'[q][d]
         /\ incomm[q] => incomm'[q]
<1>0. /\ count \in [Queue -> Nat] /\ length \in [Queue -> Nat]
      /\ request \in [Queue -> [End -> Nat]]
      /\ readshutdown \in [Queue -> BOOLEAN] /\ writeshutdown \in [Queue -> BOOLEAN]
      /\ changed \in [Queue -> [End -> BOOLEAN]]
      /\ incomm \in [Queue -> BOOLEAN] /\ asleep \in [Node -> BOOLEAN]
      /\ op \in [Node -> Op] /\ OwnsEnd
  BY DEF IInv, TypeOK
<1>1. ASSUME pc[n] \in OpPc
      PROVE  /\ op[n].q \in Queue /\ op[n].d \in End /\ op[n].want \in Nat
             /\ op[n].q = q => op[n].d # d
  <2>1. op[n].q \in Queue /\ op[n].d \in End /\ op[n].want \in Nat
    BY <1>0, <1>1, OpFacts DEF OwnsEnd
  <2> QED
    BY <1>0, <1>1, <2>1, OneNodePerEnd
<1>2. ASSUME NEW r, asleep' = Wake(r) PROVE asleep[m] /\ r # q
  BY <1>0, <1>2 DEF Wake
<1>3. ASSUME UNCHANGED qvars PROVE Blocked(q, d) => Blocked(q, d)'
  BY <1>3 DEF qvars, Blocked, Avail, Shut
<1>4. CASE Begin(n) \/ Exit(n) \/ GetPublicTag(n) \/ Block(n) \/ Transmit(n)
  BY <1>0, <1>3, <1>4 DEF Begin, Exit, GetPublicTag, Block, Transmit, tvars
<1>5. CASE GetPtr(n)
  <2> DEFINE r == op[n].q  e == op[n].d  w == op[n].want
  <2>0. r \in Queue /\ e \in End /\ w \in Nat /\ (r = q => e # d)
    BY <1>1, <1>5 DEF GetPtr, OpPc
  <2>1. CASE GetReady(n, r, e, w) \/ GetBroken(n, r, e, w)
    BY <1>0, <1>3, <2>1 DEF GetReady, GetBroken, tvars
  <2>2. CASE GetGrow(n, r, e, w)
    <3>1. asleep[m] /\ r # q
      BY <1>2, <2>2 DEF GetGrow
    <3> QED
      BY <1>0, <2>0, <2>2, <3>1 DEF GetGrow, tvars, Blocked, Avail, Shut
  <2>3. CASE GetBlock(n, r, e, w)
    <3>1. asleep[m] /\ (incomm[q] => incomm'[q])
      BY <1>0, <2>0, <2>3 DEF GetBlock, TakeComm
    <3>2. /\ request'[q][d] = request[q][d] /\ (~changed[q][d] => ~changed'[q][d])
      BY <1>0, <2>0, <2>3 DEF GetBlock
    <3> QED
      BY <2>3, <3>1, <3>2 DEF GetBlock, Blocked, Avail, Shut
  <2> QED
    BY <1>5, <2>1, <2>2, <2>3 DEF GetPtr
<1>6. CASE CommWait(n)
  BY <1>0, <1>1, <1>3, <1>6 DEF CommWait, TakeComm, OpPc, WaitPc
<1>7. CASE SignalTagChanged(n)
  <2>1. PICK r \in Queue, e \in End : SignalEnd(n, r, e)
    BY <1>7 DEF SignalTagChanged, IInv, TypeOK
  <2>2. asleep[m] /\ r # q
    BY <1>2, <2>1 DEF SignalEnd
  <2> QED
    BY <1>0, <1>3, <2>1, <2>2 DEF SignalEnd, Other
<1>8. CASE EndComm(n)
  <2>1. asleep[m] /\ op[n].q # q /\ op[n].q \in Queue
    BY <1>1, <1>2, <1>8 DEF EndComm, OpPc, CommPc
  <2>2. length'[q] = length[q]
    BY <1>0, <1>8, <2>1 DEF EndComm
  <2>3. incomm'[q] = incomm[q]
    BY <1>0, <1>8, <2>1 DEF EndComm
  <2> QED
    BY <1>8, <2>1, <2>2, <2>3 DEF EndComm, Blocked, Avail, Shut
<1>9. CASE Loop(n)
  <2> DEFINE r == op[n].q  e == op[n].d
  <2>0. r \in Queue /\ e \in End /\ (r = q => e # d)
    BY <1>1, <1>9 DEF Loop, OpPc, WaitPc
  <2>1. CASE LoopActivate(n, r, e)
    <3>1. request'[q][d] = request[q][d]
      BY <1>0, <2>0, <2>1 DEF LoopActivate
    <3> QED
      BY <2>1, <3>1 DEF LoopActivate, tvars, Blocked, Avail, Shut
  <2>2. CASE LoopTransmit(n, r, e)
    BY <1>0, <1>3, <2>0, <2>2 DEF LoopTransmit, TakeComm
  <2>3. CASE LoopWait(n, r, e)
    BY <1>0, <1>3, <2>3 DEF LoopWait, tvars
  <2> QED
    BY <1>9, <2>1, <2>2, <2>3 DEF Loop
<1>10. CASE Transfer(n)
  <2> DEFINE r == op[n].q  e == op[n].d  w == op[n].want
  <2>0. r \in Queue /\ e \in End /\ w \in Nat /\ (r = q => e # d)
    BY <1>1, <1>10 DEF Transfer, OpPc
  <2>1. /\ UNCHANGED <<length, readshutdown, writeshutdown, request, changed, incomm>>
        /\ count' = [count EXCEPT ![r] = IF e = "read" THEN @ - w ELSE @ + w]
        /\ asleep' = IF Avail(r, Other(e)) + w >= request[r][Other(e)]
                       THEN Wake(r) ELSE asleep
    BY <1>10 DEF Transfer, Notify, tvars
  <2>2. asleep[m]
    BY <1>2, <2>1
  <2>3. CASE r # q
    BY <1>0, <2>0, <2>1, <2>2, <2>3 DEF Blocked, Avail, Shut
  <2>4. CASE r = q
    <3>1. Other(e) = d
      BY <2>0, <2>4 DEF Other
    <3>2. ~(Avail(q, d) + w >= request[q][d])
      BY <1>2, <2>1, <2>4, <3>1
    <3>3. Avail(q, d)' = Avail(q, d) + w
      BY <1>0, <2>0, <2>1, <2>4 DEF Avail
    <3>4. Avail(q, d) \in Int /\ request[q][d] \in Nat /\ request' = request
      BY <1>0, <2>1 DEF Avail
    <3>5. Avail(q, d)' < request'[q][d]
      BY <2>0, <3>2, <3>3, <3>4
    <3> QED
      BY <2>1, <2>2, <3>5 DEF Blocked, Shut
  <2> QED
    BY <2>3, <2>4
<1>11. CASE Shutdown(n)
  <2>1. ASSUME NEW r \in Queue, asleep' = Wake(r),
               \/ readshutdown' = [readshutdown EXCEPT ![r] = TRUE] /\ UNCHANGED writeshutdown
               \/ writeshutdown' = [writeshutdown EXCEPT ![r] = TRUE] /\ UNCHANGED readshutdown
        PROVE  /\ asleep[m]
               /\ readshutdown'[q] = readshutdown[q] /\ writeshutdown'[q] = writeshutdown[q]
    <3>1. asleep[m] /\ r # q
      BY <1>2, <2>1
    <3> QED
      BY <1>0, <2>1, <3>1
  <2>2. asleep[m] /\ readshutdown'[q] = readshutdown[q] /\ writeshutdown'[q] = writeshutdown[q]
    <3>1. pendR[n] \subseteq Queue /\ pendW[n] \subseteq Queue
      BY DEF IInv, TypeOK
    <3> QED
      BY <1>11, <2>1, <3>1 DEF Shutdown
  <2> QED
    BY <1>11, <2>2 DEF Shutdown, tvars, Blocked, Avail, Shut
<1> QED
  BY <1>4, <1>5, <1>6, <1>7, <1>8, <1>9, <1>10, <1>11 DEF Step

(* A node falls asleep only with a reason.                                 *)
LEMMA FallAsleep ==
  ASSUME IInv, NEW n \in Node, Begin(n) \/ Step(n) \/ Exit(n), asleep'[n]
  PROVE  LET q == op'[n].q  d == op'[n].d IN
         \/ pc'[n] = "loop" /\ Blocked(op[n].q, op[n].d)' /\ ~changed'[q][d]
         \/ pc'[n] \in {"blockwait", "transwait"} /\ incomm'[q]
<1>0. /\ incomm \in [Queue -> BOOLEAN] /\ asleep \in [Node -> BOOLEAN]
      /\ pc \in [Node -> Pc] /\ op \in [Node -> Op] /\ OwnsEnd
  BY DEF IInv, TypeOK
<1>1. asleep[n] => pc[n] \in {"loop", "blockwait", "transwait"}
  BY DEF IInv, NoLostWakeup
<1>2. ASSUME \/ asleep' = asleep
             \/ \E r : asleep' = Wake(r)
      PROVE  asleep[n]
  BY <1>0, <1>2 DEF Wake
<1>3. ASSUME NEW q \in Queue, op'[n].q = q, NEW taken,
             NEW waiting \in {"blockwait", "transwait"}, TakeComm(n, q, waiting, taken)
      PROVE  pc'[n] \in {"blockwait", "transwait"} /\ incomm'[op'[n].q]
  BY <1>0, <1>3 DEF TakeComm, Goto
<1>4. ASSUME pc[n] \in OpPc PROVE op[n].q \in Queue
  BY <1>0, <1>4 DEF OwnsEnd
<1>5. ~(Begin(n) \/ Exit(n) \/ GetPublicTag(n) \/ Block(n) \/ Transmit(n))
  BY <1>1, <1>2 DEF Begin, Exit, GetPublicTag, Block, Transmit
<1>6. CASE GetPtr(n)
  <2> DEFINE q == op[n].q  d == op[n].d  w == op[n].want
  <2>1. ~(GetReady(n, q, d, w) \/ GetBroken(n, q, d, w) \/ GetGrow(n, q, d, w))
    BY <1>1, <1>2, <1>6 DEF GetPtr, GetReady, GetBroken, GetGrow
  <2>2. CASE GetBlock(n, q, d, w)
    <3>1. PICK s : op' = [op EXCEPT ![n] = [@ EXCEPT !.size = s]]
      BY <2>2 DEF GetBlock
    <3>2. op'[n].q = q
      BY <1>0, <3>1, OpSize
    <3>3. q \in Queue /\ TakeComm(n, q, "blockwait", "blocktag")
      BY <1>4, <1>6, <2>2 DEF GetBlock, GetPtr, OpPc
    <3> QED
      BY <1>3, <3>2, <3>3
  <2> QED
    BY <1>6, <2>1, <2>2 DEF GetPtr
<1>7. CASE CommWait(n)
  BY <1>3, <1>4, <1>7 DEF CommWait, OpPc, WaitPc
<1>8. ~SignalTagChanged(n)
  BY <1>1, <1>2 DEF SignalTagChanged, SignalEnd
<1>9. ~EndComm(n)
  BY <1>1, <1>2 DEF EndComm
<1>10. CASE Loop(n)
  <2> DEFINE q == op[n].q  d == op[n].d
  <2>1. q \in Queue /\ pc[n] = "loop" /\ ~asleep[n]
    BY <1>4, <1>10 DEF Loop, OpPc, WaitPc
  <2>2. ~LoopActivate(n, q, d)
    BY <2>1 DEF LoopActivate
  <2>3. CASE LoopTransmit(n, q, d)
    BY <1>3, <2>1, <2>3 DEF LoopTransmit
  <2>4. CASE LoopWait(n, q, d)
    BY <2>1, <2>4 DEF LoopWait, qvars, tvars, Blocked, Avail, Shut
  <2> QED
    BY <1>10, <2>2, <2>3, <2>4 DEF Loop
<1>11. ~Transfer(n)
  BY <1>1, <1>2 DEF Transfer, Notify
<1>12. ~Shutdown(n)
  BY <1>1, <1>2 DEF Shutdown
<1> QED
  BY <1>5, <1>6, <1>7, <1>8, <1>9, <1>10, <1>11, <1>12 DEF Step

(* NoLostWakeup is preserved: who stays asleep keeps its reason, and who   *)
(* falls asleep has one.                                                   *)
LEMMA WakeupStep == IInv /\ [Next]_vars => NoLostWakeup'
<1> SUFFICES ASSUME IInv, [Next]_vars PROVE NoLostWakeup'
  OBVIOUS
<1>1. ASSUME NEW n \in Node, Begin(n) \/ Step(n) \/ Exit(n),
             NEW m \in Node, asleep'[m]
      PROVE  \/ pc'[m] = "loop" /\ Blocked(op[m].q, op[m].d)' /\ ~changed'[op'[m].q][op'[m].d]
             \/ pc'[m] \in {"blockwait", "transwait"} /\ incomm'[op'[m].q]
  <2>1. CASE m = n
    BY <1>1, <2>1, FallAsleep
  <2>2. CASE m # n
    <3>0. op \in [Node -> Op] /\ OwnsEnd /\ NoLostWakeup
      BY DEF IInv, TypeOK
    <3>1. pc'[m] = pc[m] /\ op'[m] = op[m]
      BY <1>1, <2>2, OwnStep
    <3>2. CASE pc[m] \notin OpPc
      <4>1. ~asleep[m]
        BY <3>0, <3>2 DEF NoLostWakeup, OpPc, WaitPc
      <4>2. asleep'[m] => asleep[m]
        BY <1>1, <2>2
           DEF IInv, TypeOK, Step, Begin, Exit, GetPtr, GetReady, GetBroken, GetGrow, GetBlock,
               CommWait, TakeComm, GetPublicTag, Block, Transmit, SignalTagChanged,
               SignalEnd, EndComm, Loop, LoopActivate, LoopTransmit, LoopWait,
               Transfer, Notify, Shutdown, Wake
      <4> QED
        BY <1>1, <4>1, <4>2
    <3>3. CASE pc[m] \in OpPc
      <4>1. PICK q \in Queue, d \in End : q = op[m].q /\ d = op[m].d
        BY <3>0, <3>3, OpFacts DEF OwnsEnd
      <4>2. /\ asleep[m] /\ (Blocked(q, d) => Blocked(q, d)')
            /\ ~changed[q][d] => ~changed'[q][d]
            /\ incomm[q] => incomm'[q]
        BY <1>1, <2>2, <3>3, <4>1, SleepersKept
      <4>3. \/ pc[m] = "loop" /\ Blocked(q, d) /\ ~changed[q][d]
            \/ pc[m] \in {"blockwait", "transwait"} /\ incomm[q]
        BY <3>0, <4>1, <4>2 DEF NoLostWakeup
      <4>4. Blocked(q, d)' <=> Blocked(op[m].q, op[m].d)'
        BY <3>1, <4>1 DEF Blocked, Avail, Shut
      <4> QED
        BY <3>1, <4>1, <4>2, <4>3, <4>4
    <3> QED
      BY <3>2, <3>3
  <2> QED
    BY <2>1, <2>2
<1>2. ASSUME NEW n \in Node, Begin(n) \/ Step(n) \/ Exit(n) PROVE NoLostWakeup'
  BY <1>1, <1>2 DEF NoLostWakeup
<1>3. CASE UNCHANGED vars
  BY <1>3 DEF IInv, vars, qvars, tvars, NoLostWakeup, Blocked, Avail, Shut
<1> QED
  BY <1>2, <1>3 DEF Next, Finished

---------------------------------------------------------------------------
(* The inductive invariant of D4R holds in every reachable state of every  *)
(* network.                                                                *)
THEOREM Invariance == Spec => []IInv
<1>1. IInv /\ [Next]_vars => IInv'
  BY TypeStep, OwnsEndStep, StillThereStep, CommStep, WakeupStep DEF IInv
<1> QED
  BY InitIInv, <1>1, PTL DEF Spec

(* Every variable keeps its type, and no queue ever holds more elements    *)
(* than its length: what GetRaw{De,En}queuePtr has found is still there in *)
(* Dequeue or Enqueue, although the lock has been released in between.     *)
THEOREM TypeCorrect == Spec => []TypeOK
<1>1. IInv => TypeOK
  BY DEF IInv
<1> QED
  BY Invariance, <1>1, PTL

(* incomm, a flag handled under the queue's lock but held across the calls *)
(* that give it up, is a correct mutual exclusion of the two ends.         *)
THEOREM CommIsExclusive == Spec => []CommExclusive
<1>1. IInv => CommExclusive
  BY DEF IInv
<1> QED
  BY Invariance, <1>1, PTL

(* No thread sleeps on a queue's condition variable without a reason: the  *)
(* conditional broadcasts of Enqueue and Dequeue, the tag signals and the  *)
(* release of incomm lose no wakeup, in any network.                       *)
THEOREM NoWakeupIsLost == Spec => []NoLostWakeup
<1>1. IInv => NoLostWakeup
  BY DEF IInv
<1> QED
  BY Invariance, <1>1, PTL

---------------------------------------------------------------------------
(* The order of the tags, and what a node may conclude from the tag of its *)
(* peer.                                                                   *)
AtMost(a, b) == a = b \/ TagLess(a, b)

(* A node's own tag carries the node's key, in the label and as priority.  *)
OwnTag == \A n \in Node : privateTag[n].key = n /\ privateTag[n].qkey = n

(* The tag that Transmit is about to look at is no newer than the peer's.  *)
TagRead ==
  \A n \in Node : pc[n] = "transmit" => AtMost(tag[n], publicTag[Peer(n)])

(* A node that has detected a deadlock holds a tag with its own priority,  *)
(* and its peer has at least that tag.                                     *)
Detected ==
  \A n \in Node : detect[n] =>
    /\ pc[n] = "signal" /\ publicTag[n].qkey = n
    /\ AtMost(publicTag[n], publicTag[Peer(n)])

TagInv == OwnTag /\ TagRead /\ Detected

(* Labels first, then priorities the other way round: a strict total order.*)
LEMMA TagOrder ==
  ASSUME NEW a \in Tag, NEW b \in Tag, NEW c \in Tag
  PROVE  /\ AtMost(a, a)
         /\ AtMost(a, b) /\ AtMost(b, c) => AtMost(a, c)
         /\ AtMost(a, b) /\ AtMost(b, a) => a = b
<1> DEFINE F(x) == x.count \in Nat /\ x.key \in Nat /\ x.qsize \in Nat /\ x.qkey \in Nat
<1>1. F(a) /\ F(b) /\ F(c)
  BY DEF Tag
<1>2. TagLess(a, b) /\ TagLess(b, c) => TagLess(a, c)
  BY <1>1, Z3 DEF TagLess, PairLess, PriorityLess
<1>3. ~(TagLess(a, b) /\ TagLess(b, a))
  BY <1>1, Z3 DEF TagLess, PairLess, PriorityLess
<1> HIDE DEF F
<1> QED
  BY <1>2, <1>3 DEF AtMost

(* Block's tag is above the public tag; Transmit's is not below the one it *)
(* is made of, whose label it keeps.                                       *)
LEMMA TagsMade ==
  /\ \A a, b, c \in Tag, s \in Nat :
       LET t == BlockTag(a, b, c, s)
       IN  TagLess(b, t) /\ t.key = a.key /\ t.qkey = a.qkey
  /\ \A a, t \in Tag : AtMost(t, TransmitTag(a, t))
<1>1. ASSUME NEW a \in Tag, NEW b \in Tag, NEW c \in Tag, NEW s \in Nat
      PROVE  LET t == BlockTag(a, b, c, s)
             IN  TagLess(b, t) /\ t.key = a.key /\ t.qkey = a.qkey
  <2> DEFINE t == BlockTag(a, b, c, s)
  <2>1. t.key = a.key /\ t.qkey = a.qkey /\ t.count = Larger(b.count, c.count) + 1
    BY DEF BlockTag, Tag
  <2>2. t.count > b.count /\ b.count \in Nat /\ t.count \in Nat
    BY <2>1 DEF Larger, Tag
  <2> HIDE DEF t
  <2>3. TagLess(b, t)
    BY <2>2 DEF TagLess, PairLess
  <2> QED
    BY <2>1, <2>3 DEF t
<1>2. ASSUME NEW a \in Tag, NEW t \in Tag PROVE AtMost(t, TransmitTag(a, t))
  <2> DEFINE u == TransmitTag(a, t)
  <2>1. CASE ~PriorityLess(a, t)
    BY <2>1 DEF TransmitTag, AtMost
  <2>2. CASE PriorityLess(a, t)
    <3>1. u.count = t.count /\ u.key = t.key /\ u.qsize = a.qsize /\ u.qkey = a.qkey
      BY <2>2 DEF TransmitTag, Tag
    <3>2. PriorityLess(u, t)
      BY <2>2, <3>1 DEF PriorityLess
    <3> HIDE DEF u
    <3>3. TagLess(t, u)
      BY <3>1, <3>2 DEF TagLess
    <3> QED
      BY <3>3 DEF u, AtMost
  <2> QED
    BY <2>1, <2>2
<1> QED
  BY <1>1, <1>2

(* The public tags after a step: the tag of the node that takes it moves   *)
(* up or stays, the others stay.                                           *)
LEMMA PublicTagStep ==
  ASSUME IInv, NEW n \in Node, Begin(n) \/ Step(n) \/ Exit(n)
  PROVE  /\ \A m \in Node \ {n} : publicTag'[m] = publicTag[m]
         /\ publicTag'[n] = publicTag[n] \/ TagLess(publicTag[n], publicTag'[n])
<1>0. publicTag \in [Node -> Tag] /\ privateTag \in [Node -> Tag] /\ tag \in [Node -> Tag]
  BY DEF IInv, TypeOK
<1>1. CASE Block(n)
  <2> DEFINE new == BlockTag(privateTag[n], publicTag[n], tag[n], op[n].size)
  <2>1. op[n].size \in Nat
    BY OpFacts DEF IInv, TypeOK
  <2>2. TagLess(publicTag[n], new)
    BY <1>0, <2>1, TagsMade
  <2>3. publicTag' = [publicTag EXCEPT ![n] = new]
    BY <1>1 DEF Block
  <2> HIDE DEF new
  <2> QED
    BY <1>0, <2>2, <2>3
<1>2. CASE Transmit(n)
  <2> DEFINE new == TransmitTag(privateTag[n], tag[n])
  <2>1. AtMost(tag[n], new) /\ new \in Tag
    BY <1>0, TagsMade, TagFacts
  <2>2. \/ publicTag' = publicTag
        \/ publicTag' = [publicTag EXCEPT ![n] = new] /\ TagLess(publicTag[n], tag[n])
    BY <1>2 DEF Transmit
  <2> HIDE DEF new
  <2>3. TagLess(publicTag[n], tag[n]) => AtMost(publicTag[n], new)
    BY <1>0, <2>1, TagOrder DEF AtMost
  <2> QED
    BY <1>0, <2>2, <2>3 DEF AtMost
<1>3. CASE ~Block(n) /\ ~Transmit(n)
  <2>1. publicTag' = publicTag
    BY <1>3 DEF Begin, Step, Exit, GetPtr, GetReady, GetBroken, GetGrow, GetBlock,
                CommWait, GetPublicTag, SignalTagChanged, SignalEnd, EndComm, Loop,
                LoopActivate, LoopTransmit, LoopWait, Transfer, Shutdown, tvars
  <2> QED
    BY <2>1
<1> QED
  BY <1>1, <1>2, <1>3

(* Away from the exchange of tags, nothing that TagInv is about changes.   *)
LEMMA OtherTagStep ==
  ASSUME IInv, NEW n \in Node, Begin(n) \/ Step(n) \/ Exit(n),
         ~Block(n), ~Transmit(n), ~GetPublicTag(n), ~EndComm(n), ~SignalTagChanged(n)
  PROVE  /\ privateTag' = privateTag /\ publicTag' = publicTag
         /\ tag' = tag /\ detect' = detect
         /\ pc[n] \notin {"transmit", "signal"} /\ pc'[n] # "transmit"
         /\ \A m \in Node \ {n} : pc'[m] = pc[m] /\ op'[m] = op[m]
<1>0. pc \in [Node -> Pc] /\ op \in [Node -> Op]
  BY DEF IInv, TypeOK
<1>1. CASE Begin(n)
  BY <1>0, <1>1 DEF Begin, Goto, tvars
<1>2. CASE Exit(n)
  BY <1>0, <1>2 DEF Exit, Goto, tvars
<1>3. CASE GetPtr(n)
  <2> DEFINE q == op[n].q  d == op[n].d  w == op[n].want
  <2>1. CASE GetReady(n, q, d, w)
    BY <1>0, <1>3, <2>1 DEF GetPtr, GetReady, Goto, tvars
  <2>2. CASE GetBroken(n, q, d, w)
    BY <1>0, <1>3, <2>2 DEF GetPtr, GetBroken, Goto, tvars
  <2>3. CASE GetGrow(n, q, d, w)
    BY <1>0, <1>3, <2>3 DEF GetPtr, GetGrow, Goto, tvars
  <2>4. CASE GetBlock(n, q, d, w)
    BY <1>0, <1>3, <2>4 DEF GetPtr, GetBlock, TakeComm, Goto, tvars
  <2> QED
    BY <1>3, <2>1, <2>2, <2>3, <2>4 DEF GetPtr
<1>4. CASE CommWait(n)
  BY <1>0, <1>4 DEF CommWait, TakeComm, Goto
<1>5. CASE Loop(n)
  <2> DEFINE q == op[n].q  d == op[n].d
  <2>1. CASE LoopActivate(n, q, d)
    BY <1>0, <1>5, <2>1 DEF Loop, LoopActivate, Goto, tvars
  <2>2. CASE LoopTransmit(n, q, d)
    BY <1>0, <1>5, <2>2 DEF Loop, LoopTransmit, TakeComm, Goto, tvars
  <2>3. CASE LoopWait(n, q, d)
    BY <1>0, <1>5, <2>3 DEF Loop, LoopWait, tvars
  <2> QED
    BY <1>5, <2>1, <2>2, <2>3 DEF Loop
<1>6. CASE Transfer(n)
  BY <1>0, <1>6 DEF Transfer, Goto, tvars
<1>7. CASE Shutdown(n)
  BY <1>0, <1>7 DEF Shutdown, Goto, tvars
<1> QED
  BY <1>1, <1>2, <1>3, <1>4, <1>5, <1>6, <1>7 DEF Step

(* What a node knows about its peer's tag stays true whoever moves.        *)
LEMMA TagInvStep == IInv /\ TagInv /\ [Next]_vars => TagInv'
<1> SUFFICES ASSUME IInv, TagInv, [Next]_vars PROVE TagInv'
  OBVIOUS
<1>0. /\ publicTag \in [Node -> Tag] /\ privateTag \in [Node -> Tag]
      /\ tag \in [Node -> Tag] /\ detect \in [Node -> BOOLEAN]
      /\ pc \in [Node -> Pc] /\ op \in [Node -> Op]
  BY DEF IInv, TypeOK
<1>1. publicTag' \in [Node -> Tag]
  BY TypeStep DEF TypeOK
<1>2. ASSUME NEW m \in Node, pc[m] \in {"blocktag", "transtag", "transmit", "signal"}
      PROVE  Peer(m) \in Node
  <2>1. op[m].q \in Queue
    BY <1>2 DEF IInv, OwnsEnd, OpPc, CommPc
  <2> QED
    BY <2>1 DEF Peer, Owner
<1>3. CASE UNCHANGED vars
  <2>1. UNCHANGED <<publicTag, privateTag, tag, detect, pc, op>>
    BY <1>3 DEF vars, tvars
  <2> QED
    BY <2>1 DEF TagInv, OwnTag, TagRead, Detected, Peer
<1>4. ASSUME NEW n \in Node, Begin(n) \/ Step(n) \/ Exit(n) PROVE TagInv'
  <2>1. /\ \A m \in Node \ {n} : publicTag'[m] = publicTag[m]
        /\ \A m \in Node : AtMost(publicTag[m], publicTag'[m])
    BY <1>4, PublicTagStep DEF AtMost
  (* A node that stays where it is, with what it has read.                 *)
  <2> DEFINE Stay(m) == /\ pc'[m] = pc[m] /\ op'[m] = op[m] /\ tag'[m] = tag[m]
                        /\ detect'[m] = detect[m] /\ publicTag'[m] = publicTag[m]
             Good(m) == /\ pc[m] = "transmit" => AtMost(tag[m], publicTag[Peer(m)])
                        /\ detect[m] =>
                             /\ pc[m] = "signal" /\ publicTag[m].qkey = m
                             /\ AtMost(publicTag[m], publicTag[Peer(m)])
  <2>2. ASSUME NEW m \in Node, Stay(m) PROVE Good(m)'
    <3>1. Peer(m)' = Peer(m)
      BY <2>2 DEF Peer
    <3>2. CASE pc[m] \notin {"transmit", "signal"}
      BY <2>2, <3>2 DEF TagInv, Detected
    <3>3. CASE pc[m] \in {"transmit", "signal"}
      <4>1. Peer(m) \in Node
        BY <1>2, <3>3
      <4>2. /\ AtMost(publicTag[Peer(m)], publicTag'[Peer(m)])
            /\ publicTag[Peer(m)] \in Tag /\ publicTag'[Peer(m)] \in Tag
            /\ publicTag[m] \in Tag /\ tag[m] \in Tag
        BY <1>0, <1>1, <2>1, <4>1
      <4>3. /\ AtMost(tag[m], publicTag[Peer(m)]) => AtMost(tag[m], publicTag'[Peer(m)])
            /\ AtMost(publicTag[m], publicTag[Peer(m)])
                 => AtMost(publicTag[m], publicTag'[Peer(m)])
        BY <4>2, TagOrder
      <4> QED
        BY <2>2, <3>1, <4>3 DEF TagInv, TagRead, Detected
    <3> QED
      BY <3>2, <3>3
  <2>3. CASE Block(n)
    <3>1. /\ privateTag' = [privateTag EXCEPT ![n] =
                 BlockTag(privateTag[n], publicTag[n], tag[n], op[n].size)]
          /\ detect' = detect /\ op' = op /\ pc' = [pc EXCEPT ![n] = "signal"]
          /\ pc[n] = "block" /\ tag' = [tag EXCEPT ![n] = InitTag(n)]
      BY <2>3 DEF Block, Goto
    <3>2. op[n].size \in Nat
      BY OpFacts DEF IInv, TypeOK
    <3>3. OwnTag'
      BY <1>0, <3>1, <3>2, TagsMade DEF TagInv, OwnTag
    <3>4. \A m \in Node \ {n} : Stay(m)
      BY <1>0, <2>1, <3>1
    <3>5. Good(n)'
      BY <1>0, <3>1 DEF TagInv, Detected
    <3> QED
      BY <2>2, <3>3, <3>4, <3>5 DEF TagInv, TagRead, Detected
  <2>4. CASE Transmit(n)
    <3>1. /\ privateTag' = privateTag /\ op' = op /\ pc' = [pc EXCEPT ![n] = "signal"]
          /\ pc[n] = "transmit" /\ tag' = [tag EXCEPT ![n] = InitTag(n)]
      BY <2>4 DEF Transmit, Goto
    <3>2. \/ detect' = detect
          \/ /\ publicTag' = publicTag
             /\ detect' = [detect EXCEPT ![n] =
                   publicTag[n] = tag[n] /\ SamePriority(publicTag[n], privateTag[n])]
      BY <2>4 DEF Transmit
    <3>3. OwnTag'
      BY <3>1 DEF TagInv, OwnTag
    <3>4. \A m \in Node \ {n} : Stay(m)
      BY <1>0, <2>1, <3>1, <3>2
    <3>5. ~detect[n] /\ AtMost(tag[n], publicTag[Peer(n)])
      BY <3>1 DEF TagInv, TagRead, Detected
    <3>6. Good(n)'
      <4>1. pc'[n] = "signal" /\ Peer(n)' = Peer(n)
        BY <1>0, <3>1 DEF Peer
      <4>2. CASE detect' = detect
        BY <3>5, <4>1, <4>2
      <4>3. CASE /\ publicTag' = publicTag
                 /\ detect' = [detect EXCEPT ![n] =
                       publicTag[n] = tag[n] /\ SamePriority(publicTag[n], privateTag[n])]
        <5>1. detect'[n] => publicTag[n] = tag[n] /\ publicTag[n].qkey = privateTag[n].qkey
          BY <1>0, <4>3 DEF SamePriority
        <5> QED
          BY <3>5, <4>1, <4>3, <5>1 DEF TagInv, OwnTag
      <4> QED
        BY <3>2, <4>2, <4>3
    <3> QED
      BY <2>2, <3>3, <3>4, <3>6 DEF TagInv, TagRead, Detected
  <2>5. CASE GetPublicTag(n)
    <3>1. /\ privateTag' = privateTag /\ publicTag' = publicTag /\ op' = op /\ detect' = detect
          /\ pc' = [pc EXCEPT ![n] = IF pc[n] = "blocktag" THEN "block" ELSE "transmit"]
          /\ pc[n] \in {"blocktag", "transtag"}
          /\ tag' = [tag EXCEPT ![n] = publicTag[Peer(n)]]
      BY <2>5 DEF GetPublicTag, Goto
    <3>2. Peer(n) \in Node /\ Peer(n)' = Peer(n)
      BY <1>2, <3>1 DEF Peer
    <3>3. \A m \in Node \ {n} : Stay(m)
      BY <1>0, <3>1
    <3>4. Good(n)'
      BY <1>0, <3>1, <3>2 DEF TagInv, Detected, AtMost
    <3>5. OwnTag'
      BY <3>1 DEF TagInv, OwnTag
    <3> QED
      BY <2>2, <3>3, <3>4, <3>5 DEF TagInv, TagRead, Detected
  <2>6. CASE EndComm(n)
    <3>1. /\ privateTag' = privateTag /\ publicTag' = publicTag /\ tag' = tag
          /\ detect' = [detect EXCEPT ![n] = FALSE]
          /\ pc' = [pc EXCEPT ![n] = "exit"] \/ pc' = [pc EXCEPT ![n] = "loop"]
          /\ op' = op \/ op' = [op EXCEPT ![n] = NoOp]
      BY <2>6 DEF EndComm, Goto
    <3>2. \A m \in Node \ {n} : Stay(m)
      BY <1>0, <3>1
    <3>3. Good(n)'
      BY <1>0, <3>1
    <3>4. OwnTag'
      BY <3>1 DEF TagInv, OwnTag
    <3> QED
      BY <2>2, <3>2, <3>3, <3>4 DEF TagInv, TagRead, Detected
  <2>7. CASE SignalTagChanged(n)
    <3>1. UNCHANGED <<privateTag, publicTag, tag, detect, pc, op>>
      BY <2>7 DEF SignalTagChanged, SignalEnd
    <3> QED
      BY <3>1 DEF TagInv, OwnTag, TagRead, Detected, Peer
  <2>8. CASE /\ ~Block(n) /\ ~Transmit(n) /\ ~GetPublicTag(n) /\ ~EndComm(n)
             /\ ~SignalTagChanged(n)
    <3>1. /\ privateTag' = privateTag /\ publicTag' = publicTag
          /\ tag' = tag /\ detect' = detect
          /\ pc[n] \notin {"transmit", "signal"} /\ pc'[n] # "transmit"
          /\ \A m \in Node \ {n} : pc'[m] = pc[m] /\ op'[m] = op[m]
      BY <1>4, <2>8, OtherTagStep
    <3>2. \A m \in Node \ {n} : Stay(m)
      BY <3>1
    <3>3. Good(n)'
      BY <3>1 DEF TagInv, Detected
    <3>4. OwnTag'
      BY <3>1 DEF TagInv, OwnTag
    <3> QED
      BY <2>2, <3>2, <3>3, <3>4 DEF TagInv, TagRead, Detected
  <2> QED
    BY <2>3, <2>4, <2>5, <2>6, <2>7, <2>8
<1> QED
  BY <1>3, <1>4 DEF Next, Finished

LEMMA InitTagInv == Init => TagInv
BY DEF Init, TagInv, OwnTag, TagRead, Detected, InitTag

(* The invariants of the tags, with those of the queues.                   *)
THEOREM TagInvariance == Spec => [](IInv /\ TagInv)
<1>1. IInv /\ TagInv /\ [Next]_vars => (IInv /\ TagInv)'
  BY TypeStep, OwnsEndStep, StillThereStep, CommStep, WakeupStep, TagInvStep DEF IInv
<1> QED
  BY InitIInv, InitTagInv, <1>1, PTL DEF Spec

(* In every network, a node's public tag never goes back, whatever tags it *)
(* is handed by Block and Transmit.                                        *)
THEOREM TagsOnlyGrow == Spec => TagsGrow
<1>1. IInv /\ [Next]_vars =>
        [\A n \in Node : publicTag'[n] = publicTag[n]
                         \/ TagLess(publicTag[n], publicTag'[n])]_vars
  <2> SUFFICES ASSUME IInv, Next, NEW n \in Node
               PROVE  publicTag'[n] = publicTag[n] \/ TagLess(publicTag[n], publicTag'[n])
    OBVIOUS
  <2>1. CASE Finished
    BY <2>1 DEF Finished, vars, tvars
  <2>2. ASSUME NEW m \in Node, Begin(m) \/ Step(m) \/ Exit(m)
        PROVE  publicTag'[n] = publicTag[n] \/ TagLess(publicTag[n], publicTag'[n])
    BY <2>2, PublicTagStep
  <2> QED
    BY <2>1, <2>2 DEF Next
<1> QED
  BY Invariance, <1>1, PTL DEF Spec, TagsGrow

(* In every network, of two nodes that wait for each other at most one     *)
(* acts on a detection, although each acts on a tag of the other that may  *)
(* be out of date: if both did, each public tag would be at least the      *)
(* other, so both the same tag, with the priorities of two nodes.          *)
THEOREM OneOfTwoDetects == Spec => []OneOfTwo
<1>1. IInv /\ TagInv => OneOfTwo
  <2> SUFFICES ASSUME IInv, TagInv, NEW n \in Node, NEW m \in Node,
                      detect[n], detect[m], Peer(n) = m, Peer(m) = n
               PROVE  n = m
    BY DEF OneOfTwo
  <2>1. /\ publicTag[n] \in Tag /\ publicTag[m] \in Tag
        /\ AtMost(publicTag[n], publicTag[m]) /\ AtMost(publicTag[m], publicTag[n])
        /\ publicTag[n].qkey = n /\ publicTag[m].qkey = m
    BY DEF IInv, TypeOK, TagInv, Detected
  <2>2. publicTag[n] = publicTag[m]
    BY <2>1, TagOrder
  <2> QED
    BY <2>1, <2>2
<1> QED
  BY TagInvariance, <1>1, PTL
====
