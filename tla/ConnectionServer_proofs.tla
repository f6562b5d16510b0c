---------------------- MODULE ConnectionServer_proofs ----------------------
(***************************************************************************)
(* What ConnectionServer guarantees for every set of kernels and every set *)
(* of queues between them.                                                 *)
(***************************************************************************)
EXTENDS ConnectionServer, TLAPS

(* A kernel shuts its server down only when it has been told to, which     *)
(* comes after its context has terminated, and no queue is made from then. *)
ToldFirst ==
  \A k \in Kernel :
    /\ ker[k].told => terminated[k]
    /\ ker[k].pc \in {"close", "shutdown", "drain", "done"} => ker[k].told

(* The holder has a queue in its map exactly while its file thread runs,   *)
(* and in its list only after that.                                        *)
Held ==
  \A h \in Half : /\ h \in map <=> ft[h] \notin {"none", "gone"}
                  /\ h \in list => ft[h] = "gone"

(* Only writers dial, and only once.                                       *)
DialsOnce(h) ==
  /\ ft[h] \in {"look", "dial", "name"} => h[2] = "write"
  /\ conn[h[1]] # "none" /\ h[2] = "write" =>
       ft[h] \in {"name", "run", "exit", "gone"} \/ (ft[h] = "top" /\ dead[h])

(* The exception of DeadWhenDropped: the context threw the writer out.     *)
ThrownOut(h) == h[2] = "write" /\ terminated[KernelOf(h)] /\ conn[h[1]] = "none"

(* A file thread that has left its loop leaves a dead queue, and so it is  *)
(* destroyed dead.                                                         *)
EndedDead(h) ==
  /\ ft[h] \in {"exit", "gone"} => dead[h] \/ ThrownOut(h)
  /\ <<h, FALSE>> \in dropped => ft[h] = "gone" /\ ThrownOut(h)

Life(h) == DialsOnce(h) /\ EndedDead(h)
Lives   == \A h \in Half : Life(h)

(* A connection waits in the backlog, is being accepted, is in the future  *)
(* or is with the reader, and never in two of these places.                *)
Queued(k, q) == \E i \in 1..Len(backlog[k]) : backlog[k][i] = q

InBacklog ==
  \A k \in Kernel, q \in Queue : Queued(k, q) =>
    /\ k = Side[q]["read"] /\ conn[q] # "none" /\ ker[k].cur # q
    /\ ~pend[q].fd /\ ~sock[<<q, "read">>]

NoDuplicates ==
  \A k \in Kernel : \A i, j \in 1..Len(backlog[k]) : backlog[k][i] = backlog[k][j] => i = j

BeingAccepted ==
  \A k \in Kernel, q \in Queue : ker[k].cur = q =>
    k = Side[q]["read"] /\ conn[q] # "none" /\ ~pend[q].fd /\ ~sock[<<q, "read">>]

HandedOver ==
  \A q \in Queue : /\ pend[q].fd => conn[q] = "named" /\ ~sock[<<q, "read">>]
                   /\ sock[<<q, "read">>] => conn[q] = "named"

OnePlace == InBacklog /\ NoDuplicates /\ BeingAccepted /\ HandedOver

(* The kernel thread has a connection at hand exactly while it accepts it. *)
AtHand == \A k \in Kernel : ker[k].pc = "accept" <=> ker[k].cur # None

IInv ==
  TypeOK /\ AtHand /\ ToldFirst /\ Held /\ NoneLeft /\ Lives /\ OnePlace

-----------------------------------------------------------------------------
(* The halves of the queues.                                               *)
LEMMA Halves ==
  /\ \A h \in Half : /\ h[1] \in Queue /\ h[2] \in {"read", "write"} /\ h = <<h[1], h[2]>>
                     /\ KernelOf(h) \in Kernel
  /\ \A q \in Queue : /\ <<q, "read">> \in Half /\ <<q, "write">> \in Half
                      /\ <<q, "read">>[1] = q /\ <<q, "read">>[2] = "read"
                      /\ <<q, "write">>[1] = q /\ <<q, "write">>[2] = "write"
                      /\ Side[q]["read"] \in Kernel /\ Side[q]["write"] \in Kernel
BY SideAssumption DEF Half, KernelOf

(* What the updates of the records give.                                   *)
LEMMA KernelUpdates ==
  ASSUME NEW r \in KernelState
  PROVE  /\ \A p \in {"loop", "poll", "accept", "close", "shutdown", "drain", "done"} :
              LET s == [r EXCEPT !.pc = p]
              IN  s \in KernelState /\ s.pc = p /\ s.told = r.told /\ s.cur = r.cur
         /\ LET s == [r EXCEPT !.wake = TRUE]
            IN  s \in KernelState /\ s.pc = r.pc /\ s.told = r.told /\ s.cur = r.cur
         /\ LET s == [r EXCEPT !.told = TRUE, !.wake = TRUE]
            IN  s \in KernelState /\ s.pc = r.pc /\ s.told = TRUE /\ s.cur = r.cur
         /\ LET s == [r EXCEPT !.wake = FALSE, !.pc = "loop"]
            IN  s \in KernelState /\ s.pc = "loop" /\ s.told = r.told /\ s.cur = r.cur
         /\ \A q \in Queue :
              LET s == [r EXCEPT !.wake = FALSE, !.pc = "accept", !.cur = q]
              IN  s \in KernelState /\ s.pc = "accept" /\ s.told = r.told /\ s.cur = q
         /\ LET s == [r EXCEPT !.pc = "loop", !.cur = None]
            IN  s \in KernelState /\ s.pc = "loop" /\ s.told = r.told /\ s.cur = None
BY DEF KernelState

LEMMA PendingUpdates ==
  ASSUME NEW r \in Pending
  PROVE  /\ LET s == [r EXCEPT !.fd = FALSE] IN s \in Pending /\ s.fd = FALSE
         /\ LET s == [r EXCEPT !.done = TRUE, !.fd = TRUE] IN s \in Pending /\ s.fd = TRUE
         /\ LET s == [r EXCEPT !.canceled = TRUE] IN s \in Pending /\ s.fd = r.fd
BY DEF Pending

LEMMA NoPendingIs ==
  /\ NoPending \in Pending /\ NoPending.fd = FALSE
  /\ LET s == [NoPending EXCEPT !.there = TRUE] IN s \in Pending /\ s.fd = FALSE
  /\ \A b \in BOOLEAN : LET s == [NoPending EXCEPT !.there = TRUE, !.late = b]
                        IN  s \in Pending /\ s.fd = FALSE
BY DEF Pending, NoPending

LEMMA KernelSet ==
  ASSUME TypeOK, NEW k \in Kernel, NEW r \in KernelState, KSet(k, r)
  PROVE  /\ ker' \in [Kernel -> KernelState] /\ ker'[k] = r
         /\ \A j \in Kernel : j # k => ker'[j] = ker[j]
BY DEF TypeOK, KSet

LEMMA PendingSet ==
  ASSUME TypeOK, NEW q \in Queue, NEW r \in Pending, PSet(q, r)
  PROVE  /\ pend' \in [Queue -> Pending] /\ pend'[q] = r
         /\ \A x \in Queue : x # q => pend'[x] = pend[x]
BY DEF TypeOK, PSet

-----------------------------------------------------------------------------
(* What the actions do to ker and pend.                                    *)
KerSame == ker' \in [Kernel -> KernelState] /\ \A j \in Kernel :
             ker'[j].pc = ker[j].pc /\ ker'[j].told = ker[j].told /\ ker'[j].cur = ker[j].cur

KerMove(k, pc, told, cur) ==
  /\ ker' \in [Kernel -> KernelState]
  /\ ker'[k].pc = pc /\ ker'[k].told = told /\ ker'[k].cur = cur
  /\ \A j \in Kernel : j # k => ker'[j] = ker[j]

LEMMA KerMoveIs ==
  ASSUME TypeOK, NEW k \in Kernel, NEW r \in KernelState, KSet(k, r)
  PROVE  KerMove(k, r.pc, r.told, r.cur)
BY KernelSet DEF KerMove

LEMMA ExitKer ==
  ASSUME TypeOK, NEW h \in Half, Exit(h)
  PROVE  KerSame
<1> DEFINE k == KernelOf(h)
           r == [ker[k] EXCEPT !.wake = TRUE]
<1>1. k \in Kernel /\ ker[k] \in KernelState
  BY Halves DEF TypeOK
<1>2. r \in KernelState /\ r.pc = ker[k].pc /\ r.told = ker[k].told /\ r.cur = ker[k].cur
  BY <1>1, KernelUpdates
<1>3. KSet(k, r)
  BY DEF Exit
<1> HIDE DEF k, r
<1>4. KerMove(k, r.pc, r.told, r.cur)
  BY <1>1, <1>2, <1>3, KerMoveIs
<1> QED
  BY <1>1, <1>2, <1>4 DEF KerMove, KerSame

LEMMA KGoKer ==
  ASSUME TypeOK, NEW k \in Kernel,
         NEW p \in {"loop", "poll", "accept", "close", "shutdown", "drain", "done"}, KGo(k, p)
  PROVE  KerMove(k, p, ker[k].told, ker[k].cur)
<1> DEFINE r == [ker[k] EXCEPT !.pc = p]
<1>1. ker[k] \in KernelState
  BY DEF TypeOK
<1>2. r \in KernelState /\ r.pc = p /\ r.told = ker[k].told /\ r.cur = ker[k].cur
  BY <1>1 DEF KernelState
<1>3. KSet(k, r)
  BY DEF KGo
<1> HIDE DEF r
<1>4. KerMove(k, r.pc, r.told, r.cur)
  BY <1>2, <1>3, KerMoveIs
<1> QED
  BY <1>2, <1>4

LEMMA NotifyKer ==
  ASSUME TypeOK, NEW k \in Kernel, NotifyTerminate(k)
  PROVE  KerMove(k, ker[k].pc, TRUE, ker[k].cur)
<1> DEFINE r == [ker[k] EXCEPT !.told = TRUE, !.wake = TRUE]
<1>1. ker[k] \in KernelState
  BY DEF TypeOK
<1>2. r \in KernelState /\ r.pc = ker[k].pc /\ r.told = TRUE /\ r.cur = ker[k].cur
  BY <1>1, KernelUpdates
<1>3. KSet(k, r)
  BY DEF NotifyTerminate
<1> HIDE DEF r
<1>4. KerMove(k, r.pc, r.told, r.cur)
  BY <1>2, <1>3, KerMoveIs
<1> QED
  BY <1>2, <1>4

LEMMA PollKer ==
  ASSUME TypeOK, NEW k \in Kernel, Poll(k)
  PROVE  \/ backlog[k] = <<>> /\ KerMove(k, "loop", ker[k].told, ker[k].cur) /\ backlog' = backlog
         \/ /\ backlog[k] # <<>> /\ Head(backlog[k]) \in Queue
            /\ KerMove(k, "accept", ker[k].told, Head(backlog[k]))
            /\ backlog' = [backlog EXCEPT ![k] = Tail(@)]
<1>1. ker[k] \in KernelState /\ backlog[k] \in Seq(Queue)
  BY DEF TypeOK
<1>2. CASE backlog[k] = <<>>
  <2> DEFINE r == [ker[k] EXCEPT !.wake = FALSE, !.pc = "loop"]
  <2>1. r \in KernelState /\ r.pc = "loop" /\ r.told = ker[k].told /\ r.cur = ker[k].cur
    BY <1>1, KernelUpdates
  <2>2. KSet(k, r) /\ backlog' = backlog
    BY <1>2 DEF Poll
  <2> HIDE DEF r
  <2>3. KerMove(k, r.pc, r.told, r.cur)
    BY <2>1, <2>2, KerMoveIs
  <2> QED
    BY <1>2, <2>1, <2>2, <2>3
<1>3. CASE backlog[k] # <<>>
  <2> DEFINE r == [ker[k] EXCEPT !.wake = FALSE, !.pc = "accept", !.cur = Head(backlog[k])]
  <2>1. Head(backlog[k]) \in Queue
    BY <1>1, <1>3
  <2>2. r \in KernelState /\ r.pc = "accept" /\ r.told = ker[k].told /\ r.cur = Head(backlog[k])
    BY <1>1, <2>1 DEF KernelState
  <2>3. KSet(k, r) /\ backlog' = [backlog EXCEPT ![k] = Tail(@)]
    BY <1>3 DEF Poll
  <2> HIDE DEF r
  <2>4. KerMove(k, r.pc, r.told, r.cur)
    BY <2>2, <2>3, KerMoveIs
  <2> QED
    BY <1>3, <2>1, <2>2, <2>3, <2>4
<1> QED
  BY <1>2, <1>3

LEMMA AcceptedKer ==
  ASSUME TypeOK, NEW k \in Kernel, Accepted(k)
  PROVE  KerMove(k, "loop", ker[k].told, None)
<1> DEFINE r == [ker[k] EXCEPT !.pc = "loop", !.cur = None]
<1>1. ker[k] \in KernelState
  BY DEF TypeOK
<1>2. r \in KernelState /\ r.pc = "loop" /\ r.told = ker[k].told /\ r.cur = None
  BY <1>1, KernelUpdates
<1>3. KSet(k, r)
  BY DEF Accepted
<1> HIDE DEF r
<1>4. KerMove(k, r.pc, r.told, r.cur)
  BY <1>2, <1>3, KerMoveIs
<1> QED
  BY <1>2, <1>4

LEMMA RegisterPend ==
  ASSUME TypeOK, NEW h \in Half, Register(h)
  PROVE  pend' \in [Queue -> Pending] /\ \A q \in Queue : pend'[q].fd => pend[q].fd
<1>1. h[1] \in Queue /\ pend[h[1]] \in Pending /\ closed[KernelOf(h)] \in BOOLEAN
  BY Halves DEF TypeOK
<1>2. CASE pend[h[1]].there
  <2>1. PSet(h[1], pend[h[1]])
    BY <1>2 DEF Register
  <2> QED
    BY <1>1, <2>1, PendingSet
<1>3. CASE ~pend[h[1]].there
  <2> DEFINE r == [NoPending EXCEPT !.there = TRUE, !.late = closed[KernelOf(h)]]
  <2>1. r \in Pending /\ r.fd = FALSE
    BY <1>1, NoPendingIs
  <2>2. PSet(h[1], r)
    BY <1>3 DEF Register
  <2> HIDE DEF r
  <2> QED
    BY <1>1, <2>1, <2>2, PendingSet
<1> QED
  BY <1>2, <1>3

LEMMA GetPend ==
  ASSUME TypeOK, NEW h \in Half, Get(h) \/ Forget(h)
  PROVE  /\ pend' \in [Queue -> Pending] /\ pend'[h[1]].fd = FALSE
         /\ \A q \in Queue : q # h[1] => pend'[q] = pend[q]
<1>1. h[1] \in Queue /\ pend[h[1]] \in Pending
  BY Halves DEF TypeOK
<1>2. CASE Get(h)
  <2> DEFINE r == [pend[h[1]] EXCEPT !.fd = FALSE]
  <2>1. r \in Pending /\ r.fd = FALSE
    BY <1>1, PendingUpdates
  <2>2. PSet(h[1], r)
    BY <1>2 DEF Get
  <2> HIDE DEF r
  <2> QED
    BY <1>1, <2>1, <2>2, PendingSet
<1>3. CASE Forget(h)
  BY <1>1, <1>3, PendingSet, NoPendingIs DEF Forget
<1> QED
  BY <1>2, <1>3

LEMMA AcceptedPend ==
  ASSUME TypeOK, NEW k \in Kernel, Accepted(k), ker[k].cur \in Queue
  PROVE  /\ pend' \in [Queue -> Pending]
         /\ \A q \in Queue : q # ker[k].cur => pend'[q] = pend[q]
<1> DEFINE c == ker[k].cur
           p == IF Waiting(c) THEN pend[c] ELSE [NoPending EXCEPT !.there = TRUE]
<1>1. p \in Pending
  BY NoPendingIs DEF TypeOK
<1>2. [p EXCEPT !.done = TRUE, !.fd = TRUE] \in Pending
  BY <1>1, PendingUpdates
<1>3. PSet(c, [p EXCEPT !.done = TRUE, !.fd = TRUE])
  BY DEF Accepted
<1> QED
  BY <1>2, <1>3, PendingSet

LEMMA ClosePend ==
  ASSUME TypeOK, NEW k \in Kernel, Close(k)
  PROVE  pend' \in [Queue -> Pending] /\ \A q \in Queue : pend'[q].fd = pend[q].fd
<1> DEFINE f(q) == IF Side[q]["read"] = k /\ pend[q].there
                   THEN [pend[q] EXCEPT !.canceled = TRUE] ELSE pend[q]
<1>1. \A q \in Queue : f(q) \in Pending /\ f(q).fd = pend[q].fd
  BY PendingUpdates DEF TypeOK
<1>2. pend' = [q \in Queue |-> f(q)]
  BY DEF Close
<1> HIDE DEF f
<1> QED
  BY <1>1, <1>2

-----------------------------------------------------------------------------
(* The types.                                                              *)
LEMMA TypesStep ==
  ASSUME TypeOK, AtHand, [Next]_vars
  PROVE  TypeOK'
<1>1. ASSUME NEW h \in Half, Create(h) PROVE TypeOK'
  <2>1. map' \subseteq Half
    BY <1>1, Halves DEF Create, At, Go, TypeOK
  <2>2. ft' \in [Half -> Pc]
    BY <1>1, Halves DEF Create, At, Go, TypeOK, Pc
  <2> QED
    BY <1>1, <2>1, <2>2 DEF Create, kvars, pvars, hvars, TypeOK
<1>2. ASSUME NEW h \in Half, Top(h) PROVE TypeOK'
  <2>1. dead' \in [Half -> BOOLEAN]
    BY <1>2, Halves DEF Top, At, Go, TypeOK
  <2>2. ft' \in [Half -> Pc]
    BY <1>2, Halves DEF Top, At, Go, TypeOK, Pc
  <2> QED
    BY <1>2, <2>1, <2>2 DEF Top, kvars, pvars, hvars, TypeOK
<1>3. ASSUME NEW h \in Half, Ask(h) PROVE TypeOK'
  <2>1. ft' \in [Half -> Pc]
    BY <1>3, Halves DEF Ask, At, Go, TypeOK, Pc
  <2> QED
    BY <1>3, <2>1 DEF Ask, kvars, pvars, hvars, TypeOK
<1>4. ASSUME NEW h \in Half, Look(h) PROVE TypeOK'
  <2>1. ft' \in [Half -> Pc]
    BY <1>4, Halves DEF Look, At, Go, TypeOK, Pc
  <2> QED
    BY <1>4, <2>1 DEF Look, kvars, pvars, hvars, TypeOK
<1>5. ASSUME NEW h \in Half, Dial(h) PROVE TypeOK'
  <2>1. dead' \in [Half -> BOOLEAN]
    <3>1. dead' = dead \/ dead' = [dead EXCEPT ![h] = TRUE]
      BY <1>5 DEF Dial
    <3> QED
      BY <3>1, Halves DEF TypeOK
  <2>2. ft' \in [Half -> Pc]
    <3>1. ft' = [ft EXCEPT ![h] = "exit"] \/ ft' = [ft EXCEPT ![h] = "name"]
      BY <1>5 DEF Dial, Go
    <3> QED
      BY <3>1 DEF TypeOK, Pc
  <2>3. backlog' \in [Kernel -> Seq(Queue)]
    <3> DEFINE k == Side[h[1]]["read"]
    <3>1. k \in Kernel /\ h[1] \in Queue /\ backlog[k] \in Seq(Queue)
      BY Halves DEF TypeOK
    <3>2. Append(backlog[k], h[1]) \in Seq(Queue)
      BY <3>1
    <3>3. backlog' = backlog \/ backlog' = [backlog EXCEPT ![k] = Append(backlog[k], h[1])]
      BY <1>5 DEF Dial
    <3> QED
      BY <3>1, <3>2, <3>3 DEF TypeOK
  <2>4. conn' \in [Queue -> {"none", "made", "named", "reset"}]
    <3>1. conn' = conn \/ conn' = [conn EXCEPT ![h[1]] = "made"]
      BY <1>5 DEF Dial
    <3>2. conn \in [Queue -> {"none", "made", "named", "reset"}]
      BY DEF TypeOK
    <3> QED
      BY <3>1, <3>2
  <2> QED
    BY <1>5, <2>1, <2>2, <2>3, <2>4 DEF Dial, kvars, pvars, hvars, TypeOK
<1>6. ASSUME NEW h \in Half, Name(h) PROVE TypeOK'
  <2>1. dead' \in [Half -> BOOLEAN]
    <3>1. dead' = dead \/ dead' = [dead EXCEPT ![h] = TRUE]
      BY <1>6 DEF Name
    <3> QED
      BY <3>1, Halves DEF TypeOK
  <2>2. ft' \in [Half -> Pc]
    <3>1. ft' = [ft EXCEPT ![h] = "top"] \/ ft' = [ft EXCEPT ![h] = "run"]
      BY <1>6 DEF Name, Go
    <3> QED
      BY <3>1 DEF TypeOK, Pc
  <2>3. conn' \in [Queue -> {"none", "made", "named", "reset"}]
    <3>1. conn' = conn \/ conn' = [conn EXCEPT ![h[1]] = "named"]
      BY <1>6 DEF Name
    <3>2. conn \in [Queue -> {"none", "made", "named", "reset"}]
      BY DEF TypeOK
    <3> QED
      BY <3>1, <3>2
  <2>4. sock' \in [Half -> BOOLEAN]
    <3>1. sock' = sock \/ sock' = [sock EXCEPT ![h] = TRUE]
      BY <1>6 DEF Name
    <3> QED
      BY <3>1, Halves DEF TypeOK
  <2> QED
    BY <1>6, <2>1, <2>2, <2>3, <2>4 DEF Name, kvars, pvars, hvars, TypeOK
<1>7. ASSUME NEW h \in Half, Register(h) PROVE TypeOK'
  <2>1. ft' \in [Half -> Pc]
    BY <1>7, Halves DEF Register, At, Go, TypeOK, Pc
  <2>2. pend' \in [Queue -> Pending]
    BY <1>7, RegisterPend
  <2> QED
    BY <1>7, <2>1, <2>2 DEF Register, kvars, pvars, hvars, TypeOK
<1>8. ASSUME NEW h \in Half, Get(h) PROVE TypeOK'
  <2>1. sock' \in [Half -> BOOLEAN]
    <3>1. pend[h[1]].fd \in BOOLEAN
      BY Halves DEF TypeOK, Pending
    <3> QED
      BY <1>8, <3>1 DEF Get, TypeOK
  <2>2. ft' \in [Half -> Pc]
    BY <1>8, Halves DEF Get, At, Go, TypeOK, Pc
  <2>3. pend' \in [Queue -> Pending]
    BY <1>8, GetPend
  <2> QED
    BY <1>8, <2>1, <2>2, <2>3 DEF Get, kvars, pvars, hvars, TypeOK
<1>9. ASSUME NEW h \in Half, Forget(h) PROVE TypeOK'
  <2>1. ft' \in [Half -> Pc]
    BY <1>9, Halves DEF Forget, At, Go, TypeOK, Pc
  <2>2. pend' \in [Queue -> Pending]
    BY <1>9, GetPend
  <2> QED
    BY <1>9, <2>1, <2>2 DEF Forget, kvars, pvars, hvars, TypeOK
<1>10. ASSUME NEW h \in Half, Finish(h) PROVE TypeOK'
  <2>1. dead' \in [Half -> BOOLEAN]
    BY <1>10, Halves DEF Finish, At, Go, TypeOK
  <2> QED
    BY <1>10, <2>1 DEF Finish, kvars, pvars, hvars, TypeOK
<1>11. ASSUME NEW h \in Half, Run(h) PROVE TypeOK'
  <2>1. ft' \in [Half -> Pc]
    BY <1>11, Halves DEF Run, At, Go, TypeOK, Pc
  <2> QED
    BY <1>11, <2>1 DEF Run, kvars, pvars, hvars, TypeOK
<1>12. ASSUME NEW h \in Half, Exit(h) PROVE TypeOK'
  <2>1. ft' \in [Half -> Pc]
    BY <1>12, Halves DEF Exit, At, Go, TypeOK, Pc
  <2>2. map' \subseteq Half
    BY <1>12, Halves DEF Exit, At, Go, TypeOK
  <2>3. list' \subseteq Half
    BY <1>12, Halves DEF Exit, At, Go, TypeOK
  <2>4. ker' \in [Kernel -> KernelState]
    BY <1>12, ExitKer DEF KerSame
  <2> QED
    BY <1>12, <2>1, <2>2, <2>3, <2>4 DEF Exit, kvars, pvars, hvars, TypeOK
<1>13. ASSUME NEW k \in Kernel, Terminate(k) PROVE TypeOK'
  <2>1. terminated' \in [Kernel -> BOOLEAN]
    BY <1>13, Halves DEF Terminate, TypeOK
  <2> QED
    BY <1>13, <2>1 DEF Terminate, kvars, pvars, hvars, TypeOK
<1>14. ASSUME NEW k \in Kernel, NotifyTerminate(k) PROVE TypeOK'
  <2>1. ker' \in [Kernel -> KernelState]
    BY <1>14, NotifyKer DEF KerMove
  <2> QED
    BY <1>14, <2>1 DEF NotifyTerminate, kvars, pvars, hvars, TypeOK
<1>15. ASSUME NEW k \in Kernel, Loop(k) PROVE TypeOK'
  <2>1. list' \subseteq Half
    BY <1>15, Halves DEF Loop, KAt, Drop, OfKernel, TypeOK
  <2>2. dropped' \subseteq Half \X BOOLEAN
    BY <1>15, Halves DEF Loop, KAt, Drop, OfKernel, TypeOK
  <2>3. ker' \in [Kernel -> KernelState]
    BY <1>15, KGoKer DEF KerMove, Loop
  <2> QED
    BY <1>15, <2>1, <2>2, <2>3 DEF Loop, kvars, pvars, hvars, TypeOK
<1>16. ASSUME NEW k \in Kernel, Poll(k) PROVE TypeOK'
  <2>1. backlog' \in [Kernel -> Seq(Queue)]
    <3>1. backlog[k] \in Seq(Queue)
      BY DEF TypeOK
    <3>2. backlog[k] # <<>> => Tail(backlog[k]) \in Seq(Queue)
      BY <3>1
    <3> QED
      BY <1>16, <3>2, PollKer DEF TypeOK
  <2>2. ker' \in [Kernel -> KernelState]
    BY <1>16, PollKer DEF KerMove
  <2> QED
    BY <1>16, <2>1, <2>2 DEF Poll, kvars, pvars, hvars, TypeOK
<1>17. ASSUME NEW k \in Kernel, Accepted(k) PROVE TypeOK'
  <2>1. ker' \in [Kernel -> KernelState]
    BY <1>17, AcceptedKer DEF KerMove
  <2>2. ker[k].cur \in Queue
    BY <1>17 DEF Accepted, KAt, AtHand, TypeOK, KernelState
  <2>3. pend' \in [Queue -> Pending]
    BY <1>17, <2>2, AcceptedPend
  <2> QED
    BY <1>17, <2>1, <2>2, <2>3 DEF Accepted, kvars, pvars, hvars, TypeOK
<1>18. ASSUME NEW k \in Kernel, Close(k) PROVE TypeOK'
  <2>1. closed' \in [Kernel -> BOOLEAN]
    BY <1>18, Halves DEF Close, KAt, TypeOK
  <2>2. conn' \in [Queue -> {"none", "made", "named", "reset"}]
    BY <1>18, Halves DEF Close, KAt, TypeOK
  <2>3. backlog' \in [Kernel -> Seq(Queue)]
    BY <1>18, Halves DEF Close, KAt, TypeOK
  <2>4. ker' \in [Kernel -> KernelState]
    BY <1>18, KGoKer DEF KerMove, Close
  <2>5. pend' \in [Queue -> Pending]
    BY <1>18, ClosePend
  <2> QED
    BY <1>18, <2>1, <2>2, <2>3, <2>4, <2>5 DEF Close, kvars, pvars, hvars, TypeOK
<1>19. ASSUME NEW k \in Kernel, HolderShutdown(k) PROVE TypeOK'
  <2>1. dead' \in [Half -> BOOLEAN]
    BY <1>19, Halves DEF HolderShutdown, KAt, OfKernel, TypeOK
  <2>2. ker' \in [Kernel -> KernelState]
    BY <1>19, KGoKer DEF KerMove, HolderShutdown
  <2> QED
    BY <1>19, <2>1, <2>2 DEF HolderShutdown, kvars, pvars, hvars, TypeOK
<1>20. ASSUME NEW k \in Kernel, Drain(k) PROVE TypeOK'
  <2>1. list' \subseteq Half
    BY <1>20, Halves DEF Drain, KAt, Drop, OfKernel, TypeOK
  <2>2. dropped' \subseteq Half \X BOOLEAN
    BY <1>20, Halves DEF Drain, KAt, Drop, OfKernel, TypeOK
  <2>3. ker' \in [Kernel -> KernelState]
    BY <1>20, KGoKer DEF KerMove, Drain
  <2> QED
    BY <1>20, <2>1, <2>2, <2>3 DEF Drain, kvars, pvars, hvars, TypeOK
<1>21. CASE UNCHANGED vars
  BY <1>21 DEF vars, kvars, pvars, hvars, TypeOK
<1> QED
  BY <1>1, <1>2, <1>3, <1>4, <1>5, <1>6, <1>7, <1>8, <1>9, <1>10, <1>11,
     <1>12, <1>13, <1>14, <1>15, <1>16, <1>17, <1>18, <1>19, <1>20, <1>21 DEF Next

(* The kernel thread and the order in which it ends.                       *)
LEMMA KernelStep ==
  ASSUME TypeOK, AtHand, ToldFirst, [Next]_vars
  PROVE  AtHand' /\ ToldFirst'
<1> USE DEF AtHand, ToldFirst
<1>1. ASSUME NEW h \in Half, Create(h) PROVE AtHand' /\ ToldFirst'
  BY <1>1 DEF Create, kvars, TypeOK
<1>2. ASSUME NEW h \in Half, Top(h) PROVE AtHand' /\ ToldFirst'
  BY <1>2 DEF Top, kvars, TypeOK
<1>3. ASSUME NEW h \in Half, Ask(h) PROVE AtHand' /\ ToldFirst'
  BY <1>3 DEF Ask, kvars, TypeOK
<1>4. ASSUME NEW h \in Half, Look(h) PROVE AtHand' /\ ToldFirst'
  BY <1>4 DEF Look, kvars, TypeOK
<1>5. ASSUME NEW h \in Half, Dial(h) PROVE AtHand' /\ ToldFirst'
  BY <1>5 DEF Dial, kvars, TypeOK
<1>6. ASSUME NEW h \in Half, Name(h) PROVE AtHand' /\ ToldFirst'
  BY <1>6 DEF Name, kvars, TypeOK
<1>7. ASSUME NEW h \in Half, Register(h) PROVE AtHand' /\ ToldFirst'
  BY <1>7 DEF Register, kvars, TypeOK
<1>8. ASSUME NEW h \in Half, Get(h) PROVE AtHand' /\ ToldFirst'
  BY <1>8 DEF Get, kvars, TypeOK
<1>9. ASSUME NEW h \in Half, Forget(h) PROVE AtHand' /\ ToldFirst'
  BY <1>9 DEF Forget, kvars, TypeOK
<1>10. ASSUME NEW h \in Half, Finish(h) PROVE AtHand' /\ ToldFirst'
  BY <1>10 DEF Finish, kvars, TypeOK
<1>11. ASSUME NEW h \in Half, Run(h) PROVE AtHand' /\ ToldFirst'
  BY <1>11 DEF Run, kvars, TypeOK
<1>12. ASSUME NEW h \in Half, Exit(h) PROVE AtHand' /\ ToldFirst'
  BY <1>12, ExitKer DEF Exit, KerSame
<1>13. ASSUME NEW k \in Kernel, Terminate(k) PROVE AtHand' /\ ToldFirst'
  BY <1>13 DEF Terminate, kvars, TypeOK
<1>14. ASSUME NEW k \in Kernel, NotifyTerminate(k) PROVE AtHand' /\ ToldFirst'
  <2>1. terminated[k] /\ terminated' = terminated
    BY <1>14 DEF NotifyTerminate
  <2>2. KerMove(k, ker[k].pc, TRUE, ker[k].cur)
    BY <1>14, NotifyKer
  <2> QED
    BY <2>1, <2>2 DEF KerMove
<1>15. ASSUME NEW k \in Kernel, Loop(k) PROVE AtHand' /\ ToldFirst'
  <2>1. ker[k].pc = "loop" /\ terminated' = terminated
    BY <1>15 DEF Loop, KAt
  <2>2. \/ ker[k].told /\ KerMove(k, "close", ker[k].told, ker[k].cur)
        \/ KerMove(k, "poll", ker[k].told, ker[k].cur)
    BY <1>15, KGoKer DEF Loop
  <2> QED
    BY <2>1, <2>2 DEF KerMove
<1>16. ASSUME NEW k \in Kernel, Poll(k) PROVE AtHand' /\ ToldFirst'
  <2>1. ker[k].pc = "poll" /\ terminated' = terminated
    BY <1>16 DEF Poll, KAt
  <2>2. \/ KerMove(k, "loop", ker[k].told, ker[k].cur)
        \/ Head(backlog[k]) \in Queue /\ KerMove(k, "accept", ker[k].told, Head(backlog[k]))
    BY <1>16, PollKer
  <2> QED
    BY <2>1, <2>2, SideAssumption DEF KerMove
<1>17. ASSUME NEW k \in Kernel, Accepted(k) PROVE AtHand' /\ ToldFirst'
  <2>1. ker[k].pc = "accept" /\ terminated' = terminated
    BY <1>17 DEF Accepted, KAt
  <2>2. KerMove(k, "loop", ker[k].told, None)
    BY <1>17, AcceptedKer
  <2> QED
    BY <2>1, <2>2, SideAssumption DEF KerMove
<1>18. ASSUME NEW k \in Kernel, Close(k) PROVE AtHand' /\ ToldFirst'
  <2>1. ker[k].pc = "close" /\ terminated' = terminated
    BY <1>18 DEF Close, KAt
  <2>2. KerMove(k, "shutdown", ker[k].told, ker[k].cur)
    BY <1>18, KGoKer DEF Close
  <2> QED
    BY <2>1, <2>2 DEF KerMove
<1>19. ASSUME NEW k \in Kernel, HolderShutdown(k) PROVE AtHand' /\ ToldFirst'
  <2>1. ker[k].pc = "shutdown" /\ terminated' = terminated
    BY <1>19 DEF HolderShutdown, KAt
  <2>2. KerMove(k, "drain", ker[k].told, ker[k].cur)
    BY <1>19, KGoKer DEF HolderShutdown
  <2> QED
    BY <2>1, <2>2 DEF KerMove
<1>20. ASSUME NEW k \in Kernel, Drain(k) PROVE AtHand' /\ ToldFirst'
  <2>1. ker[k].pc = "drain" /\ terminated' = terminated
    BY <1>20 DEF Drain, KAt
  <2>2. KerMove(k, "done", ker[k].told, ker[k].cur)
    BY <1>20, KGoKer DEF Drain
  <2> QED
    BY <2>1, <2>2 DEF KerMove
<1>21. CASE UNCHANGED vars
  BY <1>21 DEF vars, kvars
<1> QED
  BY <1>1, <1>2, <1>3, <1>4, <1>5, <1>6, <1>7, <1>8, <1>9, <1>10, <1>11,
     <1>12, <1>13, <1>14, <1>15, <1>16, <1>17, <1>18, <1>19, <1>20, <1>21 DEF Next

(* A file thread that neither begins nor ends leaves the holder alone.     *)
LEMMA FileMove ==
  ASSUME TypeOK, Held, NoneLeft, NEW h \in Half, ft[h] \notin {"none", "gone"},
         NEW p \in Pc \ {"none", "gone"}, ft' = [ft EXCEPT ![h] = p],
         UNCHANGED <<map, list, ker>>
  PROVE  Held' /\ NoneLeft'
<1>1. \A x \in Half : ft'[x] = IF x = h THEN p ELSE ft[x]
  BY DEF TypeOK
<1>2. ker[KernelOf(h)].pc # "done"
  BY Halves DEF NoneLeft, OfKernel, KAt
<1>3. Held'
  BY <1>1 DEF Held
<1>4. NoneLeft'
  BY <1>1, <1>2, Halves DEF NoneLeft, OfKernel, KAt
<1> QED
  BY <1>3, <1>4

(* The file threads and the holder.                                        *)
LEMMA HolderStep ==
  ASSUME TypeOK, ToldFirst, Held, NoneLeft, [Next]_vars
  PROVE  Held' /\ NoneLeft'
<1> USE DEF Held, NoneLeft, OfKernel, KAt
<1>1. ASSUME NEW h \in Half, Create(h) PROVE Held' /\ NoneLeft'
  <2>1. /\ ft[h] = "none" /\ ft' = [ft EXCEPT ![h] = "top"] /\ ~terminated[KernelOf(h)]
        /\ map' = map \cup {h} /\ UNCHANGED <<list, ker>>
    BY <1>1 DEF Create, At, Go, kvars
  <2>2. ker[KernelOf(h)].pc # "done"
    BY <2>1, Halves DEF ToldFirst
  <2> QED
    BY <2>1, <2>2, Halves DEF TypeOK, Pc
<1>2. ASSUME NEW h \in Half, Top(h) PROVE Held' /\ NoneLeft'
  <2>1. ft[h] = "top" /\ UNCHANGED <<map, list, ker>>
    BY <1>2 DEF Top, At, kvars, hvars
  <2>2. \E p \in {"exit", "run", "ask"} : ft' = [ft EXCEPT ![h] = p]
    BY <1>2 DEF Top, Go
  <2> QED
    BY <2>1, <2>2, FileMove DEF Pc
<1>3. ASSUME NEW h \in Half, Ask(h) PROVE Held' /\ NoneLeft'
  <2>1. ft[h] = "ask" /\ UNCHANGED <<map, list, ker>>
    BY <1>3 DEF Ask, At, kvars, hvars
  <2>2. \E p \in {"top", "look", "register"} : ft' = [ft EXCEPT ![h] = p]
    BY <1>3 DEF Ask, Go
  <2> QED
    BY <2>1, <2>2, FileMove DEF Pc
<1>4. ASSUME NEW h \in Half, Look(h) PROVE Held' /\ NoneLeft'
  <2>1. ft[h] = "look" /\ UNCHANGED <<map, list, ker>>
    BY <1>4 DEF Look, At, kvars, hvars
  <2>2. \E p \in {"exit", "dial"} : ft' = [ft EXCEPT ![h] = p]
    BY <1>4 DEF Look, Go
  <2> QED
    BY <2>1, <2>2, FileMove DEF Pc
<1>5. ASSUME NEW h \in Half, Dial(h) PROVE Held' /\ NoneLeft'
  <2>1. ft[h] = "dial" /\ UNCHANGED <<map, list, ker>>
    BY <1>5 DEF Dial, At, kvars, hvars
  <2>2. \E p \in {"exit", "name"} : ft' = [ft EXCEPT ![h] = p]
    BY <1>5 DEF Dial, Go
  <2> QED
    BY <2>1, <2>2, FileMove DEF Pc
<1>6. ASSUME NEW h \in Half, Name(h) PROVE Held' /\ NoneLeft'
  <2>1. ft[h] = "name" /\ UNCHANGED <<map, list, ker>>
    BY <1>6 DEF Name, At, kvars, hvars
  <2>2. \E p \in {"top", "run"} : ft' = [ft EXCEPT ![h] = p]
    BY <1>6 DEF Name, Go
  <2> QED
    BY <2>1, <2>2, FileMove DEF Pc
<1>7. ASSUME NEW h \in Half, Register(h) PROVE Held' /\ NoneLeft'
  <2>1. ft[h] = "register" /\ ft' = [ft EXCEPT ![h] = "get"] /\ UNCHANGED <<map, list, ker>>
    BY <1>7 DEF Register, At, Go, kvars, hvars
  <2> QED
    BY <2>1, FileMove DEF Pc
<1>8. ASSUME NEW h \in Half, Get(h) PROVE Held' /\ NoneLeft'
  <2>1. ft[h] = "get" /\ ft' = [ft EXCEPT ![h] = "forget"] /\ UNCHANGED <<map, list, ker>>
    BY <1>8 DEF Get, At, Go, kvars, hvars
  <2> QED
    BY <2>1, FileMove DEF Pc
<1>9. ASSUME NEW h \in Half, Forget(h) PROVE Held' /\ NoneLeft'
  <2>1. ft[h] = "forget" /\ UNCHANGED <<map, list, ker>>
    BY <1>9 DEF Forget, At, kvars, hvars
  <2>2. \E p \in {"run", "top"} : ft' = [ft EXCEPT ![h] = p]
    BY <1>9 DEF Forget, Go
  <2> QED
    BY <2>1, <2>2, FileMove DEF Pc
<1>10. ASSUME NEW h \in Half, Finish(h) PROVE Held' /\ NoneLeft'
  BY <1>10 DEF Finish, kvars, hvars
<1>11. ASSUME NEW h \in Half, Run(h) PROVE Held' /\ NoneLeft'
  <2>1. ft[h] = "run" /\ ft' = [ft EXCEPT ![h] = "exit"] /\ UNCHANGED <<map, list, ker>>
    BY <1>11 DEF Run, At, Go, kvars, hvars
  <2> QED
    BY <2>1, FileMove DEF Pc
<1>12. ASSUME NEW h \in Half, Exit(h) PROVE Held' /\ NoneLeft'
  <2>1. /\ ft[h] = "exit" /\ ft' = [ft EXCEPT ![h] = "gone"]
        /\ map' = map \ {h} /\ list' = list \cup {h}
    BY <1>12 DEF Exit, At, Go
  <2>2. KerSame
    BY <1>12, ExitKer
  <2>3. \A x \in Half : ft'[x] = IF x = h THEN "gone" ELSE ft[x]
    BY <2>1 DEF TypeOK
  <2>4. Held'
    BY <2>1, <2>3
  <2>5. NoneLeft'
    BY <2>2, <2>3, Halves DEF KerSame
  <2> QED
    BY <2>4, <2>5
<1>13. ASSUME NEW k \in Kernel, Terminate(k) PROVE Held' /\ NoneLeft'
  BY <1>13 DEF Terminate, kvars, hvars
<1>14. ASSUME NEW k \in Kernel, NotifyTerminate(k) PROVE Held' /\ NoneLeft'
  <2>1. UNCHANGED <<ft, map>> /\ list' \subseteq list
    BY <1>14 DEF NotifyTerminate, hvars, Drop
  <2>2. KerMove(k, ker[k].pc, TRUE, ker[k].cur)
    BY <1>14, NotifyKer
  <2> QED
    BY <2>1, <2>2 DEF KerMove
<1>15. ASSUME NEW k \in Kernel, Loop(k) PROVE Held' /\ NoneLeft'
  <2>1. UNCHANGED <<ft, map>> /\ list' \subseteq list
    BY <1>15 DEF Loop, hvars, Drop
  <2>2. \/ KerMove(k, "close", ker[k].told, ker[k].cur)
        \/ KerMove(k, "poll", ker[k].told, ker[k].cur)
    BY <1>15, KGoKer DEF Loop
  <2> QED
    BY <2>1, <2>2 DEF KerMove
<1>16. ASSUME NEW k \in Kernel, Poll(k) PROVE Held' /\ NoneLeft'
  <2>1. UNCHANGED <<ft, map>> /\ list' \subseteq list
    BY <1>16 DEF Poll, hvars, Drop
  <2>2. \/ KerMove(k, "loop", ker[k].told, ker[k].cur)
        \/ KerMove(k, "accept", ker[k].told, Head(backlog[k]))
    BY <1>16, PollKer
  <2> QED
    BY <2>1, <2>2 DEF KerMove
<1>17. ASSUME NEW k \in Kernel, Accepted(k) PROVE Held' /\ NoneLeft'
  <2>1. UNCHANGED <<ft, map>> /\ list' \subseteq list
    BY <1>17 DEF Accepted, hvars, Drop
  <2>2. KerMove(k, "loop", ker[k].told, None)
    BY <1>17, AcceptedKer
  <2> QED
    BY <2>1, <2>2 DEF KerMove
<1>18. ASSUME NEW k \in Kernel, Close(k) PROVE Held' /\ NoneLeft'
  <2>1. UNCHANGED <<ft, map>> /\ list' \subseteq list
    BY <1>18 DEF Close, hvars, Drop
  <2>2. KerMove(k, "shutdown", ker[k].told, ker[k].cur)
    BY <1>18, KGoKer DEF Close
  <2> QED
    BY <2>1, <2>2 DEF KerMove
<1>19. ASSUME NEW k \in Kernel, HolderShutdown(k) PROVE Held' /\ NoneLeft'
  <2>1. UNCHANGED <<ft, map>> /\ list' \subseteq list
    BY <1>19 DEF HolderShutdown, hvars, Drop
  <2>2. KerMove(k, "drain", ker[k].told, ker[k].cur)
    BY <1>19, KGoKer DEF HolderShutdown
  <2> QED
    BY <2>1, <2>2 DEF KerMove
<1>20. ASSUME NEW k \in Kernel, Drain(k) PROVE Held' /\ NoneLeft'
  <2>1. UNCHANGED <<ft, map>> /\ list' \subseteq list
    BY <1>20 DEF Drain, hvars, Drop
  <2>2. KerMove(k, "done", ker[k].told, ker[k].cur)
    BY <1>20, KGoKer DEF Drain
  <2>3. \A h \in Half : KernelOf(h) = k => ft[h] \in {"none", "gone"}
    BY <1>20 DEF Drain
  <2> QED
    BY <2>1, <2>2, <2>3 DEF KerMove
<1>21. CASE UNCHANGED vars
  BY <1>21 DEF vars, kvars, hvars
<1> QED
  BY <1>1, <1>2, <1>3, <1>4, <1>5, <1>6, <1>7, <1>8, <1>9, <1>10, <1>11,
     <1>12, <1>13, <1>14, <1>15, <1>16, <1>17, <1>18, <1>19, <1>20, <1>21 DEF Next

-----------------------------------------------------------------------------
(* The life of a half, from its connection to its destruction.  What does  *)
(* not concern a half leaves it as it was.                                 *)
Untouched(x) ==
  /\ ft'[x] = ft[x] /\ (dead[x] => dead'[x])
  /\ terminated[KernelOf(x)] => terminated'[KernelOf(x)]
  /\ x[2] = "write" => (conn'[x[1]] = "none" <=> conn[x[1]] = "none")
  /\ <<x, FALSE>> \in dropped' => <<x, FALSE>> \in dropped

LEMMA LifeKept ==
  ASSUME NEW x \in Half, Life(x), Untouched(x)
  PROVE  Life(x)'
BY DEF Life, DialsOnce, EndedDead, ThrownOut, Untouched

LEMMA LifeStep ==
  ASSUME TypeOK, Held, InBacklog, Lives, [Next]_vars
  PROVE  Lives'
<1> USE DEF Lives
<1>1. ASSUME NEW h \in Half, Create(h) PROVE Lives'
  <2>1. ft[h] = "none" /\ ft'[h] = "top" /\ UNCHANGED <<dead, conn, terminated, dropped>>
    BY <1>1, Halves DEF Create, At, Go, kvars, pvars, hvars, TypeOK
  <2>2. ASSUME NEW x \in Half, x # h PROVE Untouched(x)
    BY <1>1, <2>2, Halves DEF Untouched, Create, At, Go, kvars, pvars, hvars, TypeOK
  <2>3. Life(h)'
    BY <2>1 DEF Life, DialsOnce, EndedDead, ThrownOut
  <2> QED
    BY <2>2, <2>3, LifeKept
<1>2. ASSUME NEW h \in Half, Top(h) PROVE Lives'
  <2>1. /\ ft[h] = "top" /\ dead'[h] = (dead[h] \/ terminated[KernelOf(h)])
        /\ ft'[h] = (IF dead'[h] THEN "exit" ELSE IF sock[h] THEN "run" ELSE "ask")
        /\ UNCHANGED <<conn, terminated, dropped>>
    BY <1>2, Halves DEF Top, At, Go, kvars, pvars, hvars, TypeOK
  <2>2. ASSUME NEW x \in Half, x # h PROVE Untouched(x)
    BY <1>2, <2>2, Halves DEF Untouched, Top, At, Go, kvars, pvars, hvars, TypeOK
  <2>3. Life(h)'
    BY <2>1 DEF Life, DialsOnce, EndedDead, ThrownOut
  <2> QED
    BY <2>2, <2>3, LifeKept
<1>3. ASSUME NEW h \in Half, Ask(h) PROVE Lives'
  <2>1. /\ ft[h] = "ask" /\ ft'[h] \in {"top", "look", "register"}
        /\ ft'[h] = "look" => h[2] = "write"
        /\ UNCHANGED <<dead, conn, terminated, dropped>>
    BY <1>3, Halves DEF Ask, At, Go, kvars, pvars, hvars, TypeOK
  <2>2. ASSUME NEW x \in Half, x # h PROVE Untouched(x)
    BY <1>3, <2>2, Halves DEF Untouched, Ask, At, Go, kvars, pvars, hvars, TypeOK
  <2>3. Life(h)'
    BY <2>1 DEF Life, DialsOnce, EndedDead, ThrownOut
  <2> QED
    BY <2>2, <2>3, LifeKept
<1>4. ASSUME NEW h \in Half, Look(h) PROVE Lives'
  <2>0. ft[h] = "look"
    BY <1>4 DEF Look, At
  <2>4. Life(h)
    OBVIOUS
  <2>5. h[2] = "write"
    BY <2>0, <2>4 DEF Life, DialsOnce
  <2>6. <<h, FALSE>> \notin dropped
    BY <2>0, <2>4 DEF Life, EndedDead
  <2>7. conn[h[1]] = "none"
    BY <2>0, <2>4, <2>5 DEF Life, DialsOnce
  <2>1. /\ ft[h] = "look"
        /\ \/ terminated[KernelOf(h)] /\ ft'[h] = "exit"
           \/ ft'[h] = "dial"
        /\ UNCHANGED <<dead, conn, terminated, dropped>>
    BY <1>4, Halves DEF Look, At, Go, kvars, pvars, hvars, TypeOK
  <2>2. ASSUME NEW x \in Half, x # h PROVE Untouched(x)
    BY <1>4, <2>2, Halves DEF Untouched, Look, At, Go, kvars, pvars, hvars, TypeOK
  <2>3. Life(h)'
    BY <2>1, <2>5, <2>6, <2>7 DEF Life, DialsOnce, EndedDead, ThrownOut
  <2> QED
    BY <2>2, <2>3, LifeKept
<1>5. ASSUME NEW h \in Half, Dial(h) PROVE Lives'
  <2>0. ft[h] = "dial"
    BY <1>5 DEF Dial, At
  <2>4. Life(h)
    OBVIOUS
  <2>5. h[2] = "write"
    BY <2>0, <2>4 DEF Life, DialsOnce
  <2>6. <<h, FALSE>> \notin dropped
    BY <2>0, <2>4 DEF Life, EndedDead
  <2>7. conn[h[1]] = "none"
    BY <2>0, <2>4, <2>5 DEF Life, DialsOnce
  <2>1. /\ ft[h] = "dial"
        /\ \/ dead'[h] /\ ft'[h] = "exit" /\ conn' = conn
           \/ ft'[h] = "name"
        /\ UNCHANGED <<terminated, dropped>>
    BY <1>5, Halves DEF Dial, At, Go, kvars, pvars, hvars, TypeOK
  <2>2. ASSUME NEW x \in Half, x # h PROVE Untouched(x)
    <3>2. x[2] = "write" => x[1] # h[1]
      BY <2>2, <2>5, Halves
    <3>3. ft'[x] = ft[x] /\ (dead[x] => dead'[x]) /\ UNCHANGED <<terminated, dropped>>
      BY <1>5, <2>2 DEF Dial, Go, TypeOK, kvars, hvars
    <3>4. x[2] = "write" => conn'[x[1]] = conn[x[1]]
      <4>1. conn' = conn \/ conn' = [conn EXCEPT ![h[1]] = "made"]
        BY <1>5 DEF Dial
      <4> QED
        BY <4>1, <3>2, Halves DEF TypeOK
    <3> QED
      BY <3>3, <3>4 DEF Untouched
  <2>3. Life(h)'
    BY <2>1, <2>5, <2>6, <2>7 DEF Life, DialsOnce, EndedDead, ThrownOut
  <2> QED
    BY <2>2, <2>3, LifeKept
<1>6. ASSUME NEW h \in Half, Name(h) PROVE Lives'
  <2>0. ft[h] = "name"
    BY <1>6 DEF Name, At
  <2>4. Life(h)
    OBVIOUS
  <2>5. h[2] = "write"
    BY <2>0, <2>4 DEF Life, DialsOnce
  <2>6. <<h, FALSE>> \notin dropped
    BY <2>0, <2>4 DEF Life, EndedDead
  <2>1. /\ ft[h] = "name"
        /\ \/ dead'[h] /\ ft'[h] = "top" /\ conn' = conn
           \/ ft'[h] = "run"
        /\ UNCHANGED <<terminated, dropped>>
    BY <1>6, Halves DEF Name, At, Go, kvars, pvars, hvars, TypeOK
  <2>2. ASSUME NEW x \in Half, x # h PROVE Untouched(x)
    <3>2. x[2] = "write" => x[1] # h[1]
      BY <2>2, <2>5, Halves
    <3>3. ft'[x] = ft[x] /\ (dead[x] => dead'[x]) /\ UNCHANGED <<terminated, dropped>>
      BY <1>6, <2>2 DEF Name, Go, TypeOK, kvars, hvars
    <3>4. x[2] = "write" => conn'[x[1]] = conn[x[1]]
      <4>1. conn' = conn \/ conn' = [conn EXCEPT ![h[1]] = "named"]
        BY <1>6 DEF Name
      <4> QED
        BY <4>1, <3>2, Halves DEF TypeOK
    <3> QED
      BY <3>3, <3>4 DEF Untouched
  <2>3. Life(h)'
    BY <2>1, <2>5, <2>6 DEF Life, DialsOnce, EndedDead, ThrownOut
  <2> QED
    BY <2>2, <2>3, LifeKept
<1>7. ASSUME NEW h \in Half, Register(h) PROVE Lives'
  <2>1. ft[h] = "register" /\ ft'[h] = "get" /\ UNCHANGED <<dead, conn, terminated, dropped>>
    BY <1>7, Halves DEF Register, At, Go, kvars, pvars, hvars, TypeOK
  <2>2. ASSUME NEW x \in Half, x # h PROVE Untouched(x)
    BY <1>7, <2>2, Halves DEF Untouched, Register, At, Go, kvars, pvars, hvars, TypeOK
  <2>3. Life(h)'
    BY <2>1 DEF Life, DialsOnce, EndedDead, ThrownOut
  <2> QED
    BY <2>2, <2>3, LifeKept
<1>8. ASSUME NEW h \in Half, Get(h) PROVE Lives'
  <2>1. ft[h] = "get" /\ ft'[h] = "forget" /\ UNCHANGED <<dead, conn, terminated, dropped>>
    BY <1>8, Halves DEF Get, At, Go, kvars, pvars, hvars, TypeOK
  <2>2. ASSUME NEW x \in Half, x # h PROVE Untouched(x)
    BY <1>8, <2>2, Halves DEF Untouched, Get, At, Go, kvars, pvars, hvars, TypeOK
  <2>3. Life(h)'
    BY <2>1 DEF Life, DialsOnce, EndedDead, ThrownOut
  <2> QED
    BY <2>2, <2>3, LifeKept
<1>9. ASSUME NEW h \in Half, Forget(h) PROVE Lives'
  <2>1. /\ ft[h] = "forget" /\ ft'[h] \in {"run", "top"}
        /\ UNCHANGED <<dead, conn, terminated, dropped>>
    BY <1>9, Halves DEF Forget, At, Go, kvars, pvars, hvars, TypeOK
  <2>2. ASSUME NEW x \in Half, x # h PROVE Untouched(x)
    BY <1>9, <2>2, Halves DEF Untouched, Forget, At, Go, kvars, pvars, hvars, TypeOK
  <2>3. Life(h)'
    BY <2>1 DEF Life, DialsOnce, EndedDead, ThrownOut
  <2> QED
    BY <2>2, <2>3, LifeKept
<1>10. ASSUME NEW h \in Half, Finish(h) PROVE Lives'
  <2>2. ASSUME NEW x \in Half, x # h PROVE Untouched(x)
    BY <1>10, <2>2, Halves DEF Untouched, Finish, At, Go, kvars, pvars, hvars, TypeOK
  <2>3. Life(h)'
    BY <1>10, Halves DEF Life, DialsOnce, EndedDead, ThrownOut, Finish, At, kvars,
                        pvars, hvars, TypeOK
  <2> QED
    BY <2>2, <2>3, LifeKept
<1>11. ASSUME NEW h \in Half, Run(h) PROVE Lives'
  <2>1. ft[h] = "run" /\ ft'[h] = "exit" /\ dead[h] /\ UNCHANGED <<dead, conn, terminated, dropped>>
    BY <1>11, Halves DEF Run, At, Go, kvars, pvars, hvars, TypeOK
  <2>2. ASSUME NEW x \in Half, x # h PROVE Untouched(x)
    BY <1>11, <2>2, Halves DEF Untouched, Run, At, Go, kvars, pvars, hvars, TypeOK
  <2>3. Life(h)'
    BY <2>1 DEF Life, DialsOnce, EndedDead, ThrownOut
  <2> QED
    BY <2>2, <2>3, LifeKept
<1>12. ASSUME NEW h \in Half, Exit(h) PROVE Lives'
  <2>1. ft[h] = "exit" /\ ft'[h] = "gone" /\ UNCHANGED <<dead, conn, terminated, dropped>>
    BY <1>12, Halves DEF Exit, At, Go, kvars, pvars, hvars, TypeOK
  <2>2. ASSUME NEW x \in Half, x # h PROVE Untouched(x)
    BY <1>12, <2>2, Halves DEF Untouched, Exit, At, Go, kvars, pvars, hvars, TypeOK
  <2>3. Life(h)'
    BY <2>1 DEF Life, DialsOnce, EndedDead, ThrownOut
  <2> QED
    BY <2>2, <2>3, LifeKept
<1>13. ASSUME NEW k \in Kernel, Terminate(k) PROVE Lives'
  <2>1. ASSUME NEW x \in Half PROVE Untouched(x)
    BY <1>13, Halves DEF Untouched, Terminate, kvars, pvars, hvars, TypeOK
  <2> QED
    BY <2>1, LifeKept
<1>14. ASSUME NEW k \in Kernel, NotifyTerminate(k) PROVE Lives'
  <2>1. ASSUME NEW x \in Half PROVE Untouched(x)
    BY <1>14, Halves DEF Untouched, NotifyTerminate, kvars, pvars, hvars, TypeOK
  <2> QED
    BY <2>1, LifeKept
<1>15. ASSUME NEW k \in Kernel, Loop(k) PROVE Lives'
  <2>1. ASSUME NEW x \in Half, x \notin list \/ dead[x] PROVE Untouched(x)
    <3>1. UNCHANGED <<ft, dead, terminated, conn>>
      BY <1>15 DEF Loop, pvars
    <3>2. <<x, FALSE>> \in dropped' => <<x, FALSE>> \in dropped
      <4>1. CASE ker[k].told
        BY <1>15, <4>1 DEF Loop
      <4>2. CASE ~ker[k].told
        <5>1. dropped' = dropped \cup {<<y, dead[y]>> : y \in OfKernel(k, list)}
          BY <1>15, <4>2 DEF Loop, Drop
        <5>2. OfKernel(k, list) \subseteq list
          BY DEF OfKernel
        <5>3. SUFFICES ASSUME NEW y \in OfKernel(k, list), <<x, FALSE>> = <<y, dead[y]>>
                       PROVE  FALSE
          BY <5>1
        <5>4. x = y /\ ~dead[y]
          BY <5>3
        <5> QED
          BY <5>2, <5>3, <5>4, <2>1
      <4> QED
        BY <4>1, <4>2
    <3> QED
      BY <3>1, <3>2 DEF Untouched
  <2>2. ASSUME NEW x \in Half, x \in list, ~dead[x] PROVE Life(x)'
    BY <1>15, <2>2, Halves DEF Life, DialsOnce, EndedDead, ThrownOut, Held, Loop, pvars
  <2> QED
    BY <2>1, <2>2, LifeKept
<1>16. ASSUME NEW k \in Kernel, Poll(k) PROVE Lives'
  <2>1. ASSUME NEW x \in Half PROVE Untouched(x)
    BY <1>16, Halves DEF Untouched, Poll, kvars, pvars, hvars, TypeOK
  <2> QED
    BY <2>1, LifeKept
<1>17. ASSUME NEW k \in Kernel, Accepted(k) PROVE Lives'
  <2>1. ASSUME NEW x \in Half PROVE Untouched(x)
    BY <1>17, Halves DEF Untouched, Accepted, kvars, pvars, hvars, TypeOK
  <2> QED
    BY <2>1, LifeKept
<1>18. ASSUME NEW k \in Kernel, Close(k) PROVE Lives'
  <2>1. ASSUME NEW x \in Half PROVE Untouched(x)
    <3>1. UNCHANGED <<ft, dead, terminated, dropped>>
      BY <1>18 DEF Close, hvars
    <3>2. \A q \in Queue : conn'[q] = conn[q] \/ (conn'[q] = "reset" /\ Queued(k, q))
      <4>1. DOMAIN backlog[k] = 1..Len(backlog[k])
        BY DEF TypeOK
      <4> QED
        BY <1>18, <4>1 DEF Close, Queued, TypeOK
    <3>3. \A q \in Queue : Queued(k, q) => conn[q] # "none"
      BY DEF InBacklog
    <3>4. conn'[x[1]] = "none" <=> conn[x[1]] = "none"
      BY <3>2, <3>3, Halves
    <3> QED
      BY <3>1, <3>4 DEF Untouched
  <2> QED
    BY <2>1, LifeKept
<1>19. ASSUME NEW k \in Kernel, HolderShutdown(k) PROVE Lives'
  <2>1. ASSUME NEW x \in Half PROVE Untouched(x)
    BY <1>19, Halves DEF Untouched, HolderShutdown, kvars, pvars, hvars, TypeOK
  <2> QED
    BY <2>1, LifeKept
<1>20. ASSUME NEW k \in Kernel, Drain(k) PROVE Lives'
  <2>1. ASSUME NEW x \in Half, x \notin list \/ dead[x] PROVE Untouched(x)
    <3>1. UNCHANGED <<ft, dead, terminated, conn>>
      BY <1>20 DEF Drain, pvars
    <3>2. <<x, FALSE>> \in dropped' => <<x, FALSE>> \in dropped
      BY <1>20, <2>1 DEF Drain, Drop, OfKernel, TypeOK
    <3> QED
      BY <3>1, <3>2 DEF Untouched
  <2>2. ASSUME NEW x \in Half, x \in list, ~dead[x] PROVE Life(x)'
    BY <1>20, <2>2, Halves DEF Life, DialsOnce, EndedDead, ThrownOut, Held, Drain, pvars
  <2> QED
    BY <2>1, <2>2, LifeKept
<1>21. CASE UNCHANGED vars
  BY <1>21 DEF vars, kvars, pvars, hvars, Life, DialsOnce, EndedDead, ThrownOut
<1> QED
  BY <1>1, <1>2, <1>3, <1>4, <1>5, <1>6, <1>7, <1>8, <1>9, <1>10, <1>11,
     <1>12, <1>13, <1>14, <1>15, <1>16, <1>17, <1>18, <1>19, <1>20, <1>21 DEF Next

-----------------------------------------------------------------------------
(* Where the connections are.  A step that moves none of them may name one *)
(* or let go of a descriptor.                                              *)
NoneMoves ==
  /\ backlog' = backlog /\ \A k \in Kernel : ker'[k].cur = ker[k].cur
  /\ \A q \in Queue : /\ conn'[q] = conn[q] \/ conn'[q] = "named"
                      /\ pend'[q].fd => pend[q].fd
                      /\ sock'[<<q, "read">>] => sock[<<q, "read">>]

LEMMA PlacesKept ==
  ASSUME OnePlace, NoneMoves
  PROVE  OnePlace'
<1>1. \A k \in Kernel, q \in Queue : Queued(k, q)' <=> Queued(k, q)
  BY DEF NoneMoves, Queued
<1>2. InBacklog'
  BY <1>1 DEF NoneMoves, OnePlace, InBacklog
<1>3. NoDuplicates'
  BY DEF NoneMoves, OnePlace, NoDuplicates
<1>4. BeingAccepted'
  BY DEF NoneMoves, OnePlace, BeingAccepted
<1>5. HandedOver'
  BY DEF NoneMoves, OnePlace, HandedOver
<1> QED
  BY <1>2, <1>3, <1>4, <1>5 DEF OnePlace

(* ConnectWriter connects: the connection goes to the end of the backlog.  *)
LEMMA DialPlaces ==
  ASSUME TypeOK, Lives, OnePlace, NEW h \in Half, Dial(h)
  PROVE  OnePlace'
<1> DEFINE q == h[1]
           k == Side[h[1]]["read"]
<1>1. q \in Queue /\ k \in Kernel /\ backlog[k] \in Seq(Queue)
  BY Halves DEF TypeOK
<1>2. UNCHANGED <<ker, pend, sock>>
  BY DEF Dial
<1>3. CASE closed[k]
  <2>1. UNCHANGED <<backlog, conn>>
    BY <1>3 DEF Dial
  <2> QED
    BY <1>2, <2>1, PlacesKept DEF NoneMoves
<1>4. CASE ~closed[k]
  <2>1. /\ backlog' = [backlog EXCEPT ![k] = Append(backlog[k], q)]
        /\ conn' = [conn EXCEPT ![q] = "made"]
    BY <1>4 DEF Dial
  <2>2. conn[q] = "none"
    <3>1. ft[h] = "dial"
      BY DEF Dial, At
    <3>2. Life(h)
      BY DEF Lives
    <3>3. h[2] = "write"
      BY <3>1, <3>2 DEF Life, DialsOnce
    <3> QED
      BY <3>1, <3>2, <3>3 DEF Life, DialsOnce
  <2>3. /\ conn'[q] = "made"
        /\ \A x \in Queue : x # q => conn'[x] = conn[x]
    BY <1>1, <2>1 DEF TypeOK
  <2>4. /\ Len(backlog'[k]) = Len(backlog[k]) + 1 /\ Len(backlog[k]) \in Nat
        /\ backlog'[k][Len(backlog[k]) + 1] = q
        /\ \A i \in 1..Len(backlog[k]) : backlog'[k][i] = backlog[k][i]
    BY <1>1, <2>1 DEF TypeOK
  <2>5. \A j \in Kernel : j # k => backlog'[j] = backlog[j]
    BY <1>1, <2>1 DEF TypeOK
  <2>6. \A j \in Kernel : ~Queued(j, q) /\ ker[j].cur # q
    BY <1>1, <2>2 DEF OnePlace, InBacklog, BeingAccepted
  <2>7. ~pend[q].fd /\ ~sock[<<q, "read">>]
    BY <1>1, <2>2 DEF OnePlace, HandedOver
  <2>8. \A j \in Kernel, x \in Queue : Queued(j, x)' => Queued(j, x) \/ (j = k /\ x = q)
    <3> SUFFICES ASSUME NEW j \in Kernel, NEW x \in Queue, NEW i \in 1..Len(backlog'[j]),
                        backlog'[j][i] = x
                 PROVE  Queued(j, x) \/ (j = k /\ x = q)
      BY DEF Queued
    <3>1. CASE j # k
      BY <2>5, <3>1 DEF Queued
    <3>2. CASE j = k
      <4>1. i \in 1..Len(backlog[k]) \/ i = Len(backlog[k]) + 1
        BY <2>4, <3>2
      <4> QED
        BY <2>4, <3>2, <4>1 DEF Queued
    <3> QED
      BY <3>1, <3>2
  <2> HIDE DEF q, k
  <2>9. InBacklog'
    <3> SUFFICES ASSUME NEW j \in Kernel, NEW x \in Queue, Queued(j, x)'
                 PROVE  /\ j = Side[x]["read"] /\ conn'[x] # "none" /\ ker'[j].cur # x
                        /\ ~pend'[x].fd /\ ~sock'[<<x, "read">>]
      BY DEF InBacklog
    <3>1. CASE x = q
      <4>1. j = k
        BY <2>6, <2>8, <3>1
      <4>2. k = Side[q]["read"]
        BY DEF k, q
      <4> QED
        BY <1>2, <2>3, <2>6, <2>7, <3>1, <4>1, <4>2
    <3>2. CASE x # q
      BY <1>2, <2>3, <2>8, <3>2 DEF OnePlace, InBacklog
    <3> QED
      BY <3>1, <3>2
  <2>10. NoDuplicates'
    <3> SUFFICES ASSUME NEW j \in Kernel, NEW a \in 1..Len(backlog'[j]),
                        NEW b \in 1..Len(backlog'[j]), backlog'[j][a] = backlog'[j][b]
                 PROVE  a = b
      BY DEF NoDuplicates
    <3>1. CASE j # k
      BY <2>5, <3>1 DEF OnePlace, NoDuplicates
    <3>2. CASE j = k
      <4>1. \A i \in 1..Len(backlog[k]) : backlog[k][i] # q
        BY <1>1, <2>6 DEF Queued
      <4>2. \A i, l \in 1..Len(backlog[k]) : backlog[k][i] = backlog[k][l] => i = l
        BY <1>1 DEF OnePlace, NoDuplicates
      <4>3. /\ a \in 1..Len(backlog[k]) \/ a = Len(backlog[k]) + 1
            /\ b \in 1..Len(backlog[k]) \/ b = Len(backlog[k]) + 1
        BY <2>4, <3>2
      <4>4. CASE a \in 1..Len(backlog[k]) /\ b \in 1..Len(backlog[k])
        BY <2>4, <3>2, <4>2, <4>4
      <4>5. CASE a \in 1..Len(backlog[k]) /\ b = Len(backlog[k]) + 1
        BY <2>4, <3>2, <4>1, <4>5
      <4>6. CASE a = Len(backlog[k]) + 1 /\ b \in 1..Len(backlog[k])
        BY <2>4, <3>2, <4>1, <4>6
      <4> QED
        BY <4>3, <4>4, <4>5, <4>6
    <3> QED
      BY <3>1, <3>2
  <2>11. BeingAccepted'
    BY <1>2, <2>3, <2>6 DEF OnePlace, BeingAccepted
  <2>12. HandedOver'
    BY <1>2, <2>3, <2>7 DEF OnePlace, HandedOver
  <2> QED
    BY <2>9, <2>10, <2>11, <2>12 DEF OnePlace
<1> QED
  BY <1>3, <1>4

(* The reader takes the descriptor out of the future.                      *)
LEMMA GetPlaces ==
  ASSUME TypeOK, OnePlace, NEW h \in Half, Get(h)
  PROVE  OnePlace'
<1>1. h[1] \in Queue /\ UNCHANGED <<ker, backlog, conn>>
  BY Halves DEF Get, kvars
<1>2. /\ pend'[h[1]].fd = FALSE
      /\ \A x \in Queue : x # h[1] => pend'[x] = pend[x]
  BY GetPend
<1>3. sock' = [sock EXCEPT ![h] = pend[h[1]].fd]
  BY DEF Get
<1>4. CASE h[2] # "read" \/ ~pend[h[1]].fd
  <2>1. \A x \in Queue : sock'[<<x, "read">>] => sock[<<x, "read">>]
    BY <1>3, <1>4, Halves DEF TypeOK
  <2>2. NoneMoves
    BY <1>1, <1>2, <2>1 DEF NoneMoves
  <2> QED
    BY <2>2, PlacesKept
<1>5. CASE h[2] = "read" /\ pend[h[1]].fd
  <2> DEFINE q == h[1]
  <2>1. \A x \in Queue : x # q => sock'[<<x, "read">>] = sock[<<x, "read">>]
    BY <1>3, Halves DEF TypeOK
  <2>2. conn[q] = "named" /\ \A j \in Kernel : ~Queued(j, q) /\ ker[j].cur # q
    BY <1>1, <1>5 DEF OnePlace, InBacklog, BeingAccepted, HandedOver
  <2>3. \A j \in Kernel, x \in Queue : Queued(j, x)' <=> Queued(j, x)
    BY <1>1 DEF Queued
  <2> HIDE DEF q
  <2>4. /\ pend'[q].fd = FALSE
        /\ \A x \in Queue : x # q => pend'[x] = pend[x]
    BY <1>2 DEF q
  <2>5. InBacklog'
    BY <1>1, <2>1, <2>2, <2>3, <2>4 DEF OnePlace, InBacklog
  <2>6. NoDuplicates'
    BY <1>1 DEF OnePlace, NoDuplicates
  <2>7. BeingAccepted'
    BY <1>1, <2>1, <2>2, <2>4 DEF OnePlace, BeingAccepted
  <2>8. HandedOver'
    BY <1>1, <2>1, <2>2, <2>4 DEF OnePlace, HandedOver
  <2> QED
    BY <2>5, <2>6, <2>7, <2>8 DEF OnePlace
<1> QED
  BY <1>4, <1>5

(* Poll takes the first connection of the backlog.                         *)
LEMMA PollPlaces ==
  ASSUME TypeOK, AtHand, OnePlace, NEW k \in Kernel, Poll(k)
  PROVE  OnePlace'
<1>1. UNCHANGED <<conn, pend, sock>> /\ ker[k].pc = "poll"
  BY DEF Poll, KAt, pvars
<1>2. CASE backlog' = backlog /\ KerMove(k, "loop", ker[k].told, ker[k].cur)
  <2>1. NoneMoves
    BY <1>1, <1>2 DEF NoneMoves, KerMove
  <2> QED
    BY <2>1, PlacesKept
<1>3. CASE /\ backlog[k] # <<>> /\ Head(backlog[k]) \in Queue
           /\ KerMove(k, "accept", ker[k].told, Head(backlog[k]))
           /\ backlog' = [backlog EXCEPT ![k] = Tail(@)]
  <2> DEFINE q == Head(backlog[k])
             n == Len(backlog[k])
  <2>1. backlog[k] \in Seq(Queue) /\ n \in Nat /\ n > 0
    BY <1>3 DEF TypeOK
  <2>2. /\ Len(backlog'[k]) = n - 1 /\ backlog[k][1] = q
        /\ \A i \in 1..(n - 1) : backlog'[k][i] = backlog[k][i + 1]
    BY <1>3, <2>1 DEF TypeOK
  <2>3. \A j \in Kernel : j # k => backlog'[j] = backlog[j]
    BY <1>3 DEF TypeOK
  <2>4. q \in Queue /\ ker'[k].cur = q /\ \A j \in Kernel : j # k => ker'[j] = ker[j]
    BY <1>3 DEF KerMove
  <2> HIDE DEF q, n
  <2>5. Queued(k, q)
    <3>1. 1 \in 1..n /\ backlog[k][1] = q
      BY <2>1, <2>2
    <3> QED
      BY <3>1 DEF Queued, n
  <2>6. k = Side[q]["read"] /\ conn[q] # "none" /\ ~pend[q].fd /\ ~sock[<<q, "read">>]
    BY <2>4, <2>5 DEF OnePlace, InBacklog
  <2>7. \A i, l \in 1..n : backlog[k][i] = backlog[k][l] => i = l
    BY DEF OnePlace, NoDuplicates, n
  <2>8. \A x \in Queue : Queued(k, x)' => Queued(k, x) /\ x # q
    <3> SUFFICES ASSUME NEW x \in Queue, NEW i \in 1..(n - 1), backlog'[k][i] = x
                 PROVE  Queued(k, x) /\ x # q
      BY <2>2 DEF Queued
    <3>1. i + 1 \in 1..n /\ 1 \in 1..n /\ i + 1 # 1 /\ backlog[k][i + 1] = x
      BY <2>1, <2>2
    <3> QED
      BY <2>2, <2>7, <3>1 DEF Queued, n
  <2>9. \A j \in Kernel, x \in Queue : j # k => (Queued(j, x)' <=> Queued(j, x))
    BY <2>3 DEF Queued
  <2>10. InBacklog'
    BY <1>1, <2>4, <2>6, <2>8, <2>9 DEF OnePlace, InBacklog
  <2>11. NoDuplicates'
    <3> SUFFICES ASSUME NEW j \in Kernel, NEW a \in 1..Len(backlog'[j]),
                        NEW b \in 1..Len(backlog'[j]), backlog'[j][a] = backlog'[j][b]
                 PROVE  a = b
      BY DEF NoDuplicates
    <3>1. CASE j # k
      BY <2>3, <3>1 DEF OnePlace, NoDuplicates
    <3>2. CASE j = k
      <4>1. a \in 1..(n - 1) /\ b \in 1..(n - 1)
        BY <2>2, <3>2
      <4>2. a + 1 \in 1..n /\ b + 1 \in 1..n
        BY <2>1, <4>1
      <4>3. backlog[k][a + 1] = backlog[k][b + 1]
        BY <2>2, <3>2, <4>1
      <4>4. a + 1 = b + 1
        BY <2>7, <4>2, <4>3
      <4> QED
        BY <4>4
    <3> QED
      BY <3>1, <3>2
  <2>12. BeingAccepted'
    BY <1>1, <2>4, <2>6 DEF OnePlace, BeingAccepted
  <2>13. HandedOver'
    BY <1>1 DEF OnePlace, HandedOver
  <2> QED
    BY <2>10, <2>11, <2>12, <2>13 DEF OnePlace
<1> QED
  BY <1>2, <1>3, PollKer

(* Poll hands the connection it has accepted to the future.                *)
LEMMA AcceptedPlaces ==
  ASSUME TypeOK, AtHand, OnePlace, NEW k \in Kernel, Accepted(k)
  PROVE  OnePlace'
<1> DEFINE q == ker[k].cur
<1>1. q \in Queue
  BY DEF Accepted, KAt, AtHand, TypeOK, KernelState
<1>2. UNCHANGED <<backlog, conn, sock>> /\ conn[q] = "named"
  BY DEF Accepted
<1>3. /\ ker'[k].cur = None /\ None \notin Queue
      /\ \A j \in Kernel : j # k => ker'[j] = ker[j]
  BY AcceptedKer, SideAssumption DEF KerMove
<1>4. \A x \in Queue : x # q => pend'[x] = pend[x]
  BY <1>1, AcceptedPend
<1>5. k = Side[q]["read"] /\ ~sock[<<q, "read">>]
  BY <1>1 DEF OnePlace, BeingAccepted
<1>6. \A j \in Kernel : ~Queued(j, q) /\ (j # k => ker[j].cur # q)
  BY <1>1, <1>5 DEF OnePlace, InBacklog, BeingAccepted
<1>7. \A j \in Kernel, x \in Queue : Queued(j, x)' <=> Queued(j, x)
  BY <1>2 DEF Queued
<1> HIDE DEF q
<1>8. InBacklog'
  BY <1>2, <1>3, <1>4, <1>6, <1>7 DEF OnePlace, InBacklog
<1>9. NoDuplicates'
  BY <1>2 DEF OnePlace, NoDuplicates
<1>10. BeingAccepted'
  BY <1>2, <1>3, <1>4, <1>6 DEF OnePlace, BeingAccepted
<1>11. HandedOver'
  BY <1>2, <1>4, <1>5 DEF OnePlace, HandedOver
<1> QED
  BY <1>8, <1>9, <1>10, <1>11 DEF OnePlace

(* Close resets the connections of the backlog.                            *)
LEMMA ClosePlaces ==
  ASSUME TypeOK, OnePlace, NEW k \in Kernel, Close(k)
  PROVE  OnePlace'
<1>1. UNCHANGED sock /\ backlog' = [backlog EXCEPT ![k] = <<>>]
  BY DEF Close
<1>2. \A j \in Kernel : ker'[j].cur = ker[j].cur
  <2>1. KerMove(k, "shutdown", ker[k].told, ker[k].cur)
    BY KGoKer DEF Close
  <2> QED
    BY <2>1 DEF KerMove
<1>3. \A q \in Queue : pend'[q].fd = pend[q].fd
  BY ClosePend
<1>4. \A q \in Queue : \/ conn'[q] = conn[q]
                       \/ conn'[q] = "reset" /\ Queued(k, q)
  <2>1. DOMAIN backlog[k] = 1..Len(backlog[k])
    BY DEF TypeOK
  <2> QED
    BY <2>1 DEF Close, Queued, TypeOK
<1>5. backlog'[k] = <<>> /\ \A j \in Kernel : j # k => backlog'[j] = backlog[j]
  BY <1>1 DEF TypeOK
<1>6. \A j \in Kernel, q \in Queue : Queued(j, q)' => Queued(j, q)
  BY <1>5 DEF Queued
<1>7. InBacklog'
  BY <1>1, <1>2, <1>3, <1>4, <1>6 DEF OnePlace, InBacklog
<1>8. NoDuplicates'
  BY <1>5 DEF OnePlace, NoDuplicates
<1>9. BeingAccepted'
  BY <1>1, <1>2, <1>3, <1>4 DEF OnePlace, BeingAccepted
<1>10. HandedOver'
  BY <1>1, <1>3, <1>4 DEF OnePlace, HandedOver, InBacklog
<1> QED
  BY <1>7, <1>8, <1>9, <1>10 DEF OnePlace

LEMMA PlacesStep ==
  ASSUME TypeOK, AtHand, Lives, OnePlace, [Next]_vars
  PROVE  OnePlace'
<1>1. ASSUME NEW h \in Half, Create(h) PROVE OnePlace'
  <2>1. UNCHANGED <<backlog, conn, pend, ker, sock>>
    BY <1>1 DEF Create, kvars, pvars
  <2> QED
    BY <2>1, PlacesKept DEF NoneMoves
<1>2. ASSUME NEW h \in Half, Top(h) PROVE OnePlace'
  <2>1. UNCHANGED <<backlog, conn, pend, ker, sock>>
    BY <1>2 DEF Top, kvars, pvars
  <2> QED
    BY <2>1, PlacesKept DEF NoneMoves
<1>3. ASSUME NEW h \in Half, Ask(h) PROVE OnePlace'
  <2>1. UNCHANGED <<backlog, conn, pend, ker, sock>>
    BY <1>3 DEF Ask, kvars, pvars
  <2> QED
    BY <2>1, PlacesKept DEF NoneMoves
<1>4. ASSUME NEW h \in Half, Look(h) PROVE OnePlace'
  <2>1. UNCHANGED <<backlog, conn, pend, ker, sock>>
    BY <1>4 DEF Look, kvars, pvars
  <2> QED
    BY <2>1, PlacesKept DEF NoneMoves
<1>5. ASSUME NEW h \in Half, Dial(h) PROVE OnePlace'
  BY <1>5, DialPlaces
<1>6. ASSUME NEW h \in Half, Name(h) PROVE OnePlace'
  <2>1. UNCHANGED <<backlog, pend, ker>>
    BY <1>6 DEF Name, kvars
  <2>2. \A q \in Queue : conn'[q] = conn[q] \/ conn'[q] = "named"
    BY <1>6 DEF Name, TypeOK
  <2>3. h[2] = "write"
    <3>1. ft[h] = "name" /\ Life(h)
      BY <1>6 DEF Name, At, Lives
    <3> QED
      BY <3>1 DEF Life, DialsOnce
  <2>4. \A q \in Queue : sock'[<<q, "read">>] = sock[<<q, "read">>]
    <3>1. sock' = sock \/ sock' = [sock EXCEPT ![h] = TRUE]
      BY <1>6 DEF Name
    <3> QED
      BY <2>3, <3>1, Halves DEF TypeOK
  <2> QED
    BY <2>1, <2>2, <2>4, PlacesKept DEF NoneMoves
<1>7. ASSUME NEW h \in Half, Register(h) PROVE OnePlace'
  <2>1. UNCHANGED <<backlog, conn, ker, sock>>
    BY <1>7 DEF Register, kvars
  <2> QED
    BY <1>7, <2>1, RegisterPend, PlacesKept DEF NoneMoves
<1>8. ASSUME NEW h \in Half, Get(h) PROVE OnePlace'
  BY <1>8, GetPlaces
<1>9. ASSUME NEW h \in Half, Forget(h) PROVE OnePlace'
  <2>1. UNCHANGED <<backlog, conn, ker, sock>>
    BY <1>9 DEF Forget, kvars
  <2>2. \A q \in Queue : pend'[q].fd => pend[q].fd
    BY <1>9, GetPend
  <2> QED
    BY <2>1, <2>2, PlacesKept DEF NoneMoves
<1>10. ASSUME NEW h \in Half, Finish(h) PROVE OnePlace'
  <2>1. UNCHANGED <<backlog, conn, pend, ker, sock>>
    BY <1>10 DEF Finish, kvars, pvars
  <2> QED
    BY <2>1, PlacesKept DEF NoneMoves
<1>11. ASSUME NEW h \in Half, Run(h) PROVE OnePlace'
  <2>1. UNCHANGED <<backlog, conn, pend, ker, sock>>
    BY <1>11 DEF Run, kvars, pvars
  <2> QED
    BY <2>1, PlacesKept DEF NoneMoves
<1>12. ASSUME NEW h \in Half, Exit(h) PROVE OnePlace'
  <2>1. UNCHANGED <<backlog, conn, pend, sock>>
    BY <1>12 DEF Exit, pvars
  <2> QED
    BY <1>12, <2>1, ExitKer, PlacesKept DEF NoneMoves, KerSame
<1>13. ASSUME NEW k \in Kernel, Terminate(k) PROVE OnePlace'
  <2>1. UNCHANGED <<backlog, conn, pend, ker, sock>>
    BY <1>13 DEF Terminate, kvars, pvars
  <2> QED
    BY <2>1, PlacesKept DEF NoneMoves
<1>14. ASSUME NEW k \in Kernel, NotifyTerminate(k) PROVE OnePlace'
  <2>1. UNCHANGED <<backlog, conn, pend, sock>>
    BY <1>14 DEF NotifyTerminate, pvars
  <2> QED
    BY <1>14, <2>1, NotifyKer, PlacesKept DEF NoneMoves, KerMove
<1>15. ASSUME NEW k \in Kernel, Loop(k) PROVE OnePlace'
  <2>1. UNCHANGED <<backlog, conn, pend, sock>>
    BY <1>15 DEF Loop, pvars
  <2>2. \/ KerMove(k, "close", ker[k].told, ker[k].cur)
        \/ KerMove(k, "poll", ker[k].told, ker[k].cur)
    BY <1>15, KGoKer DEF Loop
  <2> QED
    BY <2>1, <2>2, PlacesKept DEF NoneMoves, KerMove
<1>16. ASSUME NEW k \in Kernel, Poll(k) PROVE OnePlace'
  BY <1>16, PollPlaces
<1>17. ASSUME NEW k \in Kernel, Accepted(k) PROVE OnePlace'
  BY <1>17, AcceptedPlaces
<1>18. ASSUME NEW k \in Kernel, Close(k) PROVE OnePlace'
  BY <1>18, ClosePlaces
<1>19. ASSUME NEW k \in Kernel, HolderShutdown(k) PROVE OnePlace'
  <2>1. UNCHANGED <<backlog, conn, pend, sock>>
    BY <1>19 DEF HolderShutdown, pvars
  <2>2. KerMove(k, "drain", ker[k].told, ker[k].cur)
    BY <1>19, KGoKer DEF HolderShutdown
  <2> QED
    BY <2>1, <2>2, PlacesKept DEF NoneMoves, KerMove
<1>20. ASSUME NEW k \in Kernel, Drain(k) PROVE OnePlace'
  <2>1. UNCHANGED <<backlog, conn, pend, sock>>
    BY <1>20 DEF Drain, pvars
  <2>2. KerMove(k, "done", ker[k].told, ker[k].cur)
    BY <1>20, KGoKer DEF Drain
  <2> QED
    BY <2>1, <2>2, PlacesKept DEF NoneMoves, KerMove
<1>21. CASE UNCHANGED vars
  BY <1>21, PlacesKept DEF NoneMoves, vars, kvars, pvars
<1> QED
  BY <1>1, <1>2, <1>3, <1>4, <1>5, <1>6, <1>7, <1>8, <1>9, <1>10, <1>11,
     <1>12, <1>13, <1>14, <1>15, <1>16, <1>17, <1>18, <1>19, <1>20, <1>21 DEF Next
-----------------------------------------------------------------------------
LEMMA Start == Init => IInv
<1> SUFFICES ASSUME Init PROVE IInv
  OBVIOUS
<1>1. TypeOK
  <2>1. ker \in [Kernel -> KernelState]
    BY DEF Init, KernelState
  <2>2. pend \in [Queue -> Pending]
    BY NoPendingIs DEF Init
  <2>3. backlog \in [Kernel -> Seq(Queue)]
    BY DEF Init
  <2>4. ft \in [Half -> Pc]
    BY DEF Init, Pc
  <2> QED
    BY <2>1, <2>2, <2>3, <2>4 DEF Init, TypeOK
<1>2. AtHand /\ ToldFirst
  BY DEF Init, AtHand, ToldFirst
<1>3. Held /\ NoneLeft
  BY DEF Init, Held, NoneLeft, KAt
<1>4. Lives
  BY Halves DEF Init, Lives, Life, DialsOnce, EndedDead
<1>5. \A k \in Kernel : Len(backlog[k]) = 0 /\ ker[k].cur = None
  BY DEF Init
<1>6. \A k \in Kernel, q \in Queue : ~Queued(k, q)
  BY <1>5 DEF Queued
<1>7. InBacklog /\ NoDuplicates
  BY <1>5, <1>6 DEF InBacklog, NoDuplicates
<1>8. BeingAccepted
  BY <1>5, SideAssumption DEF BeingAccepted
<1>9. HandedOver
  BY Halves, NoPendingIs DEF Init, HandedOver
<1> QED
  BY <1>1, <1>2, <1>3, <1>4, <1>7, <1>8, <1>9 DEF IInv, OnePlace

LEMMA Step == IInv /\ [Next]_vars => IInv'
<1> SUFFICES ASSUME IInv, [Next]_vars PROVE IInv'
  OBVIOUS
<1>1. TypeOK /\ AtHand /\ ToldFirst /\ Held /\ NoneLeft /\ Lives /\ OnePlace /\ InBacklog
  BY DEF IInv, OnePlace
<1>2. TypeOK'
  BY <1>1, TypesStep
<1>3. AtHand' /\ ToldFirst'
  BY <1>1, KernelStep
<1>4. Held' /\ NoneLeft'
  BY <1>1, HolderStep
<1>5. Lives'
  BY <1>1, LifeStep
<1>6. OnePlace'
  BY <1>1, PlacesStep
<1> QED
  BY <1>2, <1>3, <1>4, <1>5, <1>6 DEF IInv

(* The inductive invariant of the connection server, the holders and the   *)
(* file threads.                                                           *)
THEOREM Invariance == Spec => []IInv
BY Start, Step, PTL DEF Spec

(* Every variable of the servers, the holders and the threads keeps its    *)
(* type, whatever the number of kernels and queues.                        *)
THEOREM TypeCorrect == Spec => []TypeOK
<1>1. IInv => TypeOK
  BY DEF IInv
<1> QED
  BY Invariance, <1>1, PTL

(* A reader gets the connection of its own writer, and the descriptor is   *)
(* with the kernel thread in Poll, in the PendingConnection or with the    *)
(* RemoteQueue, never with two of them: it is closed once.                 *)
THEOREM DescriptorHasOneOwner == Spec => []OneOwner
<1>1. IInv => OneOwner
  BY Halves DEF IInv, OnePlace, HandedOver, BeingAccepted, OneOwner
<1> QED
  BY Invariance, <1>1, PTL

(* When the kernel thread leaves RemoteQueueHolder::Shutdown no file       *)
(* thread of its queues runs, and ~RemoteQueue finds every queue dead but  *)
(* a writer that the context threw out of its look-up.                     *)
THEOREM EndsClean == Spec => []CleanEnd
<1>1. ASSUME IInv PROVE DeadWhenDropped
  <2> SUFFICES ASSUME NEW h \in Half, <<h, FALSE>> \in dropped
               PROVE  h[2] = "write" /\ terminated[KernelOf(h)] /\ conn[h[1]] = "none"
    BY DEF DeadWhenDropped
  <2>1. EndedDead(h)
    BY <1>1 DEF IInv, Lives, Life
  <2> QED
    BY <2>1 DEF EndedDead, ThrownOut
<1>2. IInv => CleanEnd
  BY <1>1 DEF IInv, CleanEnd
<1> QED
  BY Invariance, <1>2, PTL

====
