---------------------------- MODULE RemoteQueue ----------------------------
(***************************************************************************)
(* CPN::RemoteQueue: a queue split in half across a socket.  The writer's  *)
(* half lives in the kernel of the writing node, the reader's half in the  *)
(* kernel of the reading node.  A half has its own lock and three threads: *)
(* the node, which calls the queue as it calls any other; the action       *)
(* thread, which does all reading and writing of packets; and the file     *)
(* thread, which polls the socket and prods the action thread.             *)
(*                                                                         *)
(* The state of a half is one record, q[h].  What InternalCheckStatus and  *)
(* the packet handlers do to it are operators on such a record, so that a  *)
(* stretch of code under the lock is one composition of them.  The socket  *)
(* is a sequence of packets for each direction.  A packet is delivered as  *)
(* soon as it is sent: a late one is a receiver that is slow to look.      *)
(*                                                                         *)
(* Module ThresholdQueue has the details of the buffer (oldqueue, asking   *)
(* again while holding a pointer); module D4R has the algorithm behind the *)
(* tags.  Here a tag is a version number, and a blocked writer may be told *)
(* to grow its queue at any time.  The Lamport clocks are compared only to *)
(* see whether the peer has heard of the present wait, so a clock is the   *)
(* number of waits begun.                                                  *)
(***************************************************************************)
EXTENDS Integers, Sequences, FiniteSets

CONSTANTS
  InitLength, InitMaxThreshold, \* the attributes the queue is created with
  Alpha,                 \* share of the writer's half, <<p, n>> for p/n
  MaxWrite,              \* maxwritethreshold: largest packet, 0 for no limit
  Thresholds,            \* the thresholds a node asks for
  GrowQueueMaxThreshold, UseD4R, \* the kernel attributes of these names
  GrowArgs,              \* calls of Grow: pairs of a length and a threshold
  CanTerminate,          \* halves whose kernel may be told first to terminate
  FirstTag,              \* halves whose node has yet to signal its first tag
  MaxItems,              \* bound: bytes written
  MaxTags                \* bound: changes of the nodes' tags

Half == {"read", "write"}

ASSUME LengthAssumption ==
  InitLength \in Nat /\ InitMaxThreshold \in Nat \ {0} /\ MaxWrite \in Nat
ASSUME AlphaAssumption ==
  Alpha[1] \in Nat /\ Alpha[2] \in Nat \ {0} /\ Alpha[1] <= Alpha[2]
ASSUME NodeAssumption ==
  /\ Thresholds \subseteq Nat \ {0} /\ GrowQueueMaxThreshold \in BOOLEAN
  /\ UseD4R \in BOOLEAN /\ CanTerminate \subseteq Half /\ GrowArgs \subseteq Nat \X Nat
  /\ FirstTag \subseteq Half /\ MaxItems \in Nat /\ MaxTags \in Nat

VARIABLES
  q,          \* the two halves
  chan,       \* packets sent by a half and not yet read by the other
  sock,       \* "open", "shut" for writing (ShutdownWrite), or "closed"
  terminated, \* the kernel of the half has been told to terminate
  written,    \* number of bytes written so far
  out,        \* bytes read so far
  failed      \* the ASSERTs that have failed

dvars == <<written, out>>
vars  == <<q, chan, sock, terminated, dvars, failed>>

Other(h) == IF h = "read" THEN "write" ELSE "read"
Larger(a, b) == IF a >= b THEN a ELSE b
Lesser(a, b) == IF a <= b THEN a ELSE b

---------------------------------------------------------------------------
(* The buffer of a half, and how the queue's length is shared.             *)

WriterPart(length) == (length * Alpha[1]) \div Alpha[2]

QueueLength(length, maxthresh, h) ==
  Larger(IF h = "read" THEN length - WriterPart(length) ELSE WriterPart(length),
         maxthresh)

Free(x) == x.len - Len(x.data)

(* UnlockedCount: the writer's half adds what is on the other side.        *)
Count(h, x) == Len(x.data) + IF h = "write" THEN x.bytes ELSE 0

(* InternalGetRaw{De,En}queuePtr returns a pointer.                        *)
Gives(h, x, th) == th <= x.max /\ th <= IF h = "read" THEN Len(x.data) ELSE Free(x)

(* ReadBlocked and WriteBlocked, after their CheckTerminated.              *)
Blocked(h, x, d) ==
  x.req[d] > (IF d = "read" THEN Count(h, x) ELSE Free(x)) /\ x.shut = {}

(* Mutant of GrowBuffer: the data stays behind in the old buffer.          *)
GrowBufferFresh(x, length, maxthresh) ==
  LET m == Larger(x.max, maxthresh)
  IN  IF length <= x.len /\ maxthresh <= x.max THEN x
      ELSE [x EXCEPT !.max = m, !.len = Larger(Larger(x.len, length), m), !.data = <<>>]

(* ThresholdQueue::UnlockedGrow.                                           *)
GrowBuffer(x, length, maxthresh) ==
  LET m == Larger(x.max, maxthresh)
  IN  IF length <= x.len /\ maxthresh <= x.max THEN x
      ELSE [x EXCEPT !.max = m, !.len = Larger(Larger(x.len, length), m)]

(* The part UnlockedGrow and GrowPacket share.                             *)
Resize(h, x, length, maxthresh) ==
  LET m == Larger(x.max, maxthresh)
      r == QueueLength(length, m, "read")
      w == QueueLength(length, m, "write")
  IN  GrowBuffer([x EXCEPT !.rlen = r, !.wlen = w], IF h = "read" THEN r ELSE w, m)

(* RemoteQueue::Signal: pendingAction, and a broadcast.                    *)
Signal(x) == [x EXCEPT !.pending = @ \cup {"action"}, !.asleep = FALSE]

(* Mutant of Notify: wakes only if there is more than was asked for.       *)
NotifyMore(h, x, d) ==
  IF (IF d = "read" THEN Count(h, x) ELSE Free(x)) > x.req[d]
    THEN [x EXCEPT !.asleep = FALSE] ELSE x

(* NotifyData and NotifyFreespace.                                         *)
Notify(h, x, d) ==
  IF (IF d = "read" THEN Count(h, x) ELSE Free(x)) >= x.req[d]
    THEN [x EXCEPT !.asleep = FALSE] ELSE x

(* Mutant of ShutEnd: nobody is woken.                                     *)
ShutEndQuiet(x, d) == [x EXCEPT !.shut = @ \cup {d}]

ShutEnd(x, d) == Signal([x EXCEPT !.shut = @ \cup {d}])
UnlockedShutdown(x) == Signal([x EXCEPT !.dead = TRUE])

(* The arguments of a growth that waits, and where it goes on; without one.*)
NoArgs == <<0, 0, "loop">>

InitHalf(h) ==
  [len |-> Larger(QueueLength(InitLength, InitMaxThreshold, h), InitMaxThreshold),
   max |-> InitMaxThreshold, data |-> <<>>,
   rlen |-> QueueLength(InitLength, InitMaxThreshold, "read"),
   wlen |-> QueueLength(InitLength, InitMaxThreshold, "write"),
   bytes |-> 0,                           \* bytecount
   shut |-> {}, inop |-> {},              \* readshutdown..., indequeue...
   req |-> [d \in Half |-> 0],            \* readrequest, writerequest
   pending |-> {"action"},                \* pendingAction, pendingBlock...
   tagUpdated |-> Other(h) \notin FirstTag, sentEnd |-> FALSE, dead |-> FALSE,
   waits |-> 0, known |-> 0, seen |-> 0,  \* clock; the peer's; its view of ours
   tag |-> 1, mock |-> IF Other(h) \in FirstTag THEN 0 ELSE 1, \* the peer's tag
   sig |-> h \in FirstTag,
   pc |-> "idle", want |-> 0, grown |-> FALSE, args |-> NoArgs,
   asleep |-> FALSE, locked |-> FALSE,
   apc |-> "wait", term |-> FALSE, win |-> <<>>, eof |-> FALSE,
   fpc |-> "poll"]

(* The halves have been connected.  A node signals its first tag when it   *)
(* is given its end (PseudoNode::Create{Reader,Writer}), after the threads *)
(* have been started: it has yet to, or the peer already has the tag.      *)
Init ==
  /\ q = [h \in Half |-> InitHalf(h)]
  /\ chan = [h \in Half |-> <<>>] /\ sock = [h \in Half |-> "open"]
  /\ terminated = [h \in Half |-> FALSE]
  /\ written = 0 /\ out = <<>> /\ failed = {}

(* A failed ASSERT ends the program: nothing happens to the halves then.   *)
Set(h, x) == failed = {} /\ q' = [q EXCEPT ![h] = x]
Local == UNCHANGED <<chan, sock, terminated>>

---------------------------------------------------------------------------
(* The node: GetRaw{De,En}queuePtr of QueueBase over the half's overrides. *)

MaxGrows(x) == x.want > x.max /\ GrowQueueMaxThreshold
OtherBlocked(h, x) ==
  /\ h = "write" => ~x.grown
  /\ Blocked(h, x, Other(h)) /\ GrowQueueMaxThreshold

(* Mutant of UnlockedGrow: the peer is not told.                           *)
UnlockedGrowLocal(h, x, length, maxthresh) ==
  IF length <= x.rlen + x.wlen /\ maxthresh <= x.max THEN x
  ELSE Signal(Resize(h, x, length, maxthresh))

(* RemoteQueue::UnlockedGrow: nothing to do, wait until the last growth    *)
(* has been sent, or now.                                                  *)
UnlockedGrow(h, x, length, maxthresh) ==
  IF length <= x.rlen + x.wlen /\ maxthresh <= x.max THEN x
  ELSE IF "grow" \in x.pending /\ ~x.dead
    THEN [Signal(x) EXCEPT !.pc = "growwait", !.locked = FALSE,
                           !.args = <<length, maxthresh, x.pc>>]
    ELSE LET y == Resize(h, x, length, maxthresh)
         IN  Signal([y EXCEPT !.pending = @ \cup {"grow"}])

(* ASSERT(!(inenqueue && indequeue)) in ThresholdQueue::UnlockedGrow, by a *)
(* node that has called Grow with its own pointer out, or by anyone else.  *)
(* The two ASSERTs after it are those of module ThresholdQueue.            *)
GrowAsserts(x, y, pc) ==
  IF (x.len # y.len \/ x.max # y.max) /\ x.inop = Half
    THEN {IF pc = "held" THEN "call" ELSE "grow"} ELSE {}

(* growth, with the lock kept for the next iteration,                      *)
LoopGrow(h, x) ==
  LET y == UnlockedGrow(h, [x EXCEPT !.grown = h = "write" /\ ~MaxGrows(x),
                                     !.pc = "loop", !.locked = TRUE],
             IF MaxGrows(x) THEN 2 * x.want ELSE x.req[Other(h)] + x.want, x.want)
  IN  Set(h, Signal(y)) /\ failed' = failed \cup GrowAsserts(x, y, "loop")

(* WaitForData, WaitForFreespace: the action thread is to tell the peer,   *)
(* whose answer must be newer than this wait.                              *)
Waiting(h, x) ==
  [Signal([x EXCEPT !.pending = @ \cup {"block"}]) EXCEPT
     !.req[h] = x.want, !.tagUpdated = FALSE, !.waits = @ + 1, !.pc = "tagwait",
     !.asleep = TRUE]

(* Iterations of "while (true)" under the lock, up to the one that gives   *)
(* it up or grows the queue: a pointer; 0 for a reader whose writer has    *)
(* shut down; the exception for a shut queue; growth; the exception of     *)
(* CheckTerminated in ReadBlocked and WriteBlocked; or the wait.           *)
Iterate(h, z) ==
  LET x == [z EXCEPT !.locked = FALSE]
      retry == ~Gives(h, x, x.want)
      open  == retry /\ x.shut = {}
  IN
  \/ /\ ~retry
     /\ Set(h, [x EXCEPT !.inop = @ \cup {h}, !.pc = "held"]) /\ UNCHANGED failed
  \/ /\ retry /\ x.shut # {}
     /\ Set(h, [x EXCEPT !.pc = IF h = "read" /\ "write" \in x.shut THEN "idle"
                                ELSE "ending"])
     /\ UNCHANGED failed
  \/ /\ open /\ (MaxGrows(x) \/ (~terminated[h] /\ OtherBlocked(h, x)))
     /\ LoopGrow(h, x)
  \/ /\ open /\ ~MaxGrows(x) /\ terminated[h]
     /\ Set(h, [x EXCEPT !.pc = "ending"]) /\ UNCHANGED failed
  \/ /\ open /\ ~MaxGrows(x) /\ ~terminated[h] /\ ~OtherBlocked(h, x)
     /\ Set(h, Waiting(h, x)) /\ UNCHANGED failed

Call(h) ==
  LET x == q[h] IN
  /\ x.pc = "idle" /\ ~x.locked /\ ~x.sig
  /\ \/ terminated[h] /\ Set(h, [x EXCEPT !.pc = "ending"]) /\ UNCHANGED failed
     \/ /\ ~terminated[h]
        /\ \E th \in Thresholds :
             /\ h = "write" => written < MaxItems
             /\ Iterate(h, [x EXCEPT !.want = th, !.grown = FALSE])
  /\ Local /\ UNCHANGED dvars

Loop(h) ==
  /\ q[h].pc = "loop" /\ Iterate(h, q[h])
  /\ Local /\ UNCHANGED dvars

(* The end of the wait in UnlockedGrow: its arguments are as old as that.  *)
GrowWaited(h) ==
  LET x == q[h]
      y == [Resize(h, x, x.args[1], x.args[2]) EXCEPT
              !.pending = @ \cup {"grow"}, !.pc = x.args[3], !.args = NoArgs,
              !.locked = x.args[3] = "loop"]
  IN
  /\ x.pc = "growwait" /\ ~x.locked /\ ("grow" \notin x.pending \/ x.dead)
  /\ Set(h, Signal(y)) /\ failed' = failed \cup GrowAsserts(x, y, y.pc)
  /\ Local /\ UNCHANGED dvars

(* QueueBase::Grow.  The caller must see to it that not both pointers are  *)
(* out.  A node that holds its own has seen to that as far as it can: the  *)
(* other one is the action thread's.                                       *)
Grow(h) ==
  LET x == q[h] IN
  /\ x.pc \in {"idle", "held"} /\ ~x.locked /\ ~x.sig
  /\ \E a \in GrowArgs :
       LET y == UnlockedGrow(h, x, a[1], a[2])
       IN  y # x /\ Set(h, y) /\ failed' = failed \cup GrowAsserts(x, y, x.pc)
  /\ Local /\ UNCHANGED dvars

(* Mutant of Fresh: any tag will do.                                       *)
FreshAny(x) == x.tagUpdated

(* A thread in WaitForData or WaitForFreespace, woken: terminated, blocked *)
(* again, blocked with a fresh tag (it goes on to wait in D4R), or free.   *)
Fresh(x) == x.tagUpdated /\ x.seen = x.waits

Wakeup(h) ==
  LET x == q[h] IN
  /\ x.pc \in {"tagwait", "d4r"} /\ ~x.asleep /\ ~x.locked /\ ~x.sig
  /\ \/ /\ terminated[h]
        /\ Set(h, [x EXCEPT !.pc = "ending"]) /\ UNCHANGED failed
     \/ /\ ~terminated[h] /\ Blocked(h, x, h)
        /\ Set(h, [x EXCEPT !.asleep = TRUE, !.pc = IF Fresh(x) THEN "d4r" ELSE @])
        /\ UNCHANGED failed
     \/ /\ ~terminated[h] /\ ~Blocked(h, x, h)
        /\ Iterate(h, [x EXCEPT !.req[h] = 0])
  /\ Local /\ UNCHANGED dvars

(* D4R, in the node's thread, changes its tag and then signals the queue.  *)
TagChange(h) ==
  LET x == q[h] IN
  /\ UseD4R /\ x.pc \in {"idle", "d4r"} /\ ~x.sig
  /\ q["read"].tag + q["write"].tag < 2 + MaxTags
  /\ Set(h, [x EXCEPT !.tag = @ + 1, !.sig = TRUE])
  /\ Local /\ UNCHANGED <<dvars, failed>>

(* UnlockedSignal{Reader,Writer}TagChanged.                                *)
SignalTagChanged(h) ==
  LET x == q[h] IN
  /\ x.sig /\ ~x.locked
  /\ Set(h, Signal([x EXCEPT !.sig = FALSE, !.pending = @ \cup {"tag"}]))
  /\ Local /\ UNCHANGED <<dvars, failed>>

(* QueueBase::Detect, CalculateGrowSize(current, request) = their sum.  It *)
(* is called after an unlock, without another look at the queue.           *)
Detect ==
  LET x == q["write"]
      y == UnlockedGrow("write", x, Count("write", x) + x.req["write"], x.req["write"])
  IN
  /\ x.pc = "d4r" /\ ~x.locked /\ ~x.sig /\ y # x
  /\ Set("write", y) /\ failed' = failed \cup GrowAsserts(x, y, x.pc)
  /\ Local /\ UNCHANGED dvars

(* Dequeue(n) and Enqueue(n).                                              *)
GiveBack(h, n) ==
  LET x == q[h]
      y == [x EXCEPT !.inop = @ \ {h}, !.want = 0, !.grown = FALSE,
                     !.pc = IF h \in x.shut THEN "ending" ELSE "idle"]
      new == [i \in 1 .. n |-> written + i]
      z == IF h = "read" THEN [y EXCEPT !.data = SubSeq(@, n + 1, Len(@))]
                         ELSE [y EXCEPT !.data = @ \o new]
  IN
  /\ x.pc = "held" /\ ~x.locked /\ n <= x.want /\ (h = "write" => written + n <= MaxItems)
  /\ IF h \in x.shut
       THEN Set(h, y) /\ UNCHANGED dvars
       ELSE /\ Set(h, Signal(z))
            /\ out' = IF h = "read" THEN out \o SubSeq(x.data, 1, n) ELSE out
            /\ written' = IF h = "write" THEN written + n ELSE written
  /\ Local /\ UNCHANGED failed

(* ShutdownReader or ShutdownWriter: the node releases its end, or ends.   *)
Shutdown(h) ==
  LET x == q[h] IN
  /\ x.pc \in {"idle", "ending"} /\ ~x.locked /\ ~x.sig
  /\ Set(h, [ShutEnd(x, h) EXCEPT !.pc = "done", !.want = 0, !.grown = FALSE])
  /\ Local /\ UNCHANGED <<dvars, failed>>

---------------------------------------------------------------------------
(* The packets.  Each carries the sender's clock and what it knows of the  *)
(* receiver's (SetupPacket, UpdateClock).                                  *)

Types == {"enqueue", "dequeue", "readblock", "writeblock", "endofwrite",
          "endofread", "grow", "d4rtag"}

(* m is a half in InternalCheckStatus, with the packets it has sent there; *)
(* n is count, requested, maxThresh or the tag.                            *)
Send(m, type, n, size, data) ==
  [m EXCEPT !.sent = Append(@,
     [type |-> type, n |-> n, size |-> size, data |-> data,
      wait |-> m.x.waits, ack |-> m.x.known])]

(* ASSERT(!writeshutdown), ASSERT(!readshutdown) of the handlers.          *)
HandlerAsserts(h, x, p) ==
  IF p.type \notin {"grow", "d4rtag"} /\ Other(h) \in x.shut THEN {"handler"} ELSE {}

(* The reader's half is asked for its tag if the writer is to stay blocked.*)
WriteBlockPacket(x, p) ==
  [x EXCEPT !.req["write"] = p.n,
            !.pending = IF p.n + Len(x.data) > x.rlen /\ UseD4R
                          THEN @ \cup {"tag"} ELSE @]

ReadBlockPacket(x, p) ==
  [x EXCEPT !.req["read"] = p.n,
            !.pending = IF p.n > Len(x.data) + x.bytes /\ UseD4R
                          THEN @ \cup {"tag"} ELSE @]

DequeuePacket(x, p) == [x EXCEPT !.req["read"] = 0, !.bytes = @ - p.n]

D4RTagPacket(x, p) == Signal([x EXCEPT !.tagUpdated = TRUE, !.mock = p.n])

(* Up to the window in which the data is read from the socket, unlocked.   *)
EnqueuePacket(x, p) ==
  [(IF p.n > Free(x) \/ p.n > x.max THEN GrowBuffer(x, Len(x.data) + p.n, p.n) ELSE x)
     EXCEPT !.inop = @ \cup {"write"}, !.win = p.data, !.apc = "recv"]

Handle(h, x, p) ==
  LET y == [x EXCEPT !.known = p.wait, !.seen = p.ack] IN
  CASE p.type = "enqueue"    -> EnqueuePacket(y, p)
    [] p.type = "dequeue"    -> DequeuePacket(y, p)
    [] p.type = "readblock"  -> ReadBlockPacket(y, p)
    [] p.type = "writeblock" -> WriteBlockPacket(y, p)
    [] p.type = "endofwrite" -> ShutEnd(y, "write")
    [] p.type = "endofread"  -> ShutEnd(y, "read")
    [] p.type = "grow"       -> Resize(h, y, p.size, p.n)
    [] p.type = "d4rtag"     -> D4RTagPacket(y, p)

Receive(h, m, p) ==
  LET y == Handle(h, m.x, p)
  IN  [m EXCEPT !.x = y,
                !.fails = @ \cup HandlerAsserts(h, m.x, p) \cup GrowAsserts(m.x, y, "action")]

---------------------------------------------------------------------------
(* The sends of InternalCheckStatus.                                       *)

SendGrow(m) ==
  IF "grow" \in m.x.pending /\ ~m.x.sentEnd
    THEN Send([m EXCEPT !.x.pending = @ \ {"grow"}],
              "grow", m.x.max, m.x.rlen + m.x.wlen, <<>>)
    ELSE m

(* Mutant of SendDequeue: one is kept back.                                *)
SendDequeueLess(m) ==
  LET n == m.x.bytes - Len(m.x.data) IN
  IF n > 0 THEN Send([m EXCEPT !.x.bytes = @ - n], "dequeue", n - 1, 0, <<>>) ELSE m

SendDequeue(m) ==
  LET n == m.x.bytes - Len(m.x.data) IN
  IF n > 0 THEN Send([m EXCEPT !.x.bytes = @ - n], "dequeue", n, 0, <<>>) ELSE m

(* A block is told only if it has not been resolved since.                 *)
SendBlock(h, m) ==
  LET y == [m EXCEPT !.x.pending = @ \ {"block"}] IN
  IF "block" \notin m.x.pending THEN m
  ELSE IF h = "read" /\ m.x.req[h] > Len(m.x.data)
    THEN Send(y, "readblock", m.x.req[h], 0, <<>>)
  ELSE IF h = "write" /\ m.x.req[h] > Free(m.x)
    THEN Send(y, "writeblock", m.x.req[h], 0, <<>>)
  ELSE y

SendTag(h, m) ==
  IF "tag" \in m.x.pending /\ h \notin m.x.shut
    THEN Send([m EXCEPT !.x.pending = @ \ {"tag"}], "d4rtag", m.x.tag, 0, <<>>)
    ELSE m

(* Mutant of SendEnd: forgets that it has been sent.                       *)
SendEndAgain(h, m) ==
  Send([m EXCEPT !.x.sentEnd = TRUE],
       IF h = "read" THEN "endofread" ELSE "endofwrite", 0, 0, <<>>)

SendEnd(h, m) ==
  IF m.x.sentEnd THEN m
  ELSE Send([m EXCEPT !.x.sentEnd = TRUE],
            IF h = "read" THEN "endofread" ELSE "endofwrite", 0, 0, <<>>)

(* actionTick lets the file thread poll again; back to the wait of         *)
(* ActionThreadEntryPoint.                                                 *)
Ticked(m) ==
  [m EXCEPT !.x.apc = IF m.x.dead THEN "done" ELSE "wait", !.x.term = FALSE,
            !.x.fpc = IF @ = "tick" THEN "poll" ELSE @]

MaySend(x) == ~x.sentEnd /\ x.data # <<>> /\ x.bytes < x.rlen /\ ~x.dead

(* The size of the next enqueue packet.                                    *)
Portion(x) ==
  LET limit == IF MaxWrite > 0 THEN MaxWrite ELSE Len(x.data)
  IN  Lesser(Lesser(Len(x.data), limit), Lesser(x.max, Larger(x.rlen, x.max) - x.bytes))

(* SendEnqueuePacket, up to the window in which it writes, unlocked.       *)
SendEnqueue(m) ==
  LET d == SubSeq(m.x.data, 1, Portion(m.x))
  IN  Send([m EXCEPT !.x.inop = @ \cup {"read"}, !.x.win = d, !.x.apc = "send"],
           "enqueue", Len(d), 0, d)

(* A step of the action thread of h that has read n packets and left m.    *)
Act(h, m, n) ==
  /\ Set(h, m.x)
  /\ chan' = [chan EXCEPT ![h] = @ \o m.sent,
                          ![Other(h)] = SubSeq(@, n + 1, Len(@))]
  /\ sock' = [sock EXCEPT ![h] = IF m.close THEN "closed"
                                 ELSE IF m.x.sentEnd THEN "shut" ELSE @]
  /\ failed' = failed \cup m.fails
  /\ UNCHANGED <<terminated, dvars>>

Started(x) == [x |-> x, sent |-> <<>>, close |-> FALSE, fails |-> {}]

(* Mutant of EndOut: the writer ends with data left to send.               *)
EndOutEarly(h, m) == IF h \in m.x.shut THEN SendEnd(h, m) ELSE m

(* The end goes out when the node has shut its end and the data is out, or *)
(* the kernel is terminated.                                               *)
EndOut(h, m) ==
  IF h \in m.x.shut /\ (h = "write" => m.x.data = <<>> \/ m.x.term)
    THEN SendEnd(h, m) ELSE m

(* Mutant of EndBack: closes only with its own answer.                     *)
EndBackOnce(h, m) ==
  IF Other(h) \in m.x.shut /\ ~m.x.sentEnd
    THEN [SendEnd(h, m) EXCEPT !.x.dead = TRUE, !.close = TRUE] ELSE m

(* It also answers the end of the other side; with both ends known the     *)
(* socket is closed and the half is dead.                                  *)
EndBack(h, m) ==
  IF Other(h) \in m.x.shut
    THEN [SendEnd(h, m) EXCEPT !.x.dead = TRUE, !.close = TRUE] ELSE m

(* What InternalCheckStatus sends last.                                    *)
Status(h, m, n) ==
  \E a \in {IF h = "read" /\ ~m.x.sentEnd THEN SendDequeue(m) ELSE m} :
  \E b \in {IF m.x.sentEnd THEN m ELSE SendBlock(h, a)} :
  \E c \in {IF m.x.sentEnd THEN m ELSE SendTag(h, b)} :
  \E d \in {EndOut(h, c)} :
  \E e \in {EndBack(h, d)} : Act(h, Ticked(e), n)

(* The writer's half sends data until it may not, then looks at the rest.  *)
Flush(m, n) ==
  \/ MaySend(m.x) /\ Act("write", SendEnqueue(m), n)
  \/ ~MaySend(m.x) /\ m.x.dead /\ ~m.x.sentEnd /\ Act("write", Ticked(m), n)
  \/ ~MaySend(m.x) /\ (m.x.dead => m.x.sentEnd) /\ Status("write", m, n)

(* InternalCheckStatus after Read().                                       *)
Answer(h, m, n) ==
  \E g \in {SendGrow([m EXCEPT !.x.eof = @ \/ sock[Other(h)] # "open"])} :
  \E t \in {IF m.x.term /\ ~m.x.sentEnd THEN [g EXCEPT !.x = ShutEnd(g.x, h)] ELSE g} :
    \/ h = "read" /\ Status(h, t, n)
    \/ h = "write" /\ Flush(t, n)

(* Read(): all packets that are there, but an enqueue packet opens another *)
(* window.                                                                 *)
Upto(s) ==
  LET e == {i \in 1 .. Len(s) : s[i].type = "enqueue"}
  IN  IF e = {} THEN Len(s) ELSE CHOOSE i \in e : \A j \in e : i <= j

Receiving(h, m, s) ==
  LET f[i \in 0 .. Len(s)] == IF i = 0 THEN m ELSE Receive(h, f[i - 1], s[i])
  IN  f
Received(h, m, s) == Receiving(h, m, s)[Len(s)]

Read(h, x) ==
  LET s == chan[Other(h)]
      n == Upto(s)
  IN  \E m \in {Received(h, Started(x), SubSeq(s, 1, n))} :
        \/ m.x.apc = "recv" /\ Act(h, m, n)
        \/ m.x.apc # "recv" /\ Answer(h, m, n)

(* ActionThreadEntryPoint, and InternalCheckStatus: the socket has ended,  *)
ActionWake(h) ==
  LET x == [q[h] EXCEPT !.pending = @ \ {"action"}, !.term = terminated[h]] IN
  /\ x.apc = "wait" /\ ~x.locked /\ ("action" \in q[h].pending \/ x.dead)
  /\ \/ /\ x.dead
        /\ Set(h, [x EXCEPT !.apc = "done"]) /\ Local /\ UNCHANGED <<dvars, failed>>
     \/ /\ ~x.dead /\ x.eof /\ x.shut = {} /\ x.term
        /\ Set(h, Ticked(Started(UnlockedShutdown(x))).x)
        /\ sock' = [sock EXCEPT ![h] = "closed"]
        /\ UNCHANGED <<chan, terminated, dvars, failed>>
     \/ /\ ~x.dead /\ x.eof /\ x.shut = {} /\ ~x.term
        /\ Set(h, [x EXCEPT !.apc = "done"]) /\ failed' = failed \cup {"eof"}
        /\ Local /\ UNCHANGED dvars
     \/ /\ ~x.dead /\ (x.eof => x.shut # {})
        /\ Read(h, x)

(* The rest of EnqueuePacket when its data has been read, and on.          *)
ReadData(h) ==
  LET x == q[h]
      y == [x EXCEPT !.inop = @ \ {"write"}, !.data = @ \o x.win,
                     !.bytes = @ + Len(x.win), !.win = <<>>, !.req["write"] = 0,
                     !.apc = "read"]
  IN
  /\ x.apc = "recv" /\ ~x.locked
  /\ Read(h, Notify(h, y, "read"))

(* The rest of SendEnqueuePacket, and on.                                  *)
SentData(h) ==
  LET x == q[h]
      n == Len(x.win)
      y == [x EXCEPT !.inop = @ \ {"read"}, !.win = <<>>, !.bytes = @ + n,
                     !.data = SubSeq(@, n + 1, Len(@)), !.apc = "read"]
  IN
  /\ x.apc = "send" /\ ~x.locked
  /\ Flush(Started(Notify(h, y, "write")), 0)

(* EPIPE or ECONNRESET: the peer has closed its socket with packets in it. *)
(* HandleError closes the socket; the half is dead.                        *)
SocketError(h) ==
  LET x == q[h]
      y == IF x.shut # {} THEN Signal(x) ELSE x
  IN
  /\ x.apc = "wait" /\ "action" \in x.pending /\ ~x.locked /\ ~x.dead
  /\ sock[Other(h)] = "closed" /\ chan[h] # <<>>
  /\ Set(h, Ticked(Started([y EXCEPT !.dead = TRUE])).x)
  /\ sock' = [sock EXCEPT ![h] = "closed"]
  /\ UNCHANGED <<chan, terminated, dvars, failed>>

---------------------------------------------------------------------------
(* FileThreadEntryPoint: Poll returns and the action thread is told; the   *)
(* file thread waits until that has looked.                                *)
FilePoll(h) ==
  LET x == q[h] IN
  /\ x.fpc = "poll" /\ ~x.locked /\ ~x.dead
  /\ chan[Other(h)] # <<>> \/ sock[Other(h)] # "open"
  /\ Set(h, [Signal(x) EXCEPT !.fpc = "tick"])
  /\ Local /\ UNCHANGED <<dvars, failed>>

FileEnd(h) ==
  /\ q[h].fpc \in {"poll", "tick"} /\ ~q[h].locked /\ q[h].dead
  /\ Set(h, [q[h] EXCEPT !.fpc = "done"])
  /\ Local /\ UNCHANGED <<dvars, failed>>

(* The kernel is told to terminate.  Some time later the file thread sees  *)
(* it, or the kernel's thread shuts down its remote queues                 *)
(* (RemoteQueueHolder::Shutdown, which also wakes the file threads) and    *)
(* then wakes its nodes (NotifyTerminate).                                 *)
Terminate(h) ==
  /\ h \in CanTerminate \/ terminated[Other(h)]
  /\ ~terminated[h]
  /\ terminated' = [terminated EXCEPT ![h] = TRUE]
  /\ UNCHANGED <<q, chan, sock, dvars, failed>>

ForcedShutdown(h) ==
  /\ terminated[h] /\ ~q[h].locked /\ (~q[h].dead \/ q[h].asleep)
  /\ Set(h, UnlockedShutdown(q[h]))
  /\ Local /\ UNCHANGED <<dvars, failed>>

(* A dead half that the node and the holder have let go of is destroyed,   *)
(* and with it its socket.                                                 *)
Destroy(h) ==
  /\ q[h].dead /\ q[h].apc = "done" /\ q[h].fpc = "done" /\ q[h].pc = "done"
  /\ sock[h] # "closed"
  /\ sock' = [sock EXCEPT ![h] = "closed"]
  /\ UNCHANGED <<q, chan, terminated, dvars, failed>>

Node(h) == Loop(h) \/ GrowWaited(h) \/ Wakeup(h)
Action(h) == ActionWake(h) \/ ReadData(h) \/ SentData(h) \/ SocketError(h)
File(h) == FilePoll(h) \/ FileEnd(h)

(* The queue is gone, or an ASSERT has ended the program.                  *)
Ended == ((\A h \in Half : sock[h] = "closed") \/ failed # {}) /\ UNCHANGED vars

Next ==
  \/ \E h \in Half :
       \/ Call(h) \/ Grow(h) \/ Node(h) \/ TagChange(h) \/ SignalTagChanged(h)
       \/ (\E n \in 1 .. MaxItems : GiveBack(h, n)) \/ Shutdown(h)
       \/ Action(h) \/ File(h)
       \/ Terminate(h) \/ ForcedShutdown(h) \/ Destroy(h)
  \/ Detect
  \/ Ended

Spec == Init /\ [][Next]_vars

(* Every thread of both halves runs: the file thread wakes the action      *)
(* thread and waits for it, so fairness to the two together is fairness to *)
(* each; a node that sees a shut queue lets go of it; the context tells    *)
(* every kernel once one has been told.                                    *)
NodeThread(h) == Node(h) \/ SignalTagChanged(h) \/ (q[h].pc = "ending" /\ Shutdown(h))
QueueThreads(h) == File(h) \/ Destroy(h) \/ Action(h)
KernelThread(h) == ForcedShutdown(h) \/ (terminated[Other(h)] /\ Terminate(h))

FairSpec ==
  /\ Spec
  /\ \A h \in Half :
       WF_vars(NodeThread(h)) /\ WF_vars(QueueThreads(h)) /\ WF_vars(KernelThread(h))

---------------------------------------------------------------------------
(* The sum of the counts of the packets of a type, and the contents of all *)
(* packets, one after the other.                                           *)
Sums(s, t) ==
  LET f[i \in 0 .. Len(s)] ==
        IF i = 0 THEN 0 ELSE f[i - 1] + IF s[i].type = t THEN s[i].n ELSE 0
  IN  f
Sum(s, t) == Sums(s, t)[Len(s)]

WithData(d, p) == d \o p.data
Contents(s) ==
  LET f[i \in 0 .. Len(s)] == IF i = 0 THEN <<>> ELSE WithData(f[i - 1], s[i])
  IN  f
Flying == Contents(chan["write"])[Len(chan["write"])]

(* bytecount: what the writer's half takes to be on the other side is what *)
(* the reader's half has, plus the enqueue and dequeue packets on their    *)
(* way (RemoteQueue.h); no packet is counted twice or not at all, and what *)
(* is sent on the strength of the count fits into the reader's buffer.     *)
ByteCount ==
  /\ q["write"].bytes + (IF q["write"].apc = "send" THEN Len(q["write"].win) ELSE 0)
       = q["read"].bytes + Len(q["read"].win) + Sum(chan["write"], "enqueue")
         + Sum(chan["read"], "dequeue")
  /\ q["write"].bytes \in Nat /\ \A h \in Half : Len(q[h].data) <= q[h].len

(* What has been read, is at the reader, on its way and at the writer is   *)
(* what has been written, in order.                                        *)
FIFO ==
  LET w == q["write"]
      unsent == IF w.apc = "send" THEN SubSeq(w.data, Len(w.win) + 1, Len(w.data))
                ELSE w.data
  IN  out \o q["read"].data \o q["read"].win \o Flying \o unsent
        = [i \in 1 .. written |-> i]

(* The end of the writing comes after all that was written, unless the     *)
(* reader or the writer's kernel has gone; and the socket does not end     *)
(* before the peer has said so ("We /should/ never get here"), unless a    *)
(* kernel terminates.                                                      *)
EndAfterData ==
  LET r == q["read"] IN
    /\ "write" \in r.shut /\ "read" \notin r.shut /\ ~terminated["write"]
         => Len(out) + Len(r.data) = written
    /\ "eof" \in failed => \E h \in Half : terminated[h]

(* No packet comes after an end, and no buffer grows under two pointers,   *)
(* but for a call of Grow by a node that holds one of them.                *)
PacketsInOrder == failed \cap {"handler", "grow"} = {}

(* A node that waits in D4R does so since its peer heard of the wait, and  *)
(* it has, or is about to have, the tag of its peer.                       *)
TagCurrent ==
  \A h \in Half : LET o == Other(h) IN
    q[h].pc = "d4r" =>
      /\ q[o].known = q[h].waits
      /\ q[h].shut = {} /\ ~q[h].dead /\ ~q[o].dead =>
           \/ q[h].mock = q[o].tag \/ q[o].sig \/ "tag" \in q[o].pending
           \/ \E i \in 1 .. Len(chan[o]) :
                chan[o][i].type = "d4rtag" /\ chan[o][i].n = q[o].tag

Quiet(h) ==
  /\ q[h].apc = "wait" /\ "action" \notin q[h].pending /\ q[h].fpc = "poll"
  /\ chan[h] = <<>> /\ ~q[h].sig /\ (sock[h] # "open" => q[Other(h)].dead)

(* When all is quiet, both halves have heard of every growth of the        *)
(* largest threshold, whichever side it came from.                         *)
SameThreshold ==
  (\A h \in Half : Quiet(h) /\ ~q[h].sentEnd) => q["read"].max = q["write"].max

(* When all is quiet, a node that waits is really blocked, and it waits in *)
(* D4R, where a deadlock would be found: it is not left waiting for an     *)
(* answer of its peer.                                                     *)
NoLostWakeup ==
  (\A h \in Half : Quiet(h)) =>
    \A h \in Half : q[h].asleep => /\ Blocked(h, q[h], h)
                                   /\ UseD4R => q[h].pc # "tagwait"

Waits(h) == q[h].pc \in {"tagwait", "d4r"}

(* A node that waits is let go when its peer has released the queue, or a  *)
(* kernel has been told to terminate.                                      *)
Released ==
  \A h \in Half :
    (Waits(h) /\ (q[Other(h)].pc = "done" \/ terminated[h]))
      ~> (~Waits(h) \/ failed # {})

(* Both halves come to their end when both nodes have released the queue,  *)
(* whichever way their ends crossed.                                       *)
BothEnd ==
  (\A h \in Half : q[h].pc = "done")
    ~> ((\A h \in Half : sock[h] = "closed") \/ failed # {})
====
