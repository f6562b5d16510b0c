-------------------------- MODULE ThresholdQueue --------------------------
(***************************************************************************)
(* The queue between two nodes of one kernel: CPN::QueueBase with the      *)
(* storage of CPN::ThresholdQueue, its reader thread, its writer thread    *)
(* and the termination of the kernel.  A thread asks for a pointer to      *)
(* thresh elements (or spaces), works through the pointer without holding  *)
(* the lock, and gives it back with Dequeue or Enqueue.  The queue may be  *)
(* replaced by a larger one while a pointer is out: the buffer the pointer *)
(* goes into is then kept as oldqueue until the pointer comes back.        *)
(*                                                                         *)
(* This module has the queue without D4R (UseD4R(false)): a blocked thread *)
(* waits on the condition variable.  Module D4R has the other way to wait. *)
(*                                                                         *)
(* The code for the two ends is symmetric but for a few lines; what it     *)
(* names readX and writeX, or X of enqueue and dequeue, is a function of   *)
(* the end here.  The elements are numbered in the order they are written. *)
(***************************************************************************)
EXTENDS Integers, Sequences

CONSTANTS
  InitLength,      \* the queue length and
  InitMaxThreshold,\* the largest threshold the queue is created with
  Thresholds,      \* the thresholds the nodes ask for
  GrowQueueMaxThreshold, \* the kernel attribute of that name
  GrowArgs,        \* arguments <<queueLen, maxThresh>> of calls of Grow
  MaxItems,        \* bound: elements written
  None             \* no buffer, no thread

ASSUME LengthAssumption ==
  InitMaxThreshold \in Nat \ {0} /\ InitLength \in Nat /\ InitLength >= InitMaxThreshold
ASSUME ThresholdAssumption ==
  /\ Thresholds \subseteq Nat \ {0} /\ GrowQueueMaxThreshold \in BOOLEAN
  /\ GrowArgs \subseteq Nat \X Nat /\ MaxItems \in Nat

End == {"read", "write"}

(* A buffer: its identity, length, largest threshold and contents.         *)
Buf == [gen : Nat, len : Nat, max : Nat, data : Seq(Nat)]

ASSUME NoneAssumption == None \notin End /\ None \notin Buf

VARIABLES
  queue, oldqueue, \* the buffer in use, and the one a pointer still goes into
  useOld,          \* enqueueUseOld, dequeueUseOld
  shutdown,        \* writeshutdown, readshutdown
  request,         \* writerequest, readrequest
  thresh,          \* enqueuethresh, dequeuethresh
  inop,            \* inenqueue, indequeue
  terminated,      \* the kernel has been told to terminate
  notified,        \* ... and has called NotifyTerminate on the queue
  lock,            \* the thread that holds the queue's lock between steps
  pc, want, grown, \* control of the two threads; their argument thresh
  asleep,          \* in cond.Wait
  ptr,             \* identity of the buffer the pointer given out goes into
  written,         \* number of elements written so far
  out,             \* elements read so far
  failed           \* an ASSERT has failed

bvars == <<queue, oldqueue, useOld>>
cvars == <<shutdown, request, thresh, inop>>
kvars == <<terminated, notified>>
tvars == <<lock, pc, want, grown, asleep>>
dvars == <<ptr, written, out>>
vars  == <<bvars, cvars, kvars, tvars, dvars, failed>>

Other(d) == IF d = "read" THEN "write" ELSE "read"
Larger(a, b) == IF a >= b THEN a ELSE b
NoPtr == 0

---------------------------------------------------------------------------
(* The storage.                                                            *)

(* Count() or Freespace() of a buffer.                                     *)
AvailIn(b, d) == IF d = "read" THEN Len(b.data) ELSE b.len - Len(b.data)

(* ThresholdQueueBase::GetRaw{De,En}queuePtr returns a pointer.            *)
Gives(b, d, th) == th <= AvailIn(b, d) /\ th <= b.max

Avail(d) == AvailIn(queue, d)

(* InternalGetRaw{De,En}queuePtr.                                          *)
Buffer(d) == IF useOld[d] THEN oldqueue ELSE queue

(* Mutant of Grown: takes the arguments as they are.                       *)
GrownAsAsked(b, len, max) ==
  [gen |-> b.gen + 1, len |-> Larger(len, max), max |-> max, data |-> b.data]

(* TQImpl::Grow never shrinks; a queue is at least as long as its largest  *)
(* threshold.                                                              *)
Grown(b, len, max) ==
  LET m == Larger(b.max, max)
  IN  [gen |-> b.gen + 1, len |-> Larger(Larger(b.len, len), m), max |-> m,
       data |-> b.data]

Enough(len, max) == len <= queue.len /\ max <= queue.max

(* The three ASSERTs of UnlockedGrow.                                      *)
GrowAsserts(len, max) ==
  \/ Enough(len, max)
  \/ /\ ~(inop["read"] /\ inop["write"])
     /\ oldqueue # None => \A d \in End : useOld[d] = inop[d]

(* Mutant of UnlockedGrow: always in place.                                *)
UnlockedGrowInPlace(len, max) ==
  /\ queue' = IF Enough(len, max) THEN queue ELSE Grown(queue, len, max)
  /\ UNCHANGED <<oldqueue, useOld, failed>>

UnlockedGrow(len, max) ==
  /\ failed' = (failed \/ ~GrowAsserts(len, max))
  /\ IF Enough(len, max) \/ ~GrowAsserts(len, max)
       THEN UNCHANGED bvars
       ELSE /\ queue' = Grown(queue, len, max)
            /\ IF oldqueue = None /\ (inop["read"] \/ inop["write"])
                 THEN oldqueue' = queue /\ useOld' = inop
                 ELSE UNCHANGED <<oldqueue, useOld>>

---------------------------------------------------------------------------
(* Blocking.                                                               *)

Shut == shutdown["read"] \/ shutdown["write"]

(* ReadBlocked and WriteBlocked; both first throw if the kernel has been   *)
(* terminated.                                                             *)
Blocked(d) == Avail(d) < request[d] /\ ~Shut

(* Mutant of Signal: nobody is woken.                                      *)
SignalNobody == asleep' = asleep

Signal == asleep' = [d \in End |-> FALSE]
Goto(d, l) == pc' = [pc EXCEPT ![d] = l]

Init ==
  /\ queue = [gen |-> 1, len |-> InitLength, max |-> InitMaxThreshold, data |-> <<>>]
  /\ oldqueue = None
  /\ useOld = [d \in End |-> FALSE] /\ shutdown = [d \in End |-> FALSE]
  /\ request = [d \in End |-> 0] /\ thresh = [d \in End |-> 0]
  /\ inop = [d \in End |-> FALSE]
  /\ terminated = FALSE /\ notified = FALSE
  /\ lock = None
  /\ pc = [d \in End |-> "idle"] /\ want = [d \in End |-> 0]
  /\ grown = [d \in End |-> FALSE] /\ asleep = [d \in End |-> FALSE]
  /\ ptr = [d \in End |-> NoPtr]
  /\ written = 0 /\ out = <<>> /\ failed = FALSE

(* A node calls GetRaw{De,En}queuePtr.  With a pointer out it may ask      *)
(* again, for no more than it has.  CheckTerminated comes before the lock. *)
Call(d) ==
  /\ pc[d] = "idle"
  /\ \E th \in Thresholds :
       /\ inop[d] => th <= thresh[d]
       /\ d = "write" => written + th <= MaxItems
       /\ want' = [want EXCEPT ![d] = IF terminated THEN 0 ELSE th]
  /\ Goto(d, IF terminated THEN "ending" ELSE "enter")
  /\ UNCHANGED <<bvars, cvars, kvars, lock, grown, asleep, dvars, failed>>

Enter(d) ==
  /\ pc[d] = "enter" /\ lock = None
  /\ lock' = d
  /\ failed' = (failed \/ (inop[d] /\ thresh[d] < want[d]))
  /\ thresh' = [thresh EXCEPT ![d] = IF inop[d] THEN @ ELSE want[d]]
  /\ grown' = [grown EXCEPT ![d] = FALSE]
  /\ Goto(d, "loop")
  /\ UNCHANGED <<bvars, shutdown, request, inop, kvars, want, asleep, dvars>>

(* One iteration of "while (true)" with the lock held: a pointer (with     *)
(* ASSERT(ret) when it has to come from oldqueue),                         *)
LoopPtr(d) ==
  /\ useOld[d] \/ Gives(queue, d, want[d])
  /\ LET ok == useOld[d] => inop[d] /\ Gives(oldqueue, d, want[d]) IN
     /\ failed' = (failed \/ ~ok)
     /\ inop' = [inop EXCEPT ![d] = @ \/ ok]
     /\ Goto(d, IF ok THEN "idle" ELSE "ending")
  /\ ptr' = [ptr EXCEPT ![d] = IF inop[d] THEN @ ELSE Buffer(d).gen]
  /\ lock' = None
  /\ UNCHANGED <<bvars, shutdown, request, thresh, kvars, want, grown, asleep,
                 written, out>>

Retry(d) == ~useOld[d] /\ ~Gives(queue, d, want[d])

(* or no pointer: 0 for a reader whose writer has shut down, an exception  *)
(* for a shut queue,                                                       *)
LoopShut(d) ==
  /\ Retry(d) /\ Shut
  /\ Goto(d, IF d = "read" /\ shutdown["write"] THEN "idle" ELSE "ending")
  /\ lock' = None
  /\ UNCHANGED <<bvars, cvars, kvars, want, grown, asleep, dvars, failed>>

NotShut(d) == Retry(d) /\ ~Shut

(* Mutant of MaxGrows: grows for the largest threshold, too.               *)
MaxGrowsAtMax(d) == want[d] >= queue.max /\ GrowQueueMaxThreshold

MaxGrows(d) == want[d] > queue.max /\ GrowQueueMaxThreshold

(* growth for a threshold above the maximum,                               *)
LoopGrowMax(d) ==
  /\ NotShut(d) /\ MaxGrows(d)
  /\ UnlockedGrow(2 * want[d], want[d])
  /\ Signal
  /\ UNCHANGED <<cvars, kvars, lock, pc, want, grown, dvars>>

(* the ShutdownException of CheckTerminated in ReadBlocked or WriteBlocked *)
(* (a writer that has grown the queue skips the first of them),            *)
LoopTerminated(d) ==
  /\ NotShut(d) /\ ~MaxGrows(d) /\ terminated
  /\ Goto(d, "ending") /\ lock' = None
  /\ request' = [request EXCEPT ![d] = IF grown[d] THEN want[d] ELSE @]
  /\ UNCHANGED <<bvars, shutdown, thresh, inop, kvars, want, grown, asleep, dvars,
                 failed>>

(* Mutant of OtherBlocked: the other end is not looked at.                 *)
OtherBlockedNever(d) == FALSE

OtherBlocked(d) ==
  (d = "write" => ~grown[d]) /\ Blocked(Other(d)) /\ GrowQueueMaxThreshold

(* growth because the other end is blocked too,                            *)
LoopGrowBlocked(d) ==
  /\ NotShut(d) /\ ~MaxGrows(d) /\ ~terminated /\ OtherBlocked(d)
  /\ UnlockedGrow(request[Other(d)] + want[d], want[d])
  /\ grown' = [grown EXCEPT ![d] = d = "write"]
  /\ Signal
  /\ UNCHANGED <<cvars, kvars, lock, pc, want, dvars>>

(* or the wait: WaitForData or WaitForFreespace, which returns at once     *)
(* when the end is not blocked after all.                                  *)
LoopWait(d) ==
  /\ NotShut(d) /\ ~MaxGrows(d) /\ ~terminated /\ ~OtherBlocked(d)
  /\ IF Avail(d) < want[d]
       THEN /\ request' = [request EXCEPT ![d] = want[d]]
            /\ asleep' = [asleep EXCEPT ![d] = TRUE]
            /\ Goto(d, "wait") /\ lock' = None
       ELSE UNCHANGED <<request, asleep, pc, lock>>
  /\ UNCHANGED <<bvars, shutdown, thresh, inop, kvars, want, grown, dvars, failed>>

Loop(d) ==
  /\ pc[d] = "loop" /\ lock = d
  /\ \/ LoopPtr(d) \/ LoopShut(d) \/ LoopGrowMax(d)
     \/ LoopTerminated(d) \/ LoopGrowBlocked(d) \/ LoopWait(d)

(* A woken thread: terminated (the request stays set), blocked again, or   *)
(* back into the loop.                                                     *)
Wakeup(d) ==
  /\ pc[d] = "wait" /\ ~asleep[d] /\ lock = None
  /\ \/ /\ terminated
        /\ Goto(d, "ending") /\ UNCHANGED <<request, asleep, lock>>
     \/ /\ ~terminated /\ Blocked(d)
        /\ asleep' = [asleep EXCEPT ![d] = TRUE] /\ UNCHANGED <<request, pc, lock>>
     \/ /\ ~terminated /\ ~Blocked(d)
        /\ request' = [request EXCEPT ![d] = 0]
        /\ lock' = d /\ Goto(d, "loop") /\ UNCHANGED asleep
  /\ UNCHANGED <<bvars, shutdown, thresh, inop, kvars, want, grown, dvars, failed>>

---------------------------------------------------------------------------
(* Mutant of Notify: more than the request has to be there.                *)
NotifyAbove(b, d) ==
  asleep' = IF AvailIn(b, d) > request[d] THEN [e \in End |-> FALSE] ELSE asleep

(* NotifyFreespace and NotifyData: broadcast if b, the queue as it is now, *)
(* meets the request of end d.                                             *)
Notify(b, d) ==
  asleep' = IF AvailIn(b, d) >= request[d] THEN [e \in End |-> FALSE] ELSE asleep

(* Mutant of GiveBack: oldqueue stays in use.                              *)
GiveBackKeepOld(d) ==
  /\ pc[d] = "idle" /\ inop[d] /\ lock = None
  /\ inop' = [inop EXCEPT ![d] = FALSE]
  /\ thresh' = [thresh EXCEPT ![d] = 0]
  /\ ptr' = [ptr EXCEPT ![d] = NoPtr]
  /\ UNCHANGED <<useOld, oldqueue, shutdown, request, kvars, lock, pc, want, grown>>

(* Enqueue and Dequeue forget the pointer, and oldqueue if it was for it.  *)
GiveBack(d) ==
  /\ pc[d] = "idle" /\ inop[d] /\ lock = None
  /\ inop' = [inop EXCEPT ![d] = FALSE]
  /\ thresh' = [thresh EXCEPT ![d] = 0]
  /\ ptr' = [ptr EXCEPT ![d] = NoPtr]
  /\ useOld' = [useOld EXCEPT ![d] = FALSE]
  /\ oldqueue' = IF useOld[d] THEN None ELSE oldqueue
  /\ UNCHANGED <<shutdown, request, kvars, lock, pc, want, grown>>

(* What the reader finds through its pointer; 0 stands for freed memory.   *)
Seen(n) ==
  LET p == ptr["read"]
      b == IF oldqueue # None /\ p = oldqueue.gen THEN oldqueue ELSE queue
  IN  [i \in 1..n |-> IF p = b.gen /\ i <= Len(b.data) THEN b.data[i] ELSE 0]

(* Dequeue(n).                                                             *)
Dequeue(n) ==
  LET b == [queue EXCEPT !.data = SubSeq(@, n + 1, Len(@))] IN
  /\ GiveBack("read") /\ n <= thresh["read"]
  /\ out' = out \o Seen(n)
  /\ queue' = b
  /\ Notify(b, "write")
  /\ UNCHANGED <<written, failed>>

(* Enqueue(n): what the writer has put where its pointer goes is published *)
(* from the buffer InternalEnqueue looks at, through oldqueue if that one  *)
(* was given out.                                                          *)
Enqueue(n) ==
  LET new == [i \in 1..n |-> IF ptr["write"] = Buffer("write").gen
                               THEN written + i ELSE 0]
      b   == [queue EXCEPT !.data = @ \o new]
  IN
  /\ GiveBack("write") /\ n <= thresh["write"]
  /\ failed' = (failed \/ (useOld["write"] /\ n > 0 /\ ~Gives(queue, "write", n)))
  /\ written' = written + n
  /\ queue' = b
  /\ Notify(b, "read")
  /\ UNCHANGED out

(* Grow called by a third party, which has to guarantee that not both      *)
(* pointers are out.  It signals nobody.                                   *)
Grow ==
  /\ lock = None /\ ~(inop["read"] /\ inop["write"])
  /\ \E a \in GrowArgs : ~Enough(a[1], a[2]) /\ UnlockedGrow(a[1], a[2])
  /\ UNCHANGED <<cvars, kvars, tvars, dvars>>

(* ShutdownReader or ShutdownWriter: the node releases its end, or ends.   *)
Shutdown(d) ==
  /\ pc[d] \in {"idle", "ending"} /\ lock = None
  /\ shutdown' = [shutdown EXCEPT ![d] = TRUE]
  /\ Signal
  /\ Goto(d, "done")
  /\ UNCHANGED <<bvars, request, thresh, inop, kvars, lock, want, grown, dvars, failed>>

(* The kernel terminates and, some time later, tells the queue.            *)
Terminate ==
  /\ ~terminated /\ terminated' = TRUE
  /\ UNCHANGED <<bvars, cvars, notified, tvars, dvars, failed>>

NotifyTerminate ==
  /\ terminated /\ ~notified /\ lock = None
  /\ notified' = TRUE
  /\ Signal
  /\ UNCHANGED <<bvars, cvars, terminated, lock, pc, want, grown, dvars, failed>>

(* What a thread does inside a call.                                       *)
Step(d) == Enter(d) \/ Loop(d) \/ Wakeup(d)

Ended == (\A d \in End : pc[d] = "done") /\ UNCHANGED vars

Next ==
  \/ \E d \in End : Call(d) \/ Step(d) \/ Shutdown(d)
  \/ \E n \in 0..MaxItems : Dequeue(n) \/ Enqueue(n)
  \/ Grow \/ Terminate \/ NotifyTerminate
  \/ Ended

Spec == Init /\ [][Next]_vars

(* Both threads run and a terminated kernel notifies its queues.           *)
FairSpec ==
  Spec /\ (\A d \in End : SF_vars(Step(d))) /\ SF_vars(NotifyTerminate)

---------------------------------------------------------------------------
BufferOK(b) ==
  b \in Buf /\ b.max >= 1 /\ b.len >= b.max /\ Len(b.data) <= b.len

(* The types of the variables; no buffer holds more than its length, and   *)
(* a largest threshold never exceeds the length.                           *)
TypeOK ==
  /\ BufferOK(queue) /\ (oldqueue # None => BufferOK(oldqueue))
  /\ useOld \in [End -> BOOLEAN] /\ shutdown \in [End -> BOOLEAN]
  /\ request \in [End -> Nat] /\ thresh \in [End -> Nat]
  /\ inop \in [End -> BOOLEAN] /\ terminated \in BOOLEAN /\ notified \in BOOLEAN
  /\ lock \in End \cup {None}
  /\ pc \in [End -> {"idle", "enter", "loop", "wait", "ending", "done"}]
  /\ want \in [End -> Nat] /\ grown \in [End -> BOOLEAN]
  /\ asleep \in [End -> BOOLEAN]
  /\ ptr \in [End -> Nat]
  /\ written \in Nat /\ out \in Seq(Nat) /\ failed \in BOOLEAN

(* A pointer that is out goes into a buffer that still exists, the one     *)
(* that Dequeue or Enqueue will use: growing the queue under a pointer     *)
(* neither frees its memory nor loses track of it.                         *)
PointersLive ==
  \A d \in End :
    /\ useOld[d] => oldqueue # None
    /\ inop[d] => ptr[d] = Buffer(d).gen

(* What has been read, followed by what is in the queue, is what has been  *)
(* written, in order and complete, through every growth.                   *)
FIFO == out \o queue.data = [i \in 1 .. written |-> i]

(* No ASSERT of QueueBase and ThresholdQueue fails as long as the callers  *)
(* keep their side: never a larger threshold while a pointer is out, and   *)
(* no Grow from outside while both pointers are.                           *)
AssertsHold == ~failed

(* The queue with both its buffers is a bounded FIFO.                      *)
Fifo == INSTANCE BoundedFifo WITH items <- queue.data, length <- queue.len
ImplementsFifo == Fifo!Spec

(* A thread sleeps only while its end is blocked and no NotifyTerminate    *)
(* has come: Enqueue and Dequeue, which broadcast only when the request of *)
(* the other end is met, growth and shutdown wake whom they should.        *)
NoLostWakeup ==
  \A d \in End : asleep[d] => Blocked(d) /\ ~notified

(* Where queues may grow, reader and writer never sleep on each other: the *)
(* second to block grows the queue instead.                                *)
NoMutualBlock == GrowQueueMaxThreshold => ~\A d \in End : asleep[d]

InCall(d) == pc[d] \in {"enter", "loop", "wait"}

(* Once the kernel is terminated or the other end has shut down, every     *)
(* call that asks for a pointer returns or throws.                         *)
CallsReturn ==
  \A d \in End : InCall(d) /\ (terminated \/ shutdown[Other(d)]) ~> ~InCall(d)

(* The loop of GetRaw{De,En}queuePtr does not go round for ever with the   *)
(* queue locked.                                                           *)
LockReleased == \A d \in End : lock = d ~> lock # d
====
