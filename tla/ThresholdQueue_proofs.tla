----------------------- MODULE ThresholdQueue_proofs -----------------------
(***************************************************************************)
(* Proofs about module ThresholdQueue, for every length, threshold and     *)
(* call of Grow.                                                           *)
(***************************************************************************)
EXTENDS ThresholdQueue, SequenceTheorems, TLAPS

USE LengthAssumption, ThresholdAssumption, NoneAssumption DEF End

(* oldqueue exists exactly while a pointer goes into it, and only one does.*)
OldInUse ==
  /\ oldqueue # None <=> useOld["read"] \/ useOld["write"]
  /\ ~(useOld["read"] /\ useOld["write"])
  /\ \A d \in End : useOld[d] => inop[d]
  /\ oldqueue # None => oldqueue.gen < queue.gen /\ oldqueue.max <= queue.max

(* What a pointer was given out for stays there for it, in the buffer it   *)
(* goes into and in the queue that replaced this buffer.                   *)
PointerBacked ==
  \A d \in End : inop[d] =>
    /\ ptr[d] = Buffer(d).gen
    /\ thresh[d] <= Buffer(d).max
    /\ thresh[d] <= AvailIn(Buffer(d), d) /\ thresh[d] <= Avail(d)

(* The reader finds the same elements in oldqueue as in the queue.         *)
OldDataKept ==
  useOld["read"] => \A i \in 1 .. thresh["read"] : oldqueue.data[i] = queue.data[i]

(* The argument of the call a thread is in.                                *)
ArgumentKept ==
  \A d \in End :
    /\ pc[d] \in {"enter", "loop", "wait"} /\ inop[d] => want[d] <= thresh[d]
    /\ pc[d] \in {"loop", "wait"} /\ ~inop[d] => want[d] = thresh[d]

(* FIFO, element by element.                                               *)
InOrder ==
  /\ Len(out) + Len(queue.data) = written
  /\ \A i \in 1 .. Len(out) : out[i] = i
  /\ \A i \in 1 .. Len(queue.data) : queue.data[i] = Len(out) + i

(* The invariants of the runs, made inductive.                             *)
IInv == TypeOK /\ OldInUse /\ PointerBacked /\ OldDataKept /\ ArgumentKept /\ InOrder /\ AssertsHold

---------------------------------------------------------------------------
(* Facts about the records for buffers, so that no later step opens them.  *)
LEMMA BufFacts ==
  ASSUME NEW b \in Buf
  PROVE  /\ b.gen \in Nat /\ b.len \in Nat /\ b.max \in Nat /\ b.data \in Seq(Nat)
         /\ Len(b.data) \in Nat /\ b # None
         /\ \A s \in Seq(Nat) :
              LET c == [b EXCEPT !.data = s] IN
              /\ c \in Buf /\ c.gen = b.gen /\ c.len = b.len /\ c.max = b.max
              /\ c.data = s
<1>1. /\ b.gen \in Nat /\ b.len \in Nat /\ b.max \in Nat /\ b.data \in Seq(Nat)
      /\ b # None
  BY DEF Buf
<1>2. Len(b.data) \in Nat
  BY <1>1, LenProperties
<1>3. ASSUME NEW s \in Seq(Nat)
      PROVE  LET c == [b EXCEPT !.data = s] IN
              /\ c \in Buf /\ c.gen = b.gen /\ c.len = b.len /\ c.max = b.max
              /\ c.data = s
  BY DEF Buf
<1> QED
  BY <1>1, <1>2, <1>3

(* TQImpl::Grow loses nothing and never shrinks.                           *)
LEMMA GrownFacts ==
  ASSUME NEW b, BufferOK(b), NEW len \in Nat, NEW max \in Nat
  PROVE  LET c == Grown(b, len, max) IN
         /\ BufferOK(c) /\ c.gen = b.gen + 1 /\ c.data = b.data
         /\ c.len >= b.len /\ c.max >= b.max
<1> DEFINE c == Grown(b, len, max)
           m == Larger(b.max, max)
           l == Larger(Larger(b.len, len), m)
<1>1. /\ b \in Buf /\ b.max >= 1 /\ b.len >= b.max /\ Len(b.data) <= b.len
      /\ b.gen \in Nat /\ b.len \in Nat /\ b.max \in Nat /\ b.data \in Seq(Nat)
      /\ Len(b.data) \in Nat
  BY BufFacts DEF BufferOK
<1>2. m \in Nat /\ m >= b.max /\ l \in Nat /\ l >= b.len /\ l >= m
  BY <1>1 DEF Larger
<1>3. c = [gen |-> b.gen + 1, len |-> l, max |-> m, data |-> b.data]
  BY DEF Grown
<1> HIDE DEF c, m, l
<1>4. c \in Buf /\ c.gen = b.gen + 1 /\ c.len = l /\ c.max = m /\ c.data = b.data
  BY <1>1, <1>2, <1>3 DEF Buf
<1>5. BufferOK(c)
  BY <1>1, <1>2, <1>4 DEF BufferOK
<1> QED
  BY <1>1, <1>2, <1>4, <1>5 DEF c

(* The invariant holds of the queue as it is created.                      *)
LEMMA InitIInv == Init => IInv
<1> SUFFICES ASSUME Init PROVE IInv
  OBVIOUS
<1>1. <<>> \in Seq(Nat) /\ Len(<<>>) = 0
  BY EmptySeq
<1>2. /\ queue \in Buf /\ queue.gen = 1 /\ queue.len = InitLength
      /\ queue.max = InitMaxThreshold /\ queue.data = <<>>
  BY <1>1 DEF Init, Buf
<1>3. BufferOK(queue)
  BY <1>1, <1>2 DEF BufferOK
<1>4. TypeOK
  BY <1>1, <1>3 DEF Init, TypeOK, NoPtr
<1>5. OldInUse /\ PointerBacked /\ OldDataKept /\ ArgumentKept /\ AssertsHold
  BY DEF Init, OldInUse, PointerBacked, OldDataKept, ArgumentKept, AssertsHold
<1>6. InOrder
  BY <1>1, <1>2 DEF Init, InOrder
<1> QED
  BY <1>4, <1>5, <1>6 DEF IInv

(* The part of the invariant that is about buffers, pointers and elements. *)
BufferTypes ==
  /\ BufferOK(queue) /\ (oldqueue # None => BufferOK(oldqueue))
  /\ useOld \in [End -> BOOLEAN] /\ inop \in [End -> BOOLEAN]
  /\ thresh \in [End -> Nat] /\ ptr \in [End -> Nat]
  /\ written \in Nat /\ out \in Seq(Nat) /\ failed \in BOOLEAN

Core ==
  /\ BufferTypes /\ OldInUse /\ PointerBacked /\ OldDataKept /\ InOrder
  /\ AssertsHold

(* Core is part of the invariant.                                          *)
LEMMA CoreOf == IInv => Core
BY DEF IInv, TypeOK, Core, BufferTypes

(* A step that touches neither a buffer nor a pointer.                     *)
LEMMA CoreQuiet ==
  ASSUME Core, UNCHANGED <<bvars, inop, ptr, written, out, failed>>,
         thresh' \in [End -> Nat], \A d \in End : inop[d] => thresh'[d] = thresh[d]
  PROVE  Core'
<1>0. useOld["read"] => inop["read"]
  BY DEF Core, OldInUse
<1>1. BufferTypes' /\ AssertsHold' /\ InOrder' /\ OldInUse'
  BY DEF Core, BufferTypes, BufferOK, bvars, AssertsHold, InOrder, OldInUse
<1>2. PointerBacked'
  BY DEF Core, PointerBacked, Avail, AvailIn, Buffer, bvars
<1>3. OldDataKept'
  BY <1>0 DEF Core, OldDataKept, bvars
<1> QED
  BY <1>1, <1>2, <1>3 DEF Core

(* UnlockedGrow, where not both pointers are out: its ASSERTs hold, and    *)
(* pointers and contents survive.                                          *)
LEMMA CoreGrow ==
  ASSUME Core, NEW len \in Nat, NEW max \in Nat, UnlockedGrow(len, max),
         ~(inop["read"] /\ inop["write"]),
         UNCHANGED <<inop, thresh, ptr, written, out>>
  PROVE  Core'
<1>0. /\ BufferOK(queue) /\ (oldqueue # None => BufferOK(oldqueue))
      /\ useOld \in [End -> BOOLEAN] /\ inop \in [End -> BOOLEAN]
      /\ thresh \in [End -> Nat] /\ failed = FALSE
  BY DEF Core, BufferTypes, AssertsHold
<1>1. GrowAsserts(len, max)
  BY <1>0 DEF Core, OldInUse, GrowAsserts
<1>2. failed' = FALSE
  BY <1>0, <1>1 DEF UnlockedGrow
<1>3. CASE Enough(len, max)
  <2>1. UNCHANGED bvars
    BY <1>3 DEF UnlockedGrow
  <2> QED
    BY <1>0, <1>2, <2>1, CoreQuiet
<1>4. CASE ~Enough(len, max)
  <2>1. queue' = Grown(queue, len, max)
    BY <1>1, <1>4 DEF UnlockedGrow
  <2>2. /\ BufferOK(queue') /\ queue'.gen = queue.gen + 1 /\ queue'.data = queue.data
        /\ queue'.len >= queue.len /\ queue'.max >= queue.max
    BY <1>0, <2>1, GrownFacts
  <2>3. /\ queue.gen \in Nat /\ queue.len \in Nat /\ queue.max \in Nat
        /\ Len(queue.data) \in Nat /\ queue # None
        /\ queue'.gen \in Nat /\ queue'.len \in Nat /\ queue'.max \in Nat
    BY <1>0, <2>2, BufFacts DEF BufferOK
  <2>4. InOrder'
    BY <2>2 DEF Core, InOrder
  <2>5. CASE oldqueue = None /\ (inop["read"] \/ inop["write"])
    <3>1. oldqueue' = queue /\ useOld' = inop
      BY <1>1, <1>4, <2>5 DEF UnlockedGrow
    <3>2. \A d \in End : ~useOld[d]
      BY <2>5 DEF Core, OldInUse
    <3>3. BufferTypes'
      BY <1>0, <1>2, <2>2, <3>1 DEF Core, BufferTypes, BufferOK
    <3>4. OldInUse'
      BY <2>2, <2>3, <2>5, <3>1 DEF OldInUse
    <3>5. ASSUME NEW d \in End, inop[d]
          PROVE  /\ ptr[d] = queue.gen /\ thresh[d] <= queue.max
                 /\ thresh[d] <= AvailIn(queue, d) /\ thresh[d] <= AvailIn(queue', d)
      <4>1. /\ ptr[d] = queue.gen /\ thresh[d] <= queue.max
            /\ thresh[d] <= AvailIn(queue, d)
        BY <3>2, <3>5 DEF Core, PointerBacked, Buffer
      <4> QED
        BY <1>0, <2>2, <2>3, <4>1 DEF AvailIn
    <3>6. PointerBacked'
      BY <3>1, <3>5 DEF PointerBacked, Buffer, Avail, AvailIn
    <3>7. OldDataKept'
      BY <2>2, <3>1 DEF OldDataKept
    <3> QED
      BY <1>2, <2>4, <3>3, <3>4, <3>6, <3>7 DEF Core, AssertsHold
  <2>6. CASE ~(oldqueue = None /\ (inop["read"] \/ inop["write"]))
    <3>1. oldqueue' = oldqueue /\ useOld' = useOld
      BY <1>1, <1>4, <2>6 DEF UnlockedGrow
    <3>2. \A d \in End : inop[d] => useOld[d] /\ oldqueue # None
      BY <1>1, <1>4, <2>6 DEF GrowAsserts
    <3>3. BufferTypes'
      BY <1>0, <1>2, <2>2, <3>1 DEF Core, BufferTypes, BufferOK
    <3>4. OldInUse'
      <4>1. oldqueue # None => oldqueue.gen \in Nat /\ oldqueue.max \in Nat
        BY <1>0, BufFacts DEF BufferOK
      <4> QED
        BY <2>2, <2>3, <3>1, <4>1 DEF Core, OldInUse
    <3>5. ASSUME NEW d \in End, inop[d]
          PROVE  /\ ptr[d] = oldqueue.gen /\ thresh[d] <= oldqueue.max
                 /\ thresh[d] <= AvailIn(oldqueue, d) /\ thresh[d] <= AvailIn(queue', d)
      <4>1. /\ ptr[d] = oldqueue.gen /\ thresh[d] <= oldqueue.max
            /\ thresh[d] <= AvailIn(oldqueue, d) /\ thresh[d] <= AvailIn(queue, d)
        BY <3>2, <3>5 DEF Core, PointerBacked, Buffer, Avail
      <4> QED
        BY <1>0, <2>2, <2>3, <4>1 DEF AvailIn
    <3>6. PointerBacked'
      BY <3>1, <3>2, <3>5 DEF PointerBacked, Buffer, Avail, AvailIn
    <3>7. OldDataKept'
      BY <2>2, <3>1 DEF Core, OldDataKept
    <3> QED
      BY <1>2, <2>4, <3>3, <3>4, <3>6, <3>7 DEF Core, AssertsHold
  <2> QED
    BY <2>5, <2>6
<1> QED
  BY <1>3, <1>4

(* A pointer is given out, or given out again.                             *)
LEMMA CoreLoopPtr ==
  ASSUME Core, ArgumentKept, want \in [End -> Nat],
         NEW d \in End, pc[d] = "loop", LoopPtr(d)
  PROVE  Core' /\ inop' = [inop EXCEPT ![d] = TRUE] /\ pc' = [pc EXCEPT ![d] = "idle"]
<1>0. /\ BufferOK(queue) /\ (oldqueue # None => BufferOK(oldqueue))
      /\ useOld \in [End -> BOOLEAN] /\ inop \in [End -> BOOLEAN]
      /\ thresh \in [End -> Nat] /\ ptr \in [End -> Nat] /\ failed = FALSE
  BY DEF Core, BufferTypes, AssertsHold
<1> DEFINE ok == useOld[d] => inop[d] /\ Gives(oldqueue, d, want[d])
<1>1. /\ failed' = (failed \/ ~ok)
      /\ inop' = [inop EXCEPT ![d] = @ \/ ok]
      /\ pc' = [pc EXCEPT ![d] = IF ok THEN "idle" ELSE "ending"]
      /\ ptr' = [ptr EXCEPT ![d] = IF inop[d] THEN @ ELSE Buffer(d).gen]
      /\ UNCHANGED <<bvars, thresh, written, out>>
  BY DEF LoopPtr, Goto
<1>2. ok
  <2> SUFFICES ASSUME useOld[d] PROVE inop[d] /\ Gives(oldqueue, d, want[d])
    OBVIOUS
  <2>1. inop[d] /\ oldqueue # None
    BY DEF Core, OldInUse
  <2>2. want[d] <= thresh[d]
    BY <2>1 DEF ArgumentKept
  <2>3. thresh[d] <= oldqueue.max /\ thresh[d] <= AvailIn(oldqueue, d)
    BY <2>1 DEF Core, PointerBacked, Buffer
  <2>4. oldqueue.max \in Nat /\ oldqueue.len \in Nat /\ Len(oldqueue.data) \in Nat
    BY <1>0, <2>1, BufFacts DEF BufferOK
  <2> QED
    BY <1>0, <2>1, <2>2, <2>3, <2>4 DEF Gives, AvailIn
<1> HIDE DEF ok
<1>3. failed' = FALSE /\ inop' = [inop EXCEPT ![d] = TRUE] /\ pc' = [pc EXCEPT ![d] = "idle"]
  BY <1>0, <1>1, <1>2
<1>4. CASE inop[d]
  <2>1. inop' = inop /\ ptr' = ptr
    BY <1>0, <1>1, <1>3, <1>4
  <2> QED
    BY <1>0, <1>1, <1>3, <2>1, CoreQuiet
<1>5. CASE ~inop[d]
  <2>1. ~useOld[d]
    BY <1>5 DEF Core, OldInUse
  <2>2. Gives(queue, d, want[d]) /\ want[d] = thresh[d]
    BY <1>5, <2>1 DEF LoopPtr, ArgumentKept
  <2>3. queue.gen \in Nat
    BY <1>0, BufFacts DEF BufferOK
  <2>4. ptr' = [ptr EXCEPT ![d] = queue.gen]
    BY <1>1, <1>5, <2>1 DEF Buffer
  <2>5. BufferTypes'
    BY <1>0, <1>1, <1>3, <2>3, <2>4 DEF Core, BufferTypes, BufferOK, bvars
  <2>6. OldInUse'
    BY <1>0, <1>1, <1>3 DEF Core, OldInUse, bvars
  <2>7. PointerBacked'
    <3>1. ASSUME NEW e \in End, inop'[e]
          PROVE  /\ ptr'[e] = Buffer(e).gen /\ thresh[e] <= Buffer(e).max
                 /\ thresh[e] <= AvailIn(Buffer(e), e) /\ thresh[e] <= Avail(e)
      <4>1. CASE e = d
        BY <1>0, <2>1, <2>2, <2>4, <4>1 DEF Buffer, Gives, Avail
      <4>2. CASE e # d
        BY <1>0, <1>3, <2>4, <3>1, <4>2 DEF Core, PointerBacked
      <4> QED
        BY <4>1, <4>2
    <3> QED
      BY <1>1, <3>1 DEF PointerBacked, Buffer, Avail, AvailIn, bvars
  <2>8. OldDataKept' /\ InOrder'
    BY <1>1 DEF Core, OldDataKept, InOrder, bvars
  <2> QED
    BY <1>3, <2>5, <2>6, <2>7, <2>8 DEF Core, AssertsHold
<1> QED
  BY <1>3, <1>4, <1>5

(* Dequeue: the elements that were next leave the queue.                   *)
LEMMA CoreDequeue ==
  ASSUME Core, NEW n \in Nat, Dequeue(n)
  PROVE  Core'
<1>0. /\ BufferOK(queue) /\ (oldqueue # None => BufferOK(oldqueue))
      /\ useOld \in [End -> BOOLEAN] /\ inop \in [End -> BOOLEAN]
      /\ thresh \in [End -> Nat] /\ ptr \in [End -> Nat]
      /\ written \in Nat /\ out \in Seq(Nat) /\ failed = FALSE
  BY DEF Core, BufferTypes, AssertsHold
<1>1. /\ queue \in Buf /\ queue.gen \in Nat /\ queue.len \in Nat /\ queue.max \in Nat
      /\ queue.data \in Seq(Nat) /\ Len(queue.data) \in Nat
      /\ queue.max >= 1 /\ queue.len >= queue.max /\ Len(queue.data) <= queue.len
  BY <1>0, BufFacts DEF BufferOK
<1> DEFINE rest == SubSeq(queue.data, n + 1, Len(queue.data))
<1>2. /\ inop["read"] /\ n <= thresh["read"]
      /\ inop' = [inop EXCEPT !["read"] = FALSE]
      /\ thresh' = [thresh EXCEPT !["read"] = 0]
      /\ ptr' = [ptr EXCEPT !["read"] = NoPtr]
      /\ useOld' = [useOld EXCEPT !["read"] = FALSE]
      /\ oldqueue' = IF useOld["read"] THEN None ELSE oldqueue
      /\ out' = out \o Seen(n) /\ queue' = [queue EXCEPT !.data = rest]
      /\ UNCHANGED <<written, failed>>
  BY DEF Dequeue, GiveBack
<1>3. n <= Len(queue.data) /\ n <= thresh["read"] /\ thresh["read"] \in Nat
  <2>1. thresh["read"] <= Len(queue.data)
    BY <1>2 DEF Core, PointerBacked, Avail, AvailIn
  <2> QED
    BY <1>0, <1>1, <1>2, <2>1
<1>4. /\ rest \in Seq(Nat) /\ Len(rest) = Len(queue.data) - n
      /\ \A i \in 1 .. Len(queue.data) - n : rest[i] = queue.data[n + i]
  <2>1. \A i \in n + 1 .. Len(queue.data) : queue.data[i] \in Nat
    BY <1>1, ElementOfSeq
  <2>2. n + 1 \in Int /\ Len(queue.data) \in Int
    BY <1>1
  <2>3. /\ rest \in Seq(Nat)
        /\ Len(rest) = IF n + 1 <= Len(queue.data) THEN Len(queue.data) - (n + 1) + 1 ELSE 0
        /\ \A i \in 1 .. Len(queue.data) - (n + 1) + 1 : rest[i] = queue.data[n + 1 + i - 1]
    BY <2>1, <2>2, SubSeqProperties
  <2> HIDE DEF rest
  <2>4. Len(rest) = Len(queue.data) - n
    BY <1>1, <1>3, <2>3
  <2>5. ASSUME NEW i \in 1 .. Len(queue.data) - n PROVE rest[i] = queue.data[n + i]
    <3>1. i \in 1 .. Len(queue.data) - (n + 1) + 1 /\ n + 1 + i - 1 = n + i
      BY <1>1
    <3> QED
      BY <2>3, <3>1
  <2> QED
    BY <2>3, <2>4, <2>5
<1> HIDE DEF rest
<1>5. /\ queue' \in Buf /\ queue'.gen = queue.gen /\ queue'.len = queue.len
      /\ queue'.max = queue.max /\ queue'.data = rest
  BY <1>1, <1>2, <1>4, BufFacts
<1>6. BufferOK(queue')
  BY <1>1, <1>3, <1>4, <1>5 DEF BufferOK
<1>7. ASSUME NEW i \in 1 .. n PROVE Seen(n)[i] = queue.data[i]
  <2>1. i <= thresh["read"] /\ i <= Len(queue.data) /\ i \in 1 .. thresh["read"]
    BY <1>1, <1>3
  <2>2. CASE useOld["read"]
    <3>1. oldqueue # None /\ ptr["read"] = oldqueue.gen
      BY <1>2, <2>2 DEF Core, OldInUse, PointerBacked, Buffer
    <3>2. thresh["read"] <= Len(oldqueue.data) /\ Len(oldqueue.data) \in Nat
      BY <1>0, <1>2, <2>2, <3>1, BufFacts DEF Core, PointerBacked, Buffer, AvailIn, BufferOK
    <3>3. oldqueue.data[i] = queue.data[i]
      BY <2>1, <2>2 DEF Core, OldDataKept
    <3>4. i <= Len(oldqueue.data)
      BY <1>3, <2>1, <3>2
    <3> QED
      BY <3>1, <3>3, <3>4 DEF Seen
  <2>3. CASE ~useOld["read"]
    <3>1. ptr["read"] = queue.gen
      BY <1>2, <2>3 DEF Core, PointerBacked, Buffer
    <3>2. oldqueue # None => oldqueue.gen < queue.gen /\ oldqueue.gen \in Nat
      BY <1>0, BufFacts DEF Core, OldInUse, BufferOK
    <3>3. ~(oldqueue # None /\ ptr["read"] = oldqueue.gen)
      BY <1>1, <3>1, <3>2
    <3> QED
      BY <2>1, <3>1, <3>3 DEF Seen
  <2> QED
    BY <1>0, <2>2, <2>3
<1>8. Seen(n) \in Seq(Nat) /\ Len(Seen(n)) = n
  <2>1. \A i \in 1 .. n : Seen(n)[i] \in Nat
    <3>1. \A i \in 1 .. n : i \in 1 .. Len(queue.data)
      BY <1>1, <1>3
    <3> QED
      BY <1>1, <1>7, <3>1, ElementOfSeq
  <2>2. DOMAIN Seen(n) = 1 .. n /\ Seen(n) = [i \in 1 .. n |-> Seen(n)[i]]
    BY DEF Seen
  <2>3. Seen(n) \in [1 .. n -> Nat]
    BY <2>1, <2>2
  <2>4. Seen(n) \in Seq(Nat)
    BY <2>3, SeqDef
  <2> QED
    BY <2>2, <2>4, LenProperties
<1>9. /\ out' \in Seq(Nat) /\ Len(out') = Len(out) + n
      /\ \A i \in 1 .. Len(out) + n :
           out'[i] = IF i <= Len(out) THEN out[i] ELSE Seen(n)[i - Len(out)]
  <2> DEFINE seen == Seen(n)
  <2>1. seen \in Seq(Nat) /\ Len(seen) = n /\ out' = out \o seen
    BY <1>2, <1>8
  <2> HIDE DEF seen
  <2>2. /\ out \o seen \in Seq(Nat) /\ Len(out \o seen) = Len(out) + Len(seen)
        /\ \A i \in 1 .. Len(out) + Len(seen) :
             (out \o seen)[i] = IF i <= Len(out) THEN out[i] ELSE seen[i - Len(out)]
    BY <1>0, <2>1, ConcatProperties
  <2> QED
    BY <2>1, <2>2 DEF seen
<1>10. Len(out) \in Nat
  BY <1>0, LenProperties
<1>11. InOrder'
  <2>0. /\ Len(out) + Len(queue.data) = written
        /\ \A i \in 1 .. Len(out) : out[i] = i
        /\ \A i \in 1 .. Len(queue.data) : queue.data[i] = Len(out) + i
    BY DEF Core, InOrder
  <2>1. Len(out') + Len(queue'.data) = written'
    BY <1>1, <1>2, <1>4, <1>5, <1>9, <1>10, <2>0
  <2>2. ASSUME NEW i \in 1 .. Len(out') PROVE out'[i] = i
    <3>1. CASE i <= Len(out)
      BY <1>9, <1>10, <2>0, <2>2, <3>1
    <3>2. CASE ~(i <= Len(out))
      <4>1. i - Len(out) \in 1 .. n /\ i - Len(out) \in 1 .. Len(queue.data)
        BY <1>1, <1>3, <1>9, <1>10, <2>2, <3>2
      <4>2. out'[i] = queue.data[i - Len(out)]
        BY <1>7, <1>9, <2>2, <3>2, <4>1
      <4> QED
        BY <1>10, <2>0, <4>1, <4>2
    <3> QED
      BY <3>1, <3>2
  <2>3. ASSUME NEW i \in 1 .. Len(queue'.data) PROVE queue'.data[i] = Len(out') + i
    <3>1. i \in 1 .. Len(queue.data) - n /\ n + i \in 1 .. Len(queue.data)
      BY <1>1, <1>3, <1>4, <1>5, <2>3
    <3> QED
      BY <1>4, <1>5, <1>9, <1>10, <2>0, <3>1
  <2> QED
    BY <2>1, <2>2, <2>3 DEF InOrder
<1>12. BufferTypes'
  BY <1>0, <1>2, <1>6, <1>9 DEF BufferTypes, NoPtr, BufferOK
<1>13. OldInUse'
  BY <1>0, <1>2, <1>5 DEF Core, OldInUse
<1>14. PointerBacked'
  <2> SUFFICES ASSUME inop["write"]
               PROVE  /\ ptr["write"] = Buffer("write")'.gen
                      /\ thresh["write"] <= Buffer("write")'.max
                      /\ thresh["write"] <= AvailIn(Buffer("write"), "write")'
                      /\ thresh["write"] <= AvailIn(queue, "write")'
    BY <1>0, <1>2 DEF PointerBacked, Avail
  <2>1. /\ ptr["write"] = Buffer("write").gen /\ thresh["write"] <= Buffer("write").max
        /\ thresh["write"] <= AvailIn(Buffer("write"), "write")
        /\ thresh["write"] <= queue.len - Len(queue.data)
    BY DEF Core, PointerBacked, Avail, AvailIn
  <2>2. thresh["write"] <= queue'.len - Len(queue'.data)
    BY <1>0, <1>1, <1>4, <1>5, <2>1
  <2>3. CASE useOld["write"]
    <3>1. ~useOld["read"] /\ useOld'["write"] /\ oldqueue' = oldqueue
      BY <1>0, <1>2, <2>3 DEF Core, OldInUse
    <3> QED
      BY <2>1, <2>2, <2>3, <3>1 DEF Buffer, AvailIn
  <2>4. CASE ~useOld["write"]
    <3>1. ~useOld'["write"]
      BY <1>0, <1>2, <2>4
    <3> QED
      BY <1>5, <2>1, <2>2, <2>4, <3>1 DEF Buffer, AvailIn
  <2> QED
    BY <2>3, <2>4
<1>15. OldDataKept'
  BY <1>0, <1>2 DEF OldDataKept
<1> QED
  BY <1>0, <1>2, <1>11, <1>12, <1>13, <1>14, <1>15 DEF Core, AssertsHold

(* Enqueue: the elements that come next join the queue, also if they were  *)
(* written into oldqueue.                                                  *)
LEMMA EnqueueData ==
  ASSUME Core, NEW n \in Nat, Enqueue(n)
  PROVE  \E new \in Seq(Nat) :
           /\ queue' = [queue EXCEPT !.data = @ \o new]
           /\ Len(new) = n /\ \A i \in 1 .. n : new[i] = written + i
<1> DEFINE new == [i \in 1 .. n |-> IF ptr["write"] = Buffer("write").gen
                                       THEN written + i ELSE 0]
<1>1. queue' = [queue EXCEPT !.data = @ \o new] /\ inop["write"]
  BY DEF Enqueue, GiveBack
<1>2. ptr["write"] = Buffer("write").gen /\ written \in Nat
  BY <1>1 DEF Core, PointerBacked, BufferTypes
<1>3. new \in [1 .. n -> Nat] /\ \A i \in 1 .. n : new[i] = written + i
  BY <1>2
<1>4. new \in Seq(Nat) /\ DOMAIN new = 1 .. n
  BY <1>3, SeqDef
<1>5. Len(new) = n
  BY <1>4, LenProperties
<1> QED
  BY <1>1, <1>3, <1>4, <1>5

(* Enqueue preserves the part about buffers, pointers and elements.        *)
LEMMA CoreEnqueue ==
  ASSUME Core, NEW n \in Nat, Enqueue(n)
  PROVE  Core'
<1>0. /\ BufferOK(queue) /\ (oldqueue # None => BufferOK(oldqueue))
      /\ useOld \in [End -> BOOLEAN] /\ inop \in [End -> BOOLEAN]
      /\ thresh \in [End -> Nat] /\ ptr \in [End -> Nat]
      /\ written \in Nat /\ out \in Seq(Nat) /\ failed = FALSE
  BY DEF Core, BufferTypes, AssertsHold
<1>1. /\ queue \in Buf /\ queue.gen \in Nat /\ queue.len \in Nat /\ queue.max \in Nat
      /\ queue.data \in Seq(Nat) /\ Len(queue.data) \in Nat
      /\ queue.max >= 1 /\ queue.len >= queue.max /\ Len(queue.data) <= queue.len
  BY <1>0, BufFacts DEF BufferOK
<1>2. /\ inop["write"] /\ n <= thresh["write"]
      /\ inop' = [inop EXCEPT !["write"] = FALSE]
      /\ thresh' = [thresh EXCEPT !["write"] = 0]
      /\ ptr' = [ptr EXCEPT !["write"] = NoPtr]
      /\ useOld' = [useOld EXCEPT !["write"] = FALSE]
      /\ oldqueue' = IF useOld["write"] THEN None ELSE oldqueue
      /\ failed' = (failed \/ (useOld["write"] /\ n > 0 /\ ~Gives(queue, "write", n)))
      /\ written' = written + n /\ out' = out
  BY DEF Enqueue, GiveBack
<1>3. PICK new \in Seq(Nat) :
        /\ queue' = [queue EXCEPT !.data = @ \o new]
        /\ Len(new) = n /\ \A i \in 1 .. n : new[i] = written + i
  BY EnqueueData
<1>4. n + Len(queue.data) <= queue.len
  <2>1. thresh["write"] <= queue.len - Len(queue.data) /\ thresh["write"] \in Nat
    BY <1>0, <1>2 DEF Core, PointerBacked, Avail, AvailIn
  <2> QED
    BY <1>1, <1>2, <2>1
<1> DEFINE data == queue.data \o new
<1>5. /\ data \in Seq(Nat) /\ Len(data) = Len(queue.data) + n
      /\ \A i \in 1 .. Len(queue.data) + n :
           data[i] = IF i <= Len(queue.data) THEN queue.data[i] ELSE new[i - Len(queue.data)]
  <2>1. /\ data \in Seq(Nat) /\ Len(data) = Len(queue.data) + Len(new)
        /\ \A i \in 1 .. Len(queue.data) + Len(new) :
             data[i] = IF i <= Len(queue.data) THEN queue.data[i] ELSE new[i - Len(queue.data)]
    BY <1>1, ConcatProperties
  <2> HIDE DEF data
  <2> QED
    BY <1>3, <2>1
<1> HIDE DEF data
<1>6. /\ queue' \in Buf /\ queue'.gen = queue.gen /\ queue'.len = queue.len
      /\ queue'.max = queue.max /\ queue'.data = data
  BY <1>1, <1>3, <1>5, BufFacts DEF data
<1>7. BufferOK(queue')
  BY <1>1, <1>4, <1>5, <1>6 DEF BufferOK
<1>8. failed' = FALSE
  <2>1. ASSUME useOld["write"] PROVE Gives(queue, "write", n)
    <3>1. oldqueue # None /\ oldqueue.max <= queue.max /\ thresh["write"] <= oldqueue.max
      BY <1>2, <2>1 DEF Core, OldInUse, PointerBacked, Buffer
    <3>2. oldqueue.max \in Nat /\ thresh["write"] \in Nat
      BY <1>0, <3>1, BufFacts DEF BufferOK
    <3>3. n <= queue.max
      BY <1>1, <1>2, <3>1, <3>2
    <3> QED
      BY <1>1, <1>4, <3>3 DEF Gives, AvailIn
  <2> QED
    BY <1>0, <1>2, <2>1
<1>9. InOrder'
  <2>0. /\ Len(out) + Len(queue.data) = written /\ Len(out) \in Nat
        /\ \A i \in 1 .. Len(out) : out[i] = i
        /\ \A i \in 1 .. Len(queue.data) : queue.data[i] = Len(out) + i
    BY <1>0, LenProperties DEF Core, InOrder
  <2>9. written' = written + n /\ out' = out
    BY <1>2
  <2>1. Len(out') + Len(queue'.data) = written' /\ \A i \in 1 .. Len(out') : out'[i] = i
    BY <1>1, <2>9, <1>5, <1>6, <2>0
  <2>2. ASSUME NEW i \in 1 .. Len(queue'.data) PROVE queue'.data[i] = Len(out') + i
    <3>1. i \in 1 .. Len(queue.data) + n /\ queue'.data[i] = data[i]
      BY <1>5, <1>6, <2>2
    <3>2. CASE i <= Len(queue.data)
      <4>1. i \in 1 .. Len(queue.data)
        BY <1>1, <3>1, <3>2
      <4>2. data[i] = queue.data[i] /\ queue.data[i] = Len(out) + i
        BY <1>5, <2>0, <3>1, <3>2, <4>1
      <4> QED
        BY <2>9, <3>1, <4>2
    <3>3. CASE ~(i <= Len(queue.data))
      <4>1. i - Len(queue.data) \in 1 .. n
        BY <1>1, <3>1, <3>3
      <4>2. data[i] = written + (i - Len(queue.data))
        BY <1>3, <1>5, <3>1, <3>3, <4>1
      <4>3. written + (i - Len(queue.data)) = Len(out) + i
        BY <1>1, <2>0, <3>1
      <4> QED
        BY <2>9, <3>1, <4>2, <4>3
    <3> QED
      BY <3>2, <3>3
  <2> QED
    BY <2>1, <2>2 DEF InOrder
<1>10. BufferTypes'
  BY <1>0, <1>2, <1>7, <1>8 DEF BufferTypes, NoPtr, BufferOK
<1>11. OldInUse'
  BY <1>0, <1>2, <1>6 DEF Core, OldInUse
<1>12. ASSUME inop["read"]
       PROVE  /\ ptr["read"] = Buffer("read").gen /\ thresh["read"] <= Buffer("read").max
              /\ thresh["read"] <= AvailIn(Buffer("read"), "read")
              /\ thresh["read"] <= Len(queue.data) /\ thresh["read"] \in Nat
  BY <1>0, <1>12 DEF Core, PointerBacked, Avail, AvailIn
<1>13. PointerBacked'
  <2> SUFFICES ASSUME inop["read"]
               PROVE  /\ ptr["read"] = Buffer("read")'.gen
                      /\ thresh["read"] <= Buffer("read")'.max
                      /\ thresh["read"] <= AvailIn(Buffer("read"), "read")'
                      /\ thresh["read"] <= AvailIn(queue, "read")'
    BY <1>0, <1>2 DEF PointerBacked, Avail
  <2>1. thresh["read"] <= Len(queue'.data)
    BY <1>1, <1>5, <1>6, <1>12
  <2>2. CASE useOld["read"]
    <3>1. ~useOld["write"] /\ useOld'["read"] /\ oldqueue' = oldqueue
      BY <1>0, <1>2, <2>2 DEF Core, OldInUse
    <3> QED
      BY <1>12, <2>1, <2>2, <3>1 DEF Buffer, AvailIn
  <2>3. CASE ~useOld["read"]
    <3>1. ~useOld'["read"]
      BY <1>0, <1>2, <2>3
    <3> QED
      BY <1>6, <1>12, <2>1, <2>3, <3>1 DEF Buffer, AvailIn
  <2> QED
    BY <2>2, <2>3
<1>14. OldDataKept'
  <2> SUFFICES ASSUME useOld["read"], NEW i \in 1 .. thresh["read"]
               PROVE  oldqueue'.data[i] = queue'.data[i]
    BY <1>0, <1>2 DEF OldDataKept
  <2>1. ~useOld["write"] /\ oldqueue' = oldqueue /\ inop["read"]
    BY <1>0, <1>2 DEF Core, OldInUse
  <2>2. oldqueue.data[i] = queue.data[i]
    BY DEF Core, OldDataKept
  <2>3. i \in 1 .. Len(queue.data) + n /\ i <= Len(queue.data)
    BY <1>1, <1>12, <2>1
  <2> QED
    BY <1>5, <1>6, <2>1, <2>2, <2>3
<1> QED
  BY <1>8, <1>9, <1>10, <1>11, <1>13, <1>14 DEF Core, AssertsHold

---------------------------------------------------------------------------
(* The variables that control the threads.                                 *)
ControlTypes ==
  /\ shutdown \in [End -> BOOLEAN] /\ request \in [End -> Nat]
  /\ terminated \in BOOLEAN /\ notified \in BOOLEAN
  /\ lock \in End \cup {None}
  /\ pc \in [End -> {"idle", "enter", "loop", "wait", "ending", "done"}]
  /\ want \in [End -> Nat] /\ grown \in [End -> BOOLEAN]
  /\ asleep \in [End -> BOOLEAN]

(* The invariant, divided into what is about the buffers and what is about *)
(* the control of the threads.                                             *)
LEMMA Parts == IInv <=> Core /\ ControlTypes /\ ArgumentKept
BY DEF IInv, TypeOK, Core, BufferTypes, ControlTypes

(* A thread that finds no pointer has none out.                            *)
LEMMA NoPointerOut ==
  ASSUME IInv, NEW d \in End, pc[d] = "loop", Retry(d)
  PROVE  ~inop[d]
<1> SUFFICES ASSUME inop[d] PROVE Gives(queue, d, want[d])
  BY DEF Retry
<1>1. ~useOld[d] /\ want[d] <= thresh[d]
  BY DEF Retry, IInv, ArgumentKept
<1>2. thresh[d] <= queue.max /\ thresh[d] <= AvailIn(queue, d)
  BY <1>1 DEF IInv, PointerBacked, Buffer
<1>3. /\ queue.max \in Nat /\ queue.len \in Nat /\ Len(queue.data) \in Nat
      /\ thresh[d] \in Nat /\ want[d] \in Nat
  BY BufFacts DEF IInv, TypeOK, BufferOK
<1> QED
  BY <1>1, <1>2, <1>3 DEF Gives, AvailIn

(* The core, action by action.                                             *)
LEMMA CoreStep == IInv /\ [Next]_vars => Core'
<1> SUFFICES ASSUME IInv, [Next]_vars PROVE Core'
  OBVIOUS
<1>0. Core /\ ControlTypes /\ ArgumentKept /\ thresh \in [End -> Nat] /\ inop \in [End -> BOOLEAN]
  BY Parts DEF Core, BufferTypes
<1>1. CASE UNCHANGED <<bvars, inop, thresh, ptr, written, out, failed>>
  BY <1>0, <1>1, CoreQuiet
<1>2. ASSUME NEW d \in End, Call(d) \/ Wakeup(d) \/ Shutdown(d) PROVE Core'
  BY <1>1, <1>2 DEF Call, Wakeup, Shutdown, cvars, dvars
<1>3. ASSUME NEW d \in End, Enter(d) PROVE Core'
  <2>1. failed' = failed
    <3>1. inop[d] => want[d] <= thresh[d]
      BY <1>0, <1>3 DEF Enter, ArgumentKept
    <3>2. ~(inop[d] /\ thresh[d] < want[d])
      BY <1>0, <3>1 DEF ControlTypes
    <3>3. failed \in BOOLEAN
      BY <1>0 DEF Core, BufferTypes
    <3> QED
      BY <1>3, <3>2, <3>3 DEF Enter
  <2>2. thresh' \in [End -> Nat] /\ \A e \in End : inop[e] => thresh'[e] = thresh[e]
    BY <1>0, <1>3 DEF Enter, ControlTypes
  <2>3. UNCHANGED <<bvars, inop, ptr, written, out>>
    BY <1>3 DEF Enter, dvars
  <2> QED
    BY <1>0, <2>1, <2>2, <2>3, CoreQuiet
<1>4. ASSUME NEW d \in End, Loop(d) PROVE Core'
  <2>0. pc[d] = "loop"
    BY <1>4 DEF Loop
  <2>1. CASE LoopPtr(d)
    BY <1>0, <2>0, <2>1, CoreLoopPtr DEF ControlTypes
  <2>2. CASE LoopShut(d) \/ LoopTerminated(d) \/ LoopWait(d)
    BY <1>1, <2>2 DEF LoopShut, LoopTerminated, LoopWait, cvars, dvars
  <2>3. CASE LoopGrowMax(d)
    <3>1. ~inop[d]
      BY <2>0, <2>3, NoPointerOut DEF LoopGrowMax, NotShut
    <3>2. want[d] \in Nat /\ 2 * want[d] \in Nat
      BY <1>0 DEF ControlTypes
    <3>3. UnlockedGrow(2 * want[d], want[d]) /\ UNCHANGED <<inop, thresh, ptr, written, out>>
      BY <2>3 DEF LoopGrowMax, cvars, dvars
    <3> QED
      BY <1>0, <3>1, <3>2, <3>3, CoreGrow
  <2>4. CASE LoopGrowBlocked(d)
    <3>1. ~inop[d]
      BY <2>0, <2>4, NoPointerOut DEF LoopGrowBlocked, NotShut
    <3>2. want[d] \in Nat /\ request[Other(d)] + want[d] \in Nat
      BY <1>0 DEF ControlTypes, Other
    <3>3. /\ UnlockedGrow(request[Other(d)] + want[d], want[d])
          /\ UNCHANGED <<inop, thresh, ptr, written, out>>
      BY <2>4 DEF LoopGrowBlocked, cvars, dvars
    <3> QED
      BY <1>0, <3>1, <3>2, <3>3, CoreGrow
  <2> QED
    BY <1>4, <2>1, <2>2, <2>3, <2>4 DEF Loop
<1>5. ASSUME NEW n \in 0 .. MaxItems, Dequeue(n) \/ Enqueue(n) PROVE Core'
  BY <1>0, <1>5, CoreDequeue, CoreEnqueue
<1>6. CASE Grow
  <2>1. PICK a \in GrowArgs : UnlockedGrow(a[1], a[2])
    BY <1>6 DEF Grow
  <2>2. a[1] \in Nat /\ a[2] \in Nat
    OBVIOUS
  <2>3. ~(inop["read"] /\ inop["write"]) /\ UNCHANGED <<inop, thresh, ptr, written, out>>
    BY <1>6 DEF Grow, cvars, dvars
  <2> QED
    BY <1>0, <2>1, <2>2, <2>3, CoreGrow
<1>7. CASE Terminate \/ NotifyTerminate
  BY <1>1, <1>7 DEF Terminate, NotifyTerminate, cvars, dvars
<1>8. CASE UNCHANGED vars
  BY <1>1, <1>8 DEF vars, cvars, dvars
<1> QED
  BY <1>2, <1>3, <1>4, <1>5, <1>6, <1>7, <1>8 DEF Next, Step, Ended

(* Every action preserves the types of the control variables and what is   *)
(* known of the arguments.                                                 *)
LEMMA ControlStep == IInv /\ [Next]_vars => ControlTypes' /\ ArgumentKept'
<1> SUFFICES ASSUME IInv, [Next]_vars PROVE ControlTypes' /\ ArgumentKept'
  OBVIOUS
<1>0. /\ Core /\ ControlTypes /\ ArgumentKept
      /\ thresh \in [End -> Nat] /\ inop \in [End -> BOOLEAN]
  BY Parts DEF Core, BufferTypes
<1> USE DEF ControlTypes, Goto, Signal
<1>1. ASSUME NEW d \in End, Call(d) PROVE ControlTypes' /\ ArgumentKept'
  <2>1. PICK th \in Thresholds :
          /\ inop[d] => th <= thresh[d]
          /\ want' = [want EXCEPT ![d] = IF terminated THEN 0 ELSE th]
    BY <1>1 DEF Call
  <2>2. ControlTypes'
    BY <1>0, <1>1, <2>1 DEF Call, cvars, kvars
  <2> QED
    BY <1>0, <1>1, <2>1, <2>2 DEF Call, cvars, ArgumentKept
<1>2. ASSUME NEW d \in End, Enter(d) PROVE ControlTypes' /\ ArgumentKept'
  BY <1>0, <1>2 DEF Enter, kvars, ArgumentKept
<1>3. ASSUME NEW d \in End, Loop(d) PROVE ControlTypes' /\ ArgumentKept'
  <2>0. pc[d] = "loop" /\ (lock' = lock \/ lock' = None)
    BY <1>3 DEF Loop, LoopPtr, LoopShut, LoopGrowMax, LoopTerminated,
                LoopGrowBlocked, LoopWait
  <2>1. CASE LoopPtr(d)
    <3>1. inop' = [inop EXCEPT ![d] = TRUE] /\ pc' = [pc EXCEPT ![d] = "idle"]
      BY <1>0, <2>0, <2>1, CoreLoopPtr
    <3>2. UNCHANGED <<shutdown, request, thresh, terminated, notified, want, grown, asleep>>
      BY <2>1 DEF LoopPtr, kvars
    <3> QED
      BY <1>0, <2>0, <3>1, <3>2 DEF ArgumentKept
  <2>2. CASE LoopShut(d)
    BY <1>0, <2>0, <2>2 DEF LoopShut, cvars, kvars, ArgumentKept
  <2>3. CASE LoopGrowMax(d)
    BY <1>0, <2>3 DEF LoopGrowMax, cvars, kvars, ArgumentKept
  <2>4. CASE LoopTerminated(d)
    BY <1>0, <2>0, <2>4 DEF LoopTerminated, cvars, kvars, ArgumentKept
  <2>5. CASE LoopGrowBlocked(d)
    BY <1>0, <2>5 DEF LoopGrowBlocked, cvars, kvars, ArgumentKept
  <2>6. CASE LoopWait(d)
    <3>1. ControlTypes'
      <4>1. \/ /\ request' = [request EXCEPT ![d] = want[d]]
               /\ asleep' = [asleep EXCEPT ![d] = TRUE]
               /\ pc' = [pc EXCEPT ![d] = "wait"] /\ lock' = None
            \/ UNCHANGED <<request, asleep, pc, lock>>
        BY <2>6 DEF LoopWait
      <4>2. /\ request' = [request EXCEPT ![d] = want[d]] \/ request' = request
            /\ asleep' = [asleep EXCEPT ![d] = TRUE] \/ asleep' = asleep
        BY <4>1
      <4>4. request' \in [End -> Nat]
        BY <1>0, <4>2
      <4>5. asleep' \in [End -> BOOLEAN]
        BY <1>0, <4>2
      <4>3. pc' \in [End -> {"idle", "enter", "loop", "wait", "ending", "done"}]
        BY <1>0, <4>1
      <4> QED
        BY <1>0, <2>6, <4>1, <4>4, <4>5, <4>3 DEF LoopWait, kvars
    <3>2. pc' = pc \/ pc' = [pc EXCEPT ![d] = "wait"]
      BY <2>6 DEF LoopWait
    <3>3. UNCHANGED <<want, thresh, inop>>
      BY <2>6 DEF LoopWait
    <3> QED
      BY <1>0, <2>0, <3>1, <3>2, <3>3 DEF ArgumentKept
  <2> QED
    BY <1>3, <2>1, <2>2, <2>3, <2>4, <2>5, <2>6 DEF Loop
<1>4. ASSUME NEW d \in End, Wakeup(d) PROVE ControlTypes' /\ ArgumentKept'
  <2>1. \/ pc' = [pc EXCEPT ![d] = "ending"] /\ UNCHANGED <<request, asleep, lock>>
        \/ asleep' = [asleep EXCEPT ![d] = TRUE] /\ UNCHANGED <<request, pc, lock>>
        \/ /\ request' = [request EXCEPT ![d] = 0] /\ lock' = d
           /\ pc' = [pc EXCEPT ![d] = "loop"] /\ UNCHANGED asleep
    BY <1>4 DEF Wakeup
  <2>2. /\ pc[d] = "wait"
        /\ UNCHANGED <<shutdown, thresh, inop, terminated, notified, want, grown>>
    BY <1>4 DEF Wakeup, kvars
  <2>3. ControlTypes'
    <3>1. /\ request' = [request EXCEPT ![d] = 0] \/ request' = request
          /\ asleep' = [asleep EXCEPT ![d] = TRUE] \/ asleep' = asleep
      BY <2>1
    <3>4. request' \in [End -> Nat]
      BY <1>0, <3>1
    <3>5. asleep' \in [End -> BOOLEAN]
      BY <1>0, <3>1
    <3>2. pc' \in [End -> {"idle", "enter", "loop", "wait", "ending", "done"}]
      BY <1>0, <2>1
    <3>3. lock' \in End \cup {None}
      BY <1>0, <2>1
    <3> QED
      BY <1>0, <2>2, <3>4, <3>5, <3>2, <3>3
  <2> QED
    BY <1>0, <2>1, <2>2, <2>3 DEF ArgumentKept
<1>5. ASSUME NEW d \in End, Shutdown(d) PROVE ControlTypes' /\ ArgumentKept'
  BY <1>0, <1>5 DEF Shutdown, kvars, ArgumentKept
<1>6. ASSUME NEW n \in 0 .. MaxItems, Dequeue(n) \/ Enqueue(n)
      PROVE  ControlTypes' /\ ArgumentKept'
  <2>1. PICK d \in End : GiveBack(d)
    BY <1>6 DEF Dequeue, Enqueue
  <2>2. \E b, e : Notify(b, e)
    BY <1>6 DEF Dequeue, Enqueue
  <2>3. asleep' \in [End -> BOOLEAN]
    BY <1>0, <2>2 DEF Notify
  <2> QED
    BY <1>0, <2>1, <2>3 DEF GiveBack, kvars, ArgumentKept
<1>7. CASE Grow
  BY <1>0, <1>7 DEF Grow, cvars, kvars, tvars, ArgumentKept
<1>8. CASE Terminate \/ NotifyTerminate
  BY <1>0, <1>8 DEF Terminate, NotifyTerminate, cvars, tvars, ArgumentKept
<1>9. CASE UNCHANGED vars
  BY <1>0, <1>9 DEF vars, cvars, kvars, tvars, ArgumentKept
<1> QED
  BY <1>1, <1>2, <1>3, <1>4, <1>5, <1>6, <1>7, <1>8, <1>9 DEF Next, Step, Ended

---------------------------------------------------------------------------
(* The inductive invariant holds in every reachable state, whatever the    *)
(* lengths, thresholds and calls of Grow.                                  *)
THEOREM Invariance == Spec => []IInv
<1>1. IInv /\ [Next]_vars => IInv'
  <2>1. IInv /\ [Next]_vars => (Core /\ ControlTypes /\ ArgumentKept)'
    BY CoreStep, ControlStep
  <2>2. (Core /\ ControlTypes /\ ArgumentKept)' => IInv'
    BY Parts, PTL
  <2> QED
    BY <2>1, <2>2
<1> QED
  BY InitIInv, <1>1, PTL DEF Spec

(* The types of all variables; no buffer ever holds more elements than its *)
(* length.                                                                 *)
THEOREM TypeCorrect == Spec => []TypeOK
<1>1. IInv => TypeOK
  BY DEF IInv
<1> QED
  BY Invariance, <1>1, PTL

(* Growing the queue under a pointer that has been given out neither frees *)
(* nor forgets the buffer the pointer goes into.                           *)
THEOREM PointersStayLive == Spec => []PointersLive
<1>1. IInv => PointersLive
  BY DEF IInv, PointerBacked, OldInUse, PointersLive
<1> QED
  BY Invariance, <1>1, PTL

(* No ASSERT of QueueBase::GetRaw{De,En}queuePtr, UnlockedGrow and         *)
(* InternalEnqueue can fail.                                               *)
THEOREM NoAssertFails == Spec => []AssertsHold
<1>1. IInv => AssertsHold
  BY DEF IInv
<1> QED
  BY Invariance, <1>1, PTL

(* The reader gets what the writer wrote, all of it and in order, through  *)
(* every growth of the queue.                                              *)
THEOREM InAndOut == Spec => []FIFO
<1>1. IInv => FIFO
  <2> SUFFICES ASSUME IInv PROVE out \o queue.data = [i \in 1 .. written |-> i]
    BY DEF FIFO
  <2>1. /\ out \in Seq(Nat) /\ queue.data \in Seq(Nat) /\ written \in Nat
        /\ Len(out) \in Nat /\ Len(queue.data) \in Nat
    BY LenProperties, BufFacts DEF IInv, TypeOK, BufferOK
  <2>2. /\ Len(out) + Len(queue.data) = written
        /\ \A i \in 1 .. Len(out) : out[i] = i
        /\ \A i \in 1 .. Len(queue.data) : queue.data[i] = Len(out) + i
    BY DEF IInv, InOrder
  <2> DEFINE s == out \o queue.data
  <2>3. /\ s \in Seq(Nat) /\ Len(s) = Len(out) + Len(queue.data)
        /\ \A i \in 1 .. Len(out) + Len(queue.data) :
             s[i] = IF i <= Len(out) THEN out[i] ELSE queue.data[i - Len(out)]
    BY <2>1, ConcatProperties
  <2> HIDE DEF s
  <2>4. ASSUME NEW i \in 1 .. written PROVE s[i] = i
    <3>1. CASE i <= Len(out)
      <4>1. i \in 1 .. Len(out)
        BY <2>1, <3>1
      <4> QED
        BY <2>2, <2>3, <3>1, <4>1
    <3>2. CASE ~(i <= Len(out))
      <4>1. i - Len(out) \in 1 .. Len(queue.data)
        BY <2>1, <2>2, <3>2
      <4> QED
        BY <2>1, <2>2, <2>3, <3>2, <4>1
    <3> QED
      BY <3>1, <3>2
  <2>5. s \in [1 .. written -> Nat]
    BY <2>2, <2>3, LenProperties
  <2>6. s = [i \in 1 .. written |-> i]
    BY <2>4, <2>5
  <2> QED
    BY <2>6 DEF s
<1> QED
  BY Invariance, <1>1, PTL

(* Every step of the queue is a step of the bounded FIFO, or none.         *)
LEMMA FifoStep == IInv /\ [Next]_vars => [Fifo!Next]_(Fifo!vars)
<1> SUFFICES ASSUME IInv, [Next]_vars PROVE [Fifo!Next]_(Fifo!vars)
  OBVIOUS
<1>0. /\ Core /\ ControlTypes /\ BufferOK(queue) /\ queue \in Buf
      /\ queue.len \in Nat /\ queue.data \in Seq(Nat) /\ Len(queue.data) \in Nat
  BY Parts, BufFacts DEF Core, BufferTypes, BufferOK
<1>1. CASE UNCHANGED queue
  BY <1>1 DEF Fifo!vars
<1>2. ASSUME NEW len \in Nat, NEW max \in Nat, UnlockedGrow(len, max)
      PROVE  [Fifo!Next]_(Fifo!vars)
  <2>1. CASE queue' = Grown(queue, len, max)
    <3>1. BufferOK(queue') /\ queue'.data = queue.data /\ queue'.len >= queue.len
      BY <1>0, <2>1, GrownFacts
    <3>2. queue'.len \in Nat
      BY <3>1, BufFacts DEF BufferOK
    <3> QED
      BY <3>1, <3>2 DEF Fifo!Next, Fifo!Grow
  <2> QED
    BY <1>1, <1>2, <2>1 DEF UnlockedGrow, bvars
<1>3. ASSUME NEW d \in End, Loop(d) PROVE [Fifo!Next]_(Fifo!vars)
  <2>1. want[d] \in Nat /\ 2 * want[d] \in Nat /\ request[Other(d)] + want[d] \in Nat
    BY <1>0 DEF ControlTypes, Other
  <2> QED
    BY <1>1, <1>2, <1>3, <2>1
       DEF Loop, LoopPtr, LoopShut, LoopGrowMax, LoopTerminated, LoopGrowBlocked,
           LoopWait, bvars
<1>4. CASE Grow
  <2>1. PICK a \in GrowArgs : UnlockedGrow(a[1], a[2])
    BY <1>4 DEF Grow
  <2> QED
    BY <1>2, <2>1
<1>5. ASSUME NEW n \in 0 .. MaxItems, Dequeue(n) PROVE [Fifo!Next]_(Fifo!vars)
  <2>1. /\ queue' = [queue EXCEPT !.data = SubSeq(@, n + 1, Len(@))]
        /\ inop["read"] /\ n <= thresh["read"]
    BY <1>5 DEF Dequeue, GiveBack
  <2>2. queue'.data = SubSeq(queue.data, n + 1, Len(queue.data)) /\ queue'.len = queue.len
    BY <1>0, <2>1 DEF Buf
  <2>3. n \in 0 .. Len(queue.data)
    <3>1. thresh["read"] <= Len(queue.data) /\ thresh["read"] \in Nat
      BY <1>0, <2>1 DEF Core, BufferTypes, PointerBacked, Avail, AvailIn
    <3> QED
      BY <1>0, <2>1, <3>1
  <2> QED
    BY <2>2, <2>3 DEF Fifo!Next, Fifo!Take
<1>6. ASSUME NEW n \in 0 .. MaxItems, Enqueue(n) PROVE [Fifo!Next]_(Fifo!vars)
  <2>1. PICK new \in Seq(Nat) :
          queue' = [queue EXCEPT !.data = @ \o new] /\ Len(new) = n
    BY <1>0, <1>6, EnqueueData
  <2> DEFINE data == queue.data \o new
  <2>2. /\ data \in Seq(Nat) /\ Len(data) = Len(queue.data) + Len(new)
        /\ \A i \in 1 .. Len(queue.data) + Len(new) :
             data[i] = IF i <= Len(queue.data) THEN queue.data[i] ELSE new[i - Len(queue.data)]
    BY <1>0, ConcatProperties
  <2>3. queue'.data = data /\ queue'.len = queue.len
    BY <1>0, <2>1, <2>2 DEF Buf
  <2> HIDE DEF data
  <2>4. Len(data) \in Len(queue.data) .. queue.len
    <3>1. /\ thresh["write"] <= queue.len - Len(queue.data) /\ thresh["write"] \in Nat
          /\ n <= thresh["write"]
      BY <1>0, <1>6 DEF Core, BufferTypes, PointerBacked, Avail, AvailIn, Enqueue, GiveBack
    <3> QED
      BY <1>0, <2>1, <2>2, <3>1
  <2>5. queue.data = SubSeq(data, 1, Len(queue.data))
    <3> DEFINE first == SubSeq(data, 1, Len(queue.data))
    <3>1. \A i \in 1 .. Len(queue.data) : data[i] = queue.data[i] /\ data[i] \in Nat
      <4>1. \A i \in 1 .. Len(queue.data) : queue.data[i] \in Nat
        BY <1>0, ElementOfSeq
      <4>2. \A i \in 1 .. Len(queue.data) :
              i \in 1 .. Len(queue.data) + Len(new) /\ i <= Len(queue.data)
        BY <1>0, <2>1
      <4> QED
        BY <2>2, <4>1, <4>2
    <3>2. /\ first \in Seq(Nat)
          /\ Len(first) = IF 1 <= Len(queue.data) THEN Len(queue.data) - 1 + 1 ELSE 0
          /\ \A i \in 1 .. Len(queue.data) - 1 + 1 : first[i] = data[1 + i - 1]
      BY <1>0, <3>1, SubSeqProperties
    <3> HIDE DEF first
    <3>3. Len(first) = Len(queue.data)
      BY <1>0, <3>2
    <3>4. ASSUME NEW i \in 1 .. Len(queue.data) PROVE queue.data[i] = first[i]
      <4>1. i \in 1 .. Len(queue.data) - 1 + 1 /\ 1 + i - 1 = i
        BY <1>0
      <4> QED
        BY <3>1, <3>2, <4>1
    <3>5. queue.data = first
      BY <1>0, <3>2, <3>3, <3>4, SeqEqual
    <3> QED
      BY <3>5 DEF first
  <2> QED
    BY <2>3, <2>4, <2>5 DEF Fifo!Next, Fifo!Put
<1> QED
  BY <1>1, <1>3, <1>4, <1>5, <1>6
     DEF Next, Step, Call, Enter, Wakeup, Shutdown, Terminate, NotifyTerminate,
         Ended, vars, bvars

(* The queue, with two threads, two buffers, growth, shutdown and          *)
(* termination, implements the bounded FIFO.                               *)
THEOREM Refinement == Spec => ImplementsFifo
<1>1. Init => Fifo!Init
  BY DEF Init, Fifo!Init
<1>2. IInv /\ [Next]_vars => [Fifo!Next]_(Fifo!vars)
  BY FifoStep
<1> QED
  BY Invariance, <1>1, <1>2, PTL DEF Spec, ImplementsFifo, Fifo!Spec

---------------------------------------------------------------------------
(* Sleeping and waking, where nobody calls Grow from outside (which wakes  *)
(* nobody).                                                                *)

(* A thread is in the loop exactly while it holds the lock.                *)
LockInLoop == \A d \in End : pc[d] = "loop" <=> lock = d

(* NoLostWakeup, with the place where a thread sleeps.                     *)
SleepersBlocked ==
  \A d \in End : asleep[d] => pc[d] = "wait" /\ Blocked(d) /\ ~notified

(* A writer that has grown the queue because the reader was blocked gets   *)
(* its pointer in the next round: the test of the reader that it skips     *)
(* with grown set cannot send it to sleep.                                 *)
GrowthServes ==
  grown["write"] =>
    /\ pc["write"] # "wait"
    /\ pc["write"] = "loop" => Gives(queue, "write", want["write"])

(* NoMutualBlock has to count a thread that has been woken and not run yet *)
(* among the blocked ones: it may find itself blocked and sleep again.     *)
OneServed ==
  GrowQueueMaxThreshold => \E d \in End : ~(pc[d] = "wait" /\ Blocked(d))

WakeInv ==
  /\ LockInLoop /\ SleepersBlocked /\ (notified => terminated) /\ GrowthServes
  /\ OneServed

(* Growing for a blocked reader makes room for the writer's request on top *)
(* of all that the reader could have asked for.                            *)
LEMMA GrowServesWriter ==
  ASSUME IInv, ~failed', Blocked("read"),
         UnlockedGrow(request["read"] + want["write"], want["write"])
  PROVE  Gives(queue', "write", want["write"])
<1> DEFINE r == request["read"]
           w == want["write"]
           n == Len(queue.data)
<1>1. /\ BufferOK(queue) /\ queue \in Buf /\ queue.len \in Nat /\ queue.max \in Nat
      /\ n \in Nat
  BY BufFacts DEF IInv, TypeOK, BufferOK
<1>2. r \in Nat /\ w \in Nat /\ r + w \in Nat
  BY DEF IInv, TypeOK
<1>3. n < r
  BY DEF Blocked, Avail, AvailIn
<1>4. ASSUME NEW b, b.data = queue.data, b.len \in Nat, b.max \in Nat, b.len >= r + w,
             b.max >= w
      PROVE  Gives(b, "write", w)
  BY <1>1, <1>2, <1>3, <1>4 DEF Gives, AvailIn
<1>5. CASE Enough(r + w, w)
  <2>1. queue' = queue
    BY <1>5 DEF UnlockedGrow, bvars
  <2> QED
    BY <1>1, <1>2, <1>4, <1>5, <2>1 DEF Enough
<1>6. CASE ~Enough(r + w, w)
  <2>1. GrowAsserts(r + w, w) /\ queue' = Grown(queue, r + w, w)
    BY <1>6 DEF UnlockedGrow
  <2>2. LET c == Grown(queue, r + w, w) IN
        /\ c.data = queue.data /\ c.len \in Nat /\ c.max \in Nat
        /\ c.len >= r + w /\ c.max >= w
    BY <1>1, <1>2 DEF Grown, Larger
  <2> QED
    BY <2>1, <2>2, <1>4
<1> QED
  BY <1>5, <1>6

LEMMA InitWake == Init => WakeInv
BY DEF Init, WakeInv, LockInLoop, SleepersBlocked, GrowthServes, OneServed

(* The lock, action by action.                                             *)
LEMMA LockStep ==
  ASSUME IInv, LockInLoop, [Next]_vars
  PROVE  LockInLoop'
<1>0. ControlTypes
  BY Parts
<1> USE DEF Goto, LockInLoop
<1>1. ASSUME NEW d \in End, Call(d) PROVE LockInLoop'
  BY <1>0, <1>1 DEF Call, ControlTypes
<1>2. ASSUME NEW d \in End, Enter(d) PROVE LockInLoop'
  BY <1>0, <1>2 DEF Enter, ControlTypes
<1>3. ASSUME NEW d \in End, Loop(d) PROVE LockInLoop'
  <2>1. lock = d /\ pc[d] = "loop"
    BY <1>3 DEF Loop
  <2>2. \/ UNCHANGED <<pc, lock>>
        \/ lock' = None /\ \E l \in {"idle", "ending", "wait"} : pc' = [pc EXCEPT ![d] = l]
    BY <1>3 DEF Loop, LoopPtr, LoopShut, LoopGrowMax, LoopTerminated, LoopGrowBlocked,
                LoopWait
  <2> QED
    BY <1>0, <2>1, <2>2 DEF ControlTypes
<1>4. ASSUME NEW d \in End, Wakeup(d) PROVE LockInLoop'
  <2>1. lock = None /\ pc[d] = "wait"
    BY <1>4 DEF Wakeup
  <2>2. \/ pc' = [pc EXCEPT ![d] = "ending"] /\ lock' = lock
        \/ UNCHANGED <<pc, lock>>
        \/ lock' = d /\ pc' = [pc EXCEPT ![d] = "loop"]
    BY <1>4 DEF Wakeup
  <2> QED
    BY <1>0, <2>1, <2>2 DEF ControlTypes
<1>5. ASSUME NEW d \in End, Shutdown(d) PROVE LockInLoop'
  BY <1>0, <1>5 DEF Shutdown, ControlTypes
<1>6. ASSUME NEW n \in 0 .. MaxItems, Dequeue(n) \/ Enqueue(n) PROVE LockInLoop'
  BY <1>6 DEF Dequeue, Enqueue, GiveBack
<1>7. CASE Grow \/ Terminate \/ NotifyTerminate \/ UNCHANGED vars
  BY <1>7 DEF Grow, Terminate, NotifyTerminate, vars, tvars
<1> QED
  BY <1>1, <1>2, <1>3, <1>4, <1>5, <1>6, <1>7 DEF Next, Step, Ended

(* An end is blocked as before if the queue, the ends and its request are  *)
(* as before.                                                              *)
LEMMA BlockedSame ==
  ASSUME UNCHANGED <<queue, shutdown>>, NEW e \in End, request'[e] = request[e]
  PROVE  Blocked(e)' <=> Blocked(e)
BY DEF Blocked, Avail, AvailIn, Shut

(* A step of a thread that does not end in the wait.                       *)
LEMMA NotToSleep ==
  ASSUME SleepersBlocked, UNCHANGED <<queue, shutdown, notified>>, NEW d \in End,
         \A e \in End \ {d} : pc'[e] = pc[e] /\ request'[e] = request[e],
         \A e \in End : asleep'[e] => asleep[e],
         pc'[d] # "wait", ~asleep'[d]
  PROVE  SleepersBlocked' /\ OneServed'
<1>1. ASSUME NEW e \in End, asleep'[e] PROVE pc'[e] = "wait" /\ Blocked(e)' /\ ~notified'
  <2>1. e # d /\ pc'[e] = pc[e] /\ request'[e] = request[e] /\ asleep[e]
    BY <1>1
  <2>2. pc[e] = "wait" /\ Blocked(e) /\ ~notified
    BY <2>1 DEF SleepersBlocked
  <2> QED
    BY <2>1, <2>2, BlockedSame
<1> QED
  BY <1>1 DEF SleepersBlocked, OneServed

(* Where every thread is woken nobody sleeps, and one that is not in the   *)
(* wait is not blocked in it.                                              *)
LEMMA AllAwake ==
  ASSUME \A e \in End : ~asleep'[e], NEW d \in End, pc'[d] # "wait"
  PROVE  SleepersBlocked' /\ OneServed'
BY DEF SleepersBlocked, OneServed

(* Sleeping and waking, action by action.                                  *)
LEMMA SleepStep ==
  ASSUME GrowArgs = {}, IInv, IInv', WakeInv, [Next]_vars
  PROVE  SleepersBlocked' /\ OneServed' /\ (notified => terminated)'
<1>0. /\ ControlTypes /\ LockInLoop /\ SleepersBlocked /\ (notified => terminated)
      /\ GrowthServes /\ OneServed
  BY Parts DEF WakeInv
<1>a. (notified => terminated)'
  <2>1. \/ UNCHANGED <<notified, terminated>>
        \/ terminated' = TRUE
        \/ terminated /\ terminated' = terminated
    BY DEF Next, Step, Ended, Call, Enter, Loop, LoopPtr, LoopShut, LoopGrowMax, LoopTerminated,
       LoopGrowBlocked, LoopWait, Wakeup, Shutdown, Dequeue, Enqueue, GiveBack, Grow, Terminate,
       NotifyTerminate, vars, kvars
  <2> QED
    BY <1>0, <2>1
<1> DEFINE Goal == SleepersBlocked' /\ OneServed'
<1> USE DEF Goto, Signal, ControlTypes
<1>1. ASSUME NEW d \in End, Call(d) \/ Enter(d) PROVE Goal
  <2>1. UNCHANGED <<queue, shutdown, notified, asleep, request>> /\ ~asleep[d]
    BY <1>0, <1>1 DEF Call, Enter, bvars, cvars, kvars, SleepersBlocked
  <2>2. pc'[d] # "wait" /\ \A e \in End \ {d} : pc'[e] = pc[e]
    BY <1>0, <1>1 DEF Call, Enter
  <2> QED
    BY <1>0, <2>1, <2>2, NotToSleep
<1>3. ASSUME NEW d \in End, Loop(d) PROVE Goal
  <2>0. pc[d] = "loop" /\ lock = d /\ ~asleep[d]
    BY <1>0, <1>3 DEF Loop, SleepersBlocked
  <2>1. CASE LoopPtr(d) \/ LoopShut(d) \/ LoopTerminated(d)
    <3>1. UNCHANGED <<queue, shutdown, notified, asleep>>
      BY <2>1 DEF LoopPtr, LoopShut, LoopTerminated, bvars, cvars, kvars
    <3>2. pc'[d] # "wait" /\ \A e \in End \ {d} : pc'[e] = pc[e]
      BY <1>0, <2>1 DEF LoopPtr, LoopShut, LoopTerminated
    <3>3. \A e \in End \ {d} : request'[e] = request[e]
      BY <1>0, <2>1 DEF LoopPtr, LoopShut, LoopTerminated, cvars
    <3> QED
      BY <1>0, <2>0, <3>1, <3>2, <3>3, NotToSleep
  <2>2. CASE LoopGrowMax(d) \/ LoopGrowBlocked(d)
    BY <2>0, <2>2, AllAwake DEF LoopGrowMax, LoopGrowBlocked
  <2>3. CASE LoopWait(d)
    <3>1. CASE ~(Avail(d) < want[d])
      <4>1. UNCHANGED <<queue, shutdown, notified, asleep, pc, request>>
        BY <2>3, <3>1 DEF LoopWait, bvars, kvars
      <4> QED
        BY <1>0, <2>0, <4>1, NotToSleep
    <3>2. CASE Avail(d) < want[d]
      <4>1. /\ request' = [request EXCEPT ![d] = want[d]]
            /\ asleep' = [asleep EXCEPT ![d] = TRUE]
            /\ pc' = [pc EXCEPT ![d] = "wait"]
            /\ UNCHANGED <<queue, shutdown, notified>>
        BY <2>3, <3>2 DEF LoopWait, bvars, kvars
      <4>2. ~Shut /\ ~notified /\ ~OtherBlocked(d) /\ Retry(d)
        BY <1>0, <2>3 DEF LoopWait, NotShut
      <4>3. Blocked(d)'
        <5>1. request'[d] = want[d] /\ ~Shut'
          BY <1>0, <4>1, <4>2 DEF Shut
        <5> QED
          BY <3>2, <4>1, <5>1 DEF Blocked, Avail, AvailIn
      <4>4. \A e \in End \ {d} : /\ pc'[e] = pc[e] /\ asleep'[e] = asleep[e]
                                 /\ request'[e] = request[e]
        BY <1>0, <4>1
      <4>5. SleepersBlocked'
        <5>1. pc'[d] = "wait" /\ ~notified'
          BY <1>0, <4>1, <4>2
        <5>2. ASSUME NEW e \in End \ {d}, asleep'[e]
              PROVE  pc'[e] = "wait" /\ Blocked(e)' /\ ~notified'
          BY <1>0, <4>1, <4>4, <5>2, BlockedSame DEF SleepersBlocked
        <5> QED
          BY <4>3, <5>1, <5>2 DEF SleepersBlocked
      <4>6. OneServed'
        <5>1. ~(d = "write" /\ grown[d])
          BY <1>0, <2>0, <4>2 DEF GrowthServes, Retry
        <5>2. GrowQueueMaxThreshold => ~Blocked(Other(d))
          BY <4>2, <5>1 DEF OtherBlocked
        <5>3. Other(d) \in End \ {d}
          BY DEF Other
        <5>4. PICK e \in End \ {d} : e = Other(d)
          BY <5>3
        <5>5. GrowQueueMaxThreshold => ~Blocked(e)'
          BY <4>1, <4>4, <5>2, <5>4, BlockedSame
        <5> QED
          BY <5>5 DEF OneServed
      <4> QED
        BY <4>5, <4>6
    <3> QED
      BY <3>1, <3>2
  <2> QED
    BY <1>3, <2>1, <2>2, <2>3 DEF Loop
<1>4. ASSUME NEW d \in End, Wakeup(d) PROVE Goal
  <2>0. pc[d] = "wait" /\ ~asleep[d] /\ UNCHANGED <<queue, shutdown, notified>>
    BY <1>4 DEF Wakeup, bvars, kvars
  <2>1. CASE pc' # pc
    <3>1. /\ pc' = [pc EXCEPT ![d] = "ending"] \/ pc' = [pc EXCEPT ![d] = "loop"]
          /\ request' = request \/ request' = [request EXCEPT ![d] = 0]
          /\ asleep' = asleep
      BY <1>4, <2>1 DEF Wakeup
    <3>2. pc'[d] # "wait" /\ \A e \in End \ {d} : pc'[e] = pc[e]
      BY <1>0, <3>1
    <3>3. \A e \in End \ {d} : request'[e] = request[e]
      BY <1>0, <3>1
    <3> QED
      BY <1>0, <2>0, <3>1, <3>2, <3>3, NotToSleep
  <2>2. CASE pc' = pc
    <3>1. /\ asleep' = [asleep EXCEPT ![d] = TRUE] /\ request' = request
          /\ ~terminated /\ Blocked(d)
      <4>1. pc # [pc EXCEPT ![d] = "ending"] /\ pc # [pc EXCEPT ![d] = "loop"]
        BY <1>0, <2>0
      <4> QED
        BY <1>4, <2>2, <4>1 DEF Wakeup
    <3>2. \A e \in End : Blocked(e)' <=> Blocked(e)
      BY <2>0, <3>1, BlockedSame
    <3>3. SleepersBlocked'
      <4>1. ASSUME NEW e \in End, asleep'[e]
            PROVE  pc[e] = "wait" /\ Blocked(e) /\ ~notified
        BY <1>0, <2>0, <3>1, <4>1 DEF SleepersBlocked
      <4> QED
        BY <2>0, <2>2, <3>2, <4>1 DEF SleepersBlocked
    <3>4. OneServed'
      BY <1>0, <2>2, <3>2 DEF OneServed
    <3> QED
      BY <3>3, <3>4
  <2> QED
    BY <2>1, <2>2
<1>5. ASSUME NEW d \in End, Shutdown(d) PROVE Goal
  <2>1. pc'[d] = "done"
    BY <1>0, <1>5 DEF Shutdown
  <2> QED
    BY <1>5, <2>1, AllAwake DEF Shutdown
<1>6. ASSUME NEW d \in End, GiveBack(d), Notify(queue', Other(d))
      PROVE  Goal
  <2>0. /\ UNCHANGED <<pc, shutdown, request, notified>>
        /\ pc[d] = "idle" /\ ~asleep[d]
    BY <1>0, <1>6 DEF GiveBack, SleepersBlocked, kvars
  <2>1. CASE AvailIn(queue', Other(d)) >= request[Other(d)]
    BY <1>6, <2>0, <2>1, AllAwake DEF Notify
  <2>2. CASE ~(AvailIn(queue', Other(d)) >= request[Other(d)])
    <3>1. asleep' = asleep
      BY <1>6, <2>2 DEF Notify
    <3>2. ASSUME NEW e \in End, asleep[e] PROVE pc'[e] = "wait" /\ Blocked(e)' /\ ~notified'
      <4>1. e = Other(d)
        BY <2>0, <3>2 DEF Other
      <4>2. pc[e] = "wait" /\ ~Shut /\ ~notified /\ ~(AvailIn(queue', e) >= request'[e])
        BY <1>0, <2>0, <2>2, <3>2, <4>1 DEF SleepersBlocked, Blocked
      <4>3. AvailIn(queue', e) < request'[e]
        <5>1. queue'.len \in Nat /\ Len(queue'.data) \in Nat /\ request'[e] \in Nat
          BY BufFacts DEF IInv, TypeOK, BufferOK
        <5> QED
          BY <4>2, <5>1 DEF AvailIn
      <4> QED
        BY <1>6, <2>0, <4>2, <4>3 DEF Blocked, Avail, Shut
    <3> QED
      BY <2>0, <3>1, <3>2 DEF SleepersBlocked, OneServed
  <2> QED
    BY <2>1, <2>2
<1>7. ASSUME NEW n \in 0 .. MaxItems, Dequeue(n) \/ Enqueue(n) PROVE Goal
  <2>1. CASE Dequeue(n)
    <3>1. Notify(queue', "write") /\ GiveBack("read") /\ "write" = Other("read")
      BY <2>1 DEF Dequeue, Other
    <3> QED
      BY <3>1, <1>6 DEF GiveBack, kvars
  <2>2. CASE Enqueue(n)
    <3>1. Notify(queue', "read") /\ GiveBack("write") /\ "read" = Other("write")
      BY <2>2 DEF Enqueue, Other
    <3> QED
      BY <3>1, <1>6 DEF GiveBack, kvars
  <2> QED
    BY <1>7, <2>1, <2>2
<1>8. ~Grow
  BY DEF Grow
<1>9. CASE Terminate \/ NotifyTerminate \/ UNCHANGED vars
  <2>1. UNCHANGED <<queue, shutdown, request, pc>>
    BY <1>9 DEF Terminate, NotifyTerminate, vars, bvars, cvars, tvars
  <2>2. (asleep' = asleep /\ notified' = notified) \/ asleep' = [e \in End |-> FALSE]
    BY <1>9 DEF Terminate, NotifyTerminate, vars, tvars, kvars
  <2>3. \A e \in End : Blocked(e)' <=> Blocked(e)
    BY <2>1, BlockedSame
  <2>4. OneServed'
    BY <1>0, <2>1, <2>3 DEF OneServed
  <2>5. ASSUME NEW e \in End, asleep'[e] PROVE pc'[e] = "wait" /\ Blocked(e)' /\ ~notified'
    <3>1. asleep' = asleep /\ notified' = notified
      BY <2>2, <2>5
    <3> QED
      BY <1>0, <2>1, <2>3, <2>5, <3>1 DEF SleepersBlocked
  <2> QED
    BY <1>a, <2>4, <2>5 DEF SleepersBlocked
<1> QED
  BY <1>a, <1>1, <1>3, <1>4, <1>5, <1>7, <1>8, <1>9 DEF Next, Step, Ended

(* The writer's growth, action by action.  While the writer is in the loop *)
(* nobody else has the lock, and the queue changes only with the lock.     *)
LEMMA GrowthStep ==
  ASSUME IInv, IInv', WakeInv, [Next]_vars
  PROVE  GrowthServes'
<1>0. ControlTypes /\ LockInLoop /\ GrowthServes
  BY Parts DEF WakeInv
<1> USE DEF Goto, ControlTypes
<1>1. CASE /\ UNCHANGED <<queue, want>>
           /\ grown'["write"] => grown["write"]
           /\ pc'["write"] \in {"loop", "wait"} => pc["write"] = pc'["write"]
  <2> SUFFICES ASSUME grown'["write"]
               PROVE  /\ pc'["write"] # "wait"
                      /\ pc'["write"] = "loop" => Gives(queue', "write", want'["write"])
    BY DEF GrowthServes
  <2>1. grown["write"]
    BY <1>1
  <2>2. pc'["write"] = "wait" => pc["write"] = "wait"
    BY <1>1
  <2>3. pc'["write"] = "loop" => pc["write"] = "loop"
    BY <1>1
  <2> QED
    BY <1>0, <1>1, <2>1, <2>2, <2>3 DEF GrowthServes
<1>2. CASE /\ UNCHANGED <<pc, want, grown>> /\ pc["write"] # "loop"
  BY <1>0, <1>2 DEF GrowthServes
<1>3. ASSUME NEW d \in End, Call(d) PROVE GrowthServes'
  <2>1. CASE d = "write"
    <3>1. pc'["write"] \notin {"loop", "wait"}
      BY <1>0, <1>3, <2>1 DEF Call
    <3> QED
      BY <3>1 DEF GrowthServes
  <2>2. CASE d = "read"
    <3>1. pc'["write"] = pc["write"] /\ want'["write"] = want["write"]
      BY <1>0, <1>3, <2>2 DEF Call
    <3>2. UNCHANGED <<queue, grown>>
      BY <1>3 DEF Call, bvars
    <3> QED
      BY <1>0, <3>1, <3>2 DEF GrowthServes
  <2> QED
    BY <2>1, <2>2
<1>4. ASSUME NEW d \in End, Enter(d) PROVE GrowthServes'
  <2>1. CASE d = "write"
    <3>1. ~grown'["write"]
      BY <1>0, <1>4, <2>1 DEF Enter
    <3> QED
      BY <3>1 DEF GrowthServes
  <2>2. CASE d = "read"
    BY <1>0, <1>1, <1>4, <2>2 DEF Enter, bvars
  <2> QED
    BY <2>1, <2>2
<1>5. ASSUME NEW d \in End, Loop(d) PROVE GrowthServes'
  <2>0. pc[d] = "loop" /\ lock = d
    BY <1>5 DEF Loop
  <2>1. CASE LoopPtr(d) \/ LoopShut(d) \/ LoopTerminated(d)
    <3>1. UNCHANGED <<queue, want, grown>>
      BY <2>1 DEF LoopPtr, LoopShut, LoopTerminated, bvars
    <3>2. pc'["write"] \in {"loop", "wait"} => pc["write"] = pc'["write"]
      BY <1>0, <2>1 DEF LoopPtr, LoopShut, LoopTerminated
    <3> QED
      BY <1>1, <3>1, <3>2
  <2>2. CASE d = "read" /\ (LoopGrowMax(d) \/ LoopGrowBlocked(d))
    <3>1. pc["write"] # "loop"
      BY <1>0, <2>0, <2>2 DEF LockInLoop
    <3>2. UNCHANGED <<pc, want>> /\ grown'["write"] = grown["write"]
      BY <1>0, <2>2 DEF LoopGrowMax, LoopGrowBlocked
    <3> QED
      BY <1>0, <3>1, <3>2 DEF GrowthServes
  <2>3. CASE d = "write" /\ LoopGrowMax(d)
    <3>1. ~grown["write"]
      BY <1>0, <2>0, <2>3 DEF GrowthServes, LoopGrowMax, NotShut, Retry
    <3> QED
      BY <2>3, <3>1 DEF LoopGrowMax, GrowthServes
  <2>4. CASE d = "write" /\ LoopGrowBlocked(d)
    <3>1. /\ UnlockedGrow(request["read"] + want["write"], want["write"])
          /\ Blocked("read") /\ UNCHANGED <<pc, want>>
      BY <2>4 DEF LoopGrowBlocked, OtherBlocked, Other
    <3>2. ~failed'
      BY DEF IInv, AssertsHold
    <3>3. Gives(queue', "write", want'["write"])
      BY <3>1, <3>2, GrowServesWriter
    <3> QED
      BY <2>0, <2>4, <3>1, <3>3 DEF GrowthServes
  <2>5. CASE LoopWait(d)
    <3>1. UNCHANGED <<queue, want, grown>>
      BY <2>5 DEF LoopWait, bvars
    <3>2. CASE d = "read"
      <4>1. pc' = pc \/ pc' = [pc EXCEPT ![d] = "wait"]
        BY <2>5 DEF LoopWait
      <4>2. pc'["write"] = pc["write"]
        BY <1>0, <3>2, <4>1
      <4> QED
        BY <1>1, <3>1, <4>2
    <3>3. CASE d = "write"
      <4>1. ~grown["write"]
        BY <1>0, <2>0, <2>5, <3>3 DEF GrowthServes, LoopWait, NotShut, Retry
      <4> QED
        BY <3>1, <4>1 DEF GrowthServes
    <3> QED
      BY <3>2, <3>3
  <2> QED
    BY <1>5, <2>1, <2>2, <2>3, <2>4, <2>5 DEF Loop
<1>6. ASSUME NEW d \in End, Wakeup(d) PROVE GrowthServes'
  <2>1. UNCHANGED <<queue, want, grown>> /\ pc[d] = "wait"
    BY <1>6 DEF Wakeup, bvars
  <2>2. CASE d = "write"
    <3>1. ~grown["write"]
      BY <1>0, <2>1, <2>2 DEF GrowthServes
    <3> QED
      BY <2>1, <3>1 DEF GrowthServes
  <2>3. CASE d = "read"
    <3>1. pc' = pc \/ \E l \in {"ending", "loop"} : pc' = [pc EXCEPT ![d] = l]
      BY <1>6 DEF Wakeup
    <3>2. pc'["write"] = pc["write"]
      BY <1>0, <2>3, <3>1
    <3> QED
      BY <1>1, <2>1, <3>2
  <2> QED
    BY <2>2, <2>3
<1>7. ASSUME NEW d \in End, Shutdown(d) PROVE GrowthServes'
  <2>1. pc'["write"] \in {"loop", "wait"} => pc["write"] = pc'["write"]
    BY <1>0, <1>7 DEF Shutdown
  <2> QED
    BY <1>1, <1>7, <2>1 DEF Shutdown, bvars
<1>8. ASSUME NEW n \in 0 .. MaxItems, Dequeue(n) \/ Enqueue(n) PROVE GrowthServes'
  <2>1. UNCHANGED <<pc, want, grown>> /\ lock = None
    BY <1>8 DEF Dequeue, Enqueue, GiveBack
  <2> QED
    BY <1>0, <1>2, <2>1 DEF LockInLoop
<1>9. CASE Grow
  <2>1. UNCHANGED <<pc, want, grown>> /\ lock = None
    BY <1>9 DEF Grow, tvars
  <2> QED
    BY <1>0, <1>2, <2>1 DEF LockInLoop
<1>10. CASE Terminate \/ NotifyTerminate \/ UNCHANGED vars
  BY <1>1, <1>10 DEF Terminate, NotifyTerminate, vars, bvars, tvars
<1> QED
  BY <1>3, <1>4, <1>5, <1>6, <1>7, <1>8, <1>9, <1>10 DEF Next, Step, Ended

(* Without calls of Grow from outside, the inductive invariant of sleeping *)
(* and waking.                                                             *)
THEOREM WakeInvariance ==
  ASSUME GrowArgs = {}
  PROVE  Spec => []WakeInv
<1>1. IInv /\ IInv' /\ WakeInv /\ [Next]_vars => WakeInv'
  BY LockStep, SleepStep, GrowthStep DEF WakeInv
<1> QED
  BY <1>1, InitWake, Invariance, PTL DEF Spec

(* A thread sleeps in WaitForData or WaitForFreespace only while its end   *)
(* is blocked and the kernel has not notified the queue of its end: every  *)
(* broadcast that Enqueue, Dequeue, the growth inside the two loops,       *)
(* ShutdownReader, ShutdownWriter and NotifyTerminate owe is made.  Grow   *)
(* called by a third party owes one and does not make it, hence the        *)
(* hypothesis.                                                             *)
THEOREM WakeupsArrive ==
  ASSUME GrowArgs = {}
  PROVE  Spec => []NoLostWakeup
<1>1. WakeInv => NoLostWakeup
  BY DEF WakeInv, SleepersBlocked, NoLostWakeup
<1> QED
  BY <1>1, WakeInvariance, PTL

(* With GrowQueueMaxThreshold the two threads of a queue never sleep on    *)
(* each other, although the writer tests the reader only once and a woken  *)
(* thread may go back to sleep without a test.                             *)
THEOREM NeverBothAsleep ==
  ASSUME GrowArgs = {}
  PROVE  Spec => []NoMutualBlock
<1>1. WakeInv => NoMutualBlock
  BY DEF WakeInv, SleepersBlocked, OneServed, NoMutualBlock
<1> QED
  BY <1>1, WakeInvariance, PTL
====
