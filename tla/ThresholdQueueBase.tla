------------------------ MODULE ThresholdQueueBase ------------------------
(***************************************************************************)
(* The circular buffer under every CPN queue, on a platform without the    *)
(* mirror buffer set: one array with maxThreshold - 1 more cells than the  *)
(* queue is long.  The extra cells mirror the first ones, so that every    *)
(* block of up to maxThreshold elements can be read or written through one *)
(* pointer even where it wraps around; Enqueue copies what has been        *)
(* written to its other place.  head and tail run modulo twice the length, *)
(* which tells a full queue from an empty one.                             *)
(*                                                                         *)
(* A buffer is a record [queueLength, maxThreshold, base, head, tail].     *)
(* Elements are numbered in the order they are enqueued; 0 is a cell that  *)
(* has never been written.                                                 *)
(***************************************************************************)
EXTENDS Integers

CONSTANTS
  QueueLen, MaxThresh,  \* arguments of the constructor
  GrowArgs,             \* arguments <<queueLen, maxThresh>> of Grow
  MaxItems              \* bound: elements enqueued

ASSUME ArgumentAssumption ==
  /\ QueueLen \in Nat /\ MaxThresh \in Nat
  /\ GrowArgs \subseteq Nat \X Nat /\ MaxItems \in Nat

VARIABLES
  q,         \* the queue
  old,       \* the queue a Grow copies from
  growing,   \* inside the copying loop of Grow
  room,      \* spaces the enqueue pointer was asked for, 0 if none is out
  elementsEnqueued, elementsDequeued

vars == <<q, old, growing, room, elementsEnqueued, elementsDequeued>>

Larger(a, b)  == IF a >= b THEN a ELSE b
Smaller(a, b) == IF a <= b THEN a ELSE b

(* AllocateBuf: a threshold of at least 1 and a length of at least that.   *)
AllocateBuf(len, max) ==
  LET m == Larger(max, 1)  n == Larger(len, m) IN
  [queueLength |-> n, maxThreshold |-> m, head |-> 0, tail |-> 0,
   base |-> [i \in 0 .. n + m - 2 |-> 0]]

(* while (idx >= queueLength) idx -= queueLength;                          *)
Index(b, x) == x % b.queueLength

(* head and tail meet both when the queue is empty and when it is full;    *)
(* only when it is empty are they the same.                                *)
Count(b) ==
  LET c == (2 * b.queueLength - b.head + b.tail) % b.queueLength
  IN  IF c # 0 THEN c ELSE IF b.head = b.tail THEN 0 ELSE b.queueLength

Freespace(b) == b.queueLength - Count(b)

(* Filled(b, n, f): f[0..n-1] written through the enqueue pointer.         *)
Filled(b, n, f) ==
  LET i == Index(b, b.tail) IN
  [b EXCEPT !.base = [k \in DOMAIN @ |->
                        IF k \in i .. i + n - 1 THEN f[k - i] ELSE @[k]]]

(* Mutant of CountUp: one element short of the edge.                       *)
CountUpShort(b, idx, n) ==
  LET edge == b.maxThreshold - 2
  IN  IF idx + n < edge THEN n ELSE IF idx < edge THEN edge - idx ELSE 0

(* Elements to copy up from the queue to the mirror, and down from it.     *)
CountUp(b, idx, n) ==
  LET edge == b.maxThreshold - 1
  IN  IF idx + n < edge THEN n ELSE IF idx < edge THEN edge - idx ELSE 0

(* Mutant of CountDn: nothing comes down from the mirror.                  *)
CountDnNone(b, idx, n) == 0

CountDn(b, idx, n) == Larger(idx + n - b.queueLength, 0)

EnqueueIn(b, n) ==
  LET idx  == Index(b, b.tail)
      len  == b.queueLength
      up   == CountUp(b, idx, n)
      dn   == CountDn(b, idx, n)
      rise == [k \in DOMAIN b.base |->
                 IF k \in idx + len .. idx + len + up - 1 THEN b.base[k - len] ELSE b.base[k]]
      fall == [k \in DOMAIN b.base |-> IF k < dn THEN rise[k + len] ELSE rise[k]]
  IN  [b EXCEPT !.base = fall, !.tail = (b.tail + n) % (2 * len)]

DequeueIn(b, n) == [b EXCEPT !.head = (b.head + n) % (2 * b.queueLength)]

---------------------------------------------------------------------------
Init ==
  /\ q = AllocateBuf(QueueLen, MaxThresh)
  /\ old = q /\ growing = FALSE /\ room = 0
  /\ elementsEnqueued = 0 /\ elementsDequeued = 0

(* GetRawEnqueuePtr(thresh), and the caller fills all it has been given.   *)
GetRawEnqueuePtr(thresh) ==
  /\ ~growing /\ room = 0
  /\ thresh <= Freespace(q) /\ thresh <= q.maxThreshold
  /\ elementsEnqueued + thresh <= MaxItems
  /\ room' = thresh
  /\ q' = Filled(q, thresh, [j \in 0 .. thresh - 1 |-> elementsEnqueued + 1 + j])
  /\ UNCHANGED <<old, growing, elementsEnqueued, elementsDequeued>>

Enqueue(n) ==
  /\ ~growing /\ 0 < room /\ n <= room
  /\ room' = 0
  /\ q' = EnqueueIn(q, n)
  /\ elementsEnqueued' = elementsEnqueued + n
  /\ UNCHANGED <<old, growing, elementsDequeued>>

(* Dequeue(n) of elements a dequeue pointer has been given out for.        *)
Dequeue(n) ==
  /\ ~growing
  /\ n <= Count(q) /\ n <= q.maxThreshold
  /\ q' = DequeueIn(q, n)
  /\ elementsDequeued' = elementsDequeued + n
  /\ UNCHANGED <<old, growing, room, elementsEnqueued>>

(* Grow: a new buffer that is smaller in nothing,                          *)
Grow(len, max) ==
  /\ ~growing /\ room = 0
  /\ len > q.queueLength \/ max > q.maxThreshold
  /\ growing' = TRUE /\ old' = q
  /\ q' = AllocateBuf(Larger(len, q.queueLength), Larger(max, q.maxThreshold))
  /\ UNCHANGED <<room, elementsEnqueued, elementsDequeued>>

(* filled from the old one with the existing mechanisms, up to the old     *)
(* maximum threshold at a time.                                            *)
GrowCopy ==
  /\ growing
  /\ LET n == Smaller(Count(old), old.maxThreshold)
         src == [j \in 0 .. n - 1 |-> old.base[Index(old, old.head) + j]]
     IN  IF n = 0 THEN growing' = FALSE /\ UNCHANGED <<q, old>>
         ELSE /\ q' = EnqueueIn(Filled(q, n, src), n)
              /\ old' = DequeueIn(old, n)
              /\ UNCHANGED growing
  /\ UNCHANGED <<room, elementsEnqueued, elementsDequeued>>

Next ==
  \/ \E n \in 0 .. MaxItems : Enqueue(n) \/ Dequeue(n)
  \/ \E n \in 1 .. MaxItems : GetRawEnqueuePtr(n)
  \/ \E a \in GrowArgs : Grow(a[1], a[2])
  \/ GrowCopy

Spec == Init /\ [][Next]_vars

---------------------------------------------------------------------------
(* The indices, which wrap at twice the length, keep the number of         *)
(* elements exactly: a full queue is never taken for an empty one.  And a  *)
(* dequeue pointer for any permitted threshold shows the next elements in  *)
(* order, also while the writer is filling the space it was given.         *)
CountIsDifference == Count(q) = elementsEnqueued - elementsDequeued
ReaderSees ==
  ~growing => CountIsDifference /\ \A j \in 0 .. Smaller(Count(q), q.maxThreshold) - 1 :
    q.base[Index(q, q.head) + j] = elementsDequeued + 1 + j

(* The contents, element by element from the queue area of the array.      *)
ItemsOf(b) == [j \in 1 .. Count(b) |-> b.base[Index(b, b.head + j - 1)]]

(* The buffer is a bounded FIFO; inside Grow, the elements still to be     *)
(* copied follow the copied ones.                                          *)
Items ==
  IF growing
    THEN [j \in 1 .. Count(q) + Count(old) |->
            IF j <= Count(q) THEN ItemsOf(q)[j] ELSE ItemsOf(old)[j - Count(q)]]
    ELSE ItemsOf(q)

Fifo == INSTANCE BoundedFifo WITH items <- Items, length <- q.queueLength
ImplementsFifo == Fifo!Spec
====
