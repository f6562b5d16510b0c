--------------------- MODULE ThresholdQueueBase_proofs ---------------------
(***************************************************************************)
(* Proofs about module ThresholdQueueBase, for every length, threshold and *)
(* sequence of growths: a block of up to maxThreshold elements read or     *)
(* written through one pointer is the right one wherever it wraps around,  *)
(* and the array with its mirror implements BoundedFifo.                   *)
(***************************************************************************)
EXTENDS ThresholdQueueBase, SequenceTheorems, TLAPS

(* head and tail are less than twice the length, so every index the code   *)
(* reduces is less than four times the length.                             *)
Wrap(n, x) ==
  IF x < n THEN x ELSE IF x < 2 * n THEN x - n ELSE IF x < 3 * n THEN x - 2 * n ELSE x - 3 * n

LEMMA ModIsWrap ==
  ASSUME NEW n \in Nat \ {0}, NEW x \in 0 .. 4 * n - 1
  PROVE  x % n = Wrap(n, x) /\ Wrap(n, x) \in 0 .. n - 1
<1>1. CASE x < n
  BY <1>1, SMT DEF Wrap
<1>2. CASE n <= x /\ x < 2 * n
  BY <1>2, SMT DEF Wrap
<1>3. CASE 2 * n <= x /\ x < 3 * n
  BY <1>3, SMT DEF Wrap
<1>4. CASE 3 * n <= x
  BY <1>4, SMT DEF Wrap
<1> QED
  BY <1>1, <1>2, <1>3, <1>4

---------------------------------------------------------------------------
(* A buffer that AllocateBuf may have made, with indices in range.         *)
Last(b) == b.queueLength + b.maxThreshold - 2
Shaped(b) ==
  /\ b \in [queueLength : Nat, maxThreshold : Nat, head : Nat, tail : Nat,
            base : [0 .. Last(b) -> Nat]]
  /\ 1 <= b.maxThreshold /\ b.maxThreshold <= b.queueLength
  /\ b.head < 2 * b.queueLength /\ b.tail < 2 * b.queueLength

(* tail is c elements behind head, modulo twice the length.                *)
Apart(b, c) ==
  /\ c \in 0 .. b.queueLength
  /\ b.tail = b.head + c \/ b.tail = b.head + c - 2 * b.queueLength

(* Place p of the queue area shows v, and so does its mirror, if it has    *)
(* one.                                                                    *)
Shows(b, p, v) ==
  b.base[p] = v /\ (p < b.maxThreshold - 1 => b.base[p + b.queueLength] = v)

(* The buffer holds the c elements that follow the d-th.                   *)
Holds(b, d, c) ==
  /\ Shaped(b) /\ Apart(b, c)
  /\ \A j \in 0 .. c - 1 : Shows(b, Wrap(b.queueLength, b.head + j), d + 1 + j)

(* There is room for n elements behind the c that the buffer holds.        *)
Fits(b, c, n) == n <= b.maxThreshold /\ n <= b.queueLength - c

(* The n elements after the e-th.                                          *)
Numbers(f, e, n) == f \in [0 .. n - 1 -> Nat] /\ \A k \in 0 .. n - 1 : f[k] = e + 1 + k

(* The caller has written the n elements after the e-th through the        *)
(* enqueue pointer.                                                        *)
Written(b, e, n) ==
  \A k \in 0 .. n - 1 : b.base[Wrap(b.queueLength, b.tail) + k] = e + 1 + k

(* Outside of Grow the queue holds everything, with the elements being     *)
(* written behind it; inside, the copied elements are in the new buffer,   *)
(* which is smaller in nothing, and the others still in the old one.       *)
Steady ==
  /\ Holds(q, elementsDequeued, elementsEnqueued - elementsDequeued)
  /\ Fits(q, elementsEnqueued - elementsDequeued, room)
  /\ Written(q, elementsEnqueued, room)
Copying ==
  \E c \in 0 .. elementsEnqueued - elementsDequeued :
    /\ Holds(q, elementsDequeued, c)
    /\ Holds(old, elementsDequeued + c, elementsEnqueued - elementsDequeued - c)
    /\ old.queueLength <= q.queueLength /\ old.maxThreshold <= q.maxThreshold
    /\ elementsEnqueued - elementsDequeued <= old.queueLength
IInv ==
  /\ elementsEnqueued \in Nat /\ elementsDequeued \in Nat /\ room \in Nat /\ growing \in BOOLEAN
  /\ ~growing => Steady
  /\ growing => room = 0 /\ Copying

---------------------------------------------------------------------------
(* Count finds the distance of the indices, and tells full from empty.     *)
LEMMA CountIs ==
  ASSUME NEW b, Shaped(b), NEW c \in Nat, Apart(b, c)
  PROVE  /\ Count(b) = c /\ Freespace(b) = b.queueLength - c
         /\ Index(b, b.head) = Wrap(b.queueLength, b.head)
         /\ Index(b, b.tail) = Wrap(b.queueLength, b.tail)
         /\ \A j \in 0 .. b.queueLength - 1 :
              Index(b, b.head + j) = Wrap(b.queueLength, b.head + j)
<1>1. PICK n \in Nat \ {0}, h \in Nat, t \in Nat :
        n = b.queueLength /\ h = b.head /\ t = b.tail /\ h < 2 * n /\ t < 2 * n
  BY DEF Shaped
<1>2. c \in 0 .. n /\ (t = h + c \/ t = h + c - 2 * n)
  BY <1>1 DEF Apart
<1>3. 2 * n - h + t \in 0 .. 4 * n - 1
  BY <1>1
<1>4. (2 * n - h + t) % n = Wrap(n, 2 * n - h + t)
  BY <1>3, ModIsWrap
<1>5. Wrap(n, 2 * n - h + t) = IF c = n THEN 0 ELSE c
  <2>1. PICK x \in Int : x = 2 * n - h + t /\ (x = 2 * n + c \/ x = c)
    BY <1>1, <1>2
  <2>2. Wrap(n, x) = IF c = n THEN 0 ELSE c
    BY <1>2, <2>1 DEF Wrap
  <2> QED
    BY <2>1, <2>2
<1>6. Count(b) = c
  BY <1>1, <1>2, <1>4, <1>5 DEF Count
<1>7. /\ h \in 0 .. 4 * n - 1 /\ t \in 0 .. 4 * n - 1
      /\ \A j \in 0 .. n - 1 : h + j \in 0 .. 4 * n - 1
  BY <1>1
<1>8. /\ h % n = Wrap(n, h) /\ t % n = Wrap(n, t)
      /\ \A j \in 0 .. n - 1 : (h + j) % n = Wrap(n, h + j)
  BY <1>1, <1>7, ModIsWrap
<1> QED
  BY <1>1, <1>2, <1>6, <1>8 DEF Index, Freespace

(* AllocateBuf makes an empty buffer.                                      *)
LEMMA AllocateHolds ==
  ASSUME NEW len \in Nat, NEW max \in Nat, NEW d \in Nat
  PROVE  LET b == AllocateBuf(len, max) IN
         /\ Holds(b, d, 0) /\ b.queueLength >= len /\ b.maxThreshold >= max
<1>1. PICK m \in Nat, n \in Nat : m = Larger(max, 1) /\ n = Larger(len, m)
  BY DEF Larger
<1>2. 1 <= m /\ m <= n /\ n >= len /\ m >= max
  BY <1>1 DEF Larger
<1>3. PICK f : f = [i \in 0 .. n + m - 2 |-> 0]
  OBVIOUS
<1>4. PICK b : b = [queueLength |-> n, maxThreshold |-> m, head |-> 0, tail |-> 0, base |-> f]
  OBVIOUS
<1>5. AllocateBuf(len, max) = b
  BY <1>1, <1>3, <1>4 DEF AllocateBuf
<1>6. Shaped(b) /\ Apart(b, 0)
  BY <1>2, <1>3, <1>4 DEF Shaped, Apart, Last
<1> QED
  BY <1>2, <1>4, <1>5, <1>6 DEF Holds

(* A block of up to maxThreshold elements is contiguous from the head.     *)
LEMMA BlockAtHead ==
  ASSUME NEW b, NEW d \in Nat, NEW c \in Nat, Holds(b, d, c),
         NEW j \in Nat, j < c, j < b.maxThreshold
  PROVE  b.base[Wrap(b.queueLength, b.head) + j] = d + 1 + j
<1>1. PICK n \in Nat, m \in Nat, h \in Nat :
        n = b.queueLength /\ m = b.maxThreshold /\ h = b.head /\ m <= n /\ h < 2 * n
  BY DEF Holds, Shaped
<1>2. c \in Nat /\ j \in 0 .. c - 1 /\ j < n
  BY <1>1 DEF Holds, Apart
<1>3. PICK p \in Int : p = Wrap(n, h + j)
  BY <1>1, <1>2 DEF Wrap
<1>4. b.base[p] = d + 1 + j /\ (p < m - 1 => b.base[p + n] = d + 1 + j)
  BY <1>1, <1>2, <1>3 DEF Holds, Shows
<1>5. Wrap(n, h) + j = p \/ (Wrap(n, h) + j = p + n /\ p < m - 1)
  BY <1>1, <1>2, <1>3 DEF Wrap
<1> QED
  BY <1>1, <1>4, <1>5

(* Dequeue moves the head only.                                            *)
LEMMA DequeueHolds ==
  ASSUME NEW b, NEW d \in Nat, NEW c \in Nat, Holds(b, d, c), NEW n \in 0 .. c
  PROVE  LET e == DequeueIn(b, n) IN
         /\ Holds(e, d + n, c - n) /\ e.tail = b.tail /\ e.base = b.base
         /\ e.queueLength = b.queueLength /\ e.maxThreshold = b.maxThreshold
<1>1. PICK len \in Nat, m \in Nat, h \in Nat :
        len = b.queueLength /\ m = b.maxThreshold /\ h = b.head /\ m <= len /\ h < 2 * len /\ 1 <= m
  BY DEF Holds, Shaped
<1>2. c \in 0 .. len /\ (b.tail = h + c \/ b.tail = h + c - 2 * len)
  BY <1>1 DEF Holds, Apart
<1>3. PICK h2 \in Nat : h2 = (h + n) % (2 * len)
  BY <1>1, <1>2
<1>4. h2 = (IF h + n < 2 * len THEN h + n ELSE h + n - 2 * len) /\ h2 < 2 * len
  <2>1. 2 * len \in Nat \ {0} /\ h + n \in 0 .. 4 * (2 * len) - 1 /\ h + n < 2 * (2 * len)
    BY <1>1, <1>2
  <2>2. PICK l2 \in Nat \ {0}, y \in Nat : l2 = 2 * len /\ y = h + n /\ y < 2 * l2
    BY <2>1
  <2>3. y % l2 = Wrap(l2, y)
    BY <2>2, ModIsWrap
  <2> QED
    BY <1>3, <2>2, <2>3 DEF Wrap
<1>5. PICK e : e = [b EXCEPT !.head = h2]
  OBVIOUS
<1>6. /\ e.queueLength = len /\ e.maxThreshold = m /\ e.head = h2 /\ e.tail = b.tail
      /\ e.base = b.base /\ Shaped(e)
  BY <1>1, <1>4, <1>5 DEF Holds, Shaped, Last
<1>7. Apart(e, c - n)
  <2>1. c - n \in 0 .. len
    BY <1>2
  <2>2. b.tail = h2 + (c - n) \/ b.tail = h2 + (c - n) - 2 * len
    <3>1. b.tail < 2 * len /\ b.tail \in Nat
      BY <1>1 DEF Holds, Shaped
    <3> QED
      BY <1>1, <1>2, <1>4, <3>1
  <2> QED
    BY <1>6, <2>1, <2>2 DEF Apart
<1>8. ASSUME NEW j \in 0 .. (c - n) - 1
      PROVE  Shows(e, Wrap(e.queueLength, e.head + j), d + n + 1 + j)
  <2>1. n + j \in 0 .. c - 1
    BY <1>2, <1>8
  <2>2. Shows(b, Wrap(len, h + (n + j)), d + 1 + (n + j))
    BY <1>1, <2>1 DEF Holds
  <2>3. Wrap(len, h + (n + j)) = Wrap(len, h2 + j)
    BY <1>1, <1>2, <1>4, <1>8 DEF Wrap
  <2>4. d + 1 + (n + j) = d + n + 1 + j
    BY <1>2, <1>8
  <2> QED
    BY <1>1, <1>6, <2>2, <2>3, <2>4 DEF Shows
<1>9. DequeueIn(b, n) = e
  BY <1>1, <1>3, <1>5 DEF DequeueIn
<1> QED
  BY <1>1, <1>6, <1>7, <1>8, <1>9 DEF Holds

(* Writing through the enqueue pointer leaves the elements held alone.     *)
LEMMA FilledHolds ==
  ASSUME NEW b, NEW d \in Nat, NEW c \in Nat, Holds(b, d, c),
         NEW n \in Nat, Fits(b, c, n),
         NEW f, Numbers(f, d + c, n)
  PROVE  LET e == Filled(b, n, f) IN
         /\ Holds(e, d, c) /\ Written(e, d + c, n)
         /\ e.queueLength = b.queueLength /\ e.maxThreshold = b.maxThreshold
<1>1. PICK len \in Nat, m \in Nat, h \in Nat, t \in Nat :
        /\ len = b.queueLength /\ m = b.maxThreshold /\ h = b.head /\ t = b.tail
        /\ 1 <= m /\ m <= len /\ h < 2 * len /\ t < 2 * len
  BY DEF Holds, Shaped
<1>2. c <= len /\ (t = h + c \/ t = h + c - 2 * len) /\ n <= m /\ n <= len - c
  BY <1>1 DEF Holds, Apart, Fits
<1>3. PICK i \in 0 .. len - 1 : i = Wrap(len, t) /\ i = Index(b, b.tail)
  <2>1. Index(b, b.tail) = Wrap(b.queueLength, b.tail)
    BY CountIs DEF Holds
  <2>2. Wrap(len, t) \in 0 .. len - 1
    BY <1>1 DEF Wrap
  <2> QED
    BY <1>1, <2>1, <2>2
<1>4. PICK g : g = [k \in 0 .. len + m - 2 |-> IF k \in i .. i + n - 1 THEN f[k - i] ELSE b.base[k]]
  OBVIOUS
<1>5. PICK e : e = [b EXCEPT !.base = g]
  OBVIOUS
<1>6. b.base \in [0 .. len + m - 2 -> Nat]
  BY <1>1 DEF Holds, Shaped, Last
<1>7. Filled(b, n, f) = e
  <2>1. Filled(b, n, f) = [b EXCEPT !.base = [k \in DOMAIN b.base |->
                             IF k \in i .. i + n - 1 THEN f[k - i] ELSE b.base[k]]]
    BY <1>3 DEF Filled, Holds, Shaped
  <2> QED
    BY <1>4, <1>5, <1>6, <2>1
<1>8. g \in [0 .. len + m - 2 -> Nat]
  <2>1. ASSUME NEW k \in 0 .. len + m - 2, k \in i .. i + n - 1 PROVE f[k - i] \in Nat
    <3>1. k - i \in 0 .. n - 1
      BY <1>3, <2>1
    <3> QED
      BY <3>1 DEF Numbers
  <2>2. ASSUME NEW k \in 0 .. len + m - 2 PROVE b.base[k] \in Nat
    BY <1>6
  <2> QED
    BY <1>4, <2>1, <2>2
<1>9. /\ e.queueLength = len /\ e.maxThreshold = m /\ e.head = h /\ e.tail = t /\ e.base = g
      /\ Shaped(e) /\ Apart(e, c)
  BY <1>1, <1>2, <1>5, <1>8 DEF Holds, Shaped, Last, Apart
<1>10. ASSUME NEW j \in 0 .. c - 1
       PROVE  Shows(e, Wrap(len, h + j), d + 1 + j)
  <2>1. Shows(b, Wrap(len, h + j), d + 1 + j)
    BY <1>1 DEF Holds
  <2>2. PICK p \in 0 .. len - 1 : p = Wrap(len, h + j)
    BY <1>1, <1>2, <1>10 DEF Wrap
  <2>3. ASSUME p \in i .. i + n - 1 \/ p + len \in i .. i + n - 1 PROVE FALSE
    <3>1. PICK k \in 0 .. n - 1 : i + k = p \/ i + k = p + len
      <4>1. CASE p \in i .. i + n - 1
        <5>1. p - i \in 0 .. n - 1 /\ i + (p - i) = p
          BY <1>3, <2>2, <4>1
        <5> QED
          BY <5>1
      <4>2. CASE p + len \in i .. i + n - 1
        <5>1. p + len - i \in 0 .. n - 1 /\ i + (p + len - i) = p + len
          BY <1>1, <1>3, <2>2, <4>2
        <5> QED
          BY <5>1
      <4> QED
        BY <2>3, <4>1, <4>2
    <3>2. k \in 0 .. len - c - 1 /\ c \in 0 .. len
      BY <1>1, <1>2
    <3>3. Wrap(len, t) + k # Wrap(len, h + j) /\ Wrap(len, t) + k # Wrap(len, h + j) + len
      <4>1. CASE t = h + c
        BY <1>1, <1>10, <3>2, <4>1 DEF Wrap
      <4>2. CASE t = h + c - 2 * len
        BY <1>1, <1>10, <3>2, <4>2 DEF Wrap
      <4> QED
        BY <1>2, <4>1, <4>2
    <3> QED
      BY <1>3, <2>2, <3>1, <3>3
  <2>4. g[p] = b.base[p] /\ (p < m - 1 => g[p + len] = b.base[p + len])
    <3>1. p \in 0 .. len + m - 2 /\ (p < m - 1 => p + len \in 0 .. len + m - 2)
      BY <1>1, <2>2
    <3> QED
      BY <1>4, <2>3, <3>1
  <2> QED
    BY <1>1, <1>9, <2>1, <2>2, <2>4 DEF Shows
<1>11. ASSUME NEW k \in 0 .. n - 1 PROVE e.base[Wrap(e.queueLength, e.tail) + k] = d + c + 1 + k
  <2>1. i + k \in 0 .. len + m - 2 /\ i + k \in i .. i + n - 1 /\ (i + k) - i = k
    BY <1>1, <1>2, <1>3, <1>11
  <2>2. g[i + k] = f[k]
    BY <1>4, <2>1
  <2> QED
    BY <1>3, <1>9, <2>2 DEF Numbers
<1> QED
  BY <1>1, <1>7, <1>9, <1>10, <1>11 DEF Holds, Written

(* Enqueue shows the new elements at both their places and keeps the       *)
(* others.                                                                 *)
LEMMA EnqueueHolds ==
  ASSUME NEW b, NEW d \in Nat, NEW c \in Nat, Holds(b, d, c),
         NEW n \in Nat, Fits(b, c, n), Written(b, d + c, n)
  PROVE  LET e == EnqueueIn(b, n) IN
         /\ Holds(e, d, c + n)
         /\ e.queueLength = b.queueLength /\ e.maxThreshold = b.maxThreshold
<1>1. PICK len \in Nat, m \in Nat, h \in Nat, t \in Nat :
        /\ len = b.queueLength /\ m = b.maxThreshold /\ h = b.head /\ t = b.tail
        /\ 1 <= m /\ m <= len /\ h < 2 * len /\ t < 2 * len
  BY DEF Holds, Shaped
<1>2. c <= len /\ (t = h + c \/ t = h + c - 2 * len) /\ n <= m /\ n <= len - c
  BY <1>1 DEF Holds, Apart, Fits
<1>3. PICK i \in 0 .. len - 1 : i = Wrap(len, t) /\ i = Index(b, b.tail)
  <2>1. Index(b, b.tail) = Wrap(b.queueLength, b.tail)
    BY CountIs DEF Holds
  <2>2. Wrap(len, t) \in 0 .. len - 1
    BY <1>1 DEF Wrap
  <2> QED
    BY <1>1, <2>1, <2>2
<1>4. PICK base : base = b.base /\ base \in [0 .. len + m - 2 -> Nat]
  BY <1>1 DEF Holds, Shaped, Last
<1>5. PICK up \in Nat :
        /\ up = CountUp(b, i, n) /\ up <= n /\ (up > 0 => i + up <= m - 1)
        /\ \A k \in 0 .. n - 1 : i + k < m - 1 => k < up
  BY <1>1, <1>3 DEF CountUp
<1>6. PICK dn \in Nat : dn = CountDn(b, i, n) /\ (dn = i + n - len \/ (dn = 0 /\ i + n <= len))
  BY <1>1, <1>3 DEF CountDn, Larger
<1>7. PICK rise : rise = [k \in 0 .. len + m - 2 |->
                            IF k \in i + len .. i + len + up - 1 THEN base[k - len] ELSE base[k]]
  OBVIOUS
<1>8. PICK fall : fall = [k \in 0 .. len + m - 2 |-> IF k < dn THEN rise[k + len] ELSE rise[k]]
  OBVIOUS
<1>9. PICK t2 \in Nat : t2 = (t + n) % (2 * len)
  BY <1>1, <1>2
<1>10. PICK e : e = [b EXCEPT !.base = fall, !.tail = t2]
  OBVIOUS
<1>11. EnqueueIn(b, n) = e
  <2>1. DOMAIN b.base = 0 .. len + m - 2
    BY <1>4
  <2>2. rise = [k \in DOMAIN b.base |-> IF k \in i + len .. i + len + up - 1
                                          THEN b.base[k - len] ELSE b.base[k]]
    BY <1>4, <1>7, <2>1
  <2>3. fall = [k \in DOMAIN b.base |-> IF k < dn THEN rise[k + len] ELSE rise[k]]
    BY <1>8, <2>1
  <2> QED
    BY <1>1, <1>3, <1>5, <1>6, <1>9, <1>10, <2>2, <2>3 DEF EnqueueIn
<1>12. t2 = (IF t + n < 2 * len THEN t + n ELSE t + n - 2 * len) /\ t2 < 2 * len
  <2>1. PICK l2 \in Nat \ {0}, y \in Nat : l2 = 2 * len /\ y = t + n /\ y < 2 * l2
    BY <1>1, <1>2
  <2>2. y % l2 = Wrap(l2, y)
    BY <2>1, ModIsWrap
  <2> QED
    BY <1>9, <2>1, <2>2 DEF Wrap
<1>13. fall \in [0 .. len + m - 2 -> Nat]
  <2>1. \A k \in 0 .. len + m - 2 : rise[k] \in Nat
    <3>1. ASSUME NEW k \in 0 .. len + m - 2, k \in i + len .. i + len + up - 1
          PROVE  base[k - len] \in Nat
      <4>1. k - len \in 0 .. len + m - 2
        BY <1>1, <1>3, <3>1
      <4> QED
        BY <1>4, <4>1
    <3>2. ASSUME NEW k \in 0 .. len + m - 2 PROVE base[k] \in Nat
      BY <1>4
    <3> QED
      BY <1>7, <3>1, <3>2
  <2>2. \A k \in 0 .. len + m - 2 : k < dn => k + len \in 0 .. len + m - 2
    BY <1>1, <1>2, <1>3, <1>6
  <2> QED
    BY <1>8, <2>1, <2>2
<1>14. /\ e.queueLength = len /\ e.maxThreshold = m /\ e.head = h /\ e.tail = t2 /\ e.base = fall
       /\ Shaped(e)
  BY <1>1, <1>10, <1>12, <1>13 DEF Holds, Shaped, Last
<1>15. Apart(e, c + n)
  <2>1. c + n \in 0 .. len
    BY <1>1, <1>2
  <2>2. t2 = h + (c + n) \/ t2 = h + (c + n) - 2 * len
    BY <1>1, <1>2, <1>12
  <2> QED
    BY <1>14, <2>1, <2>2 DEF Apart
<1>16. ASSUME NEW j \in 0 .. c - 1 PROVE Shows(e, Wrap(len, h + j), d + 1 + j)
  <2>1. Shows(b, Wrap(len, h + j), d + 1 + j)
    BY <1>1 DEF Holds
  <2>2. PICK p \in 0 .. len - 1 : p = Wrap(len, h + j)
    BY <1>1, <1>2, <1>16 DEF Wrap
  <2>3. \A k \in 0 .. n - 1 : i + k # p /\ i + k # p + len
    <3>1. SUFFICES ASSUME NEW k \in 0 .. n - 1 PROVE i + k # p /\ i + k # p + len
      OBVIOUS
    <3>2. k \in 0 .. len - c - 1 /\ c \in 0 .. len
      BY <1>1, <1>2
    <3>3. Wrap(len, t) + k # Wrap(len, h + j) /\ Wrap(len, t) + k # Wrap(len, h + j) + len
      <4>1. CASE t = h + c
        BY <1>1, <1>16, <3>2, <4>1 DEF Wrap
      <4>2. CASE t = h + c - 2 * len
        BY <1>1, <1>16, <3>2, <4>2 DEF Wrap
      <4> QED
        BY <1>2, <4>1, <4>2
    <3> QED
      BY <1>3, <2>2, <3>3
  <2>4. ~(p < dn)
    <3>1. SUFFICES ASSUME p < dn PROVE FALSE
      OBVIOUS
    <3>2. dn = i + n - len
      BY <1>6, <2>2, <3>1
    <3>3. p + len - i \in 0 .. n - 1 /\ i + (p + len - i) = p + len
      BY <1>1, <1>3, <2>2, <3>1, <3>2
    <3> QED
      BY <2>3, <3>3
  <2>5. p + len \notin i + len .. i + len + up - 1
    <3>1. SUFFICES ASSUME p + len \in i + len .. i + len + up - 1 PROVE FALSE
      OBVIOUS
    <3>2. p - i \in 0 .. n - 1 /\ i + (p - i) = p
      BY <1>1, <1>3, <1>5, <2>2, <3>1
    <3> QED
      BY <2>3, <3>2
  <2>6. fall[p] = base[p]
    <3>1. p \in 0 .. len + m - 2 /\ p \notin i + len .. i + len + up - 1
      BY <1>1, <1>3, <2>2
    <3> QED
      BY <1>7, <1>8, <2>4, <3>1
  <2>7. p < m - 1 => fall[p + len] = base[p + len]
    <3>1. SUFFICES ASSUME p < m - 1 PROVE fall[p + len] = base[p + len]
      OBVIOUS
    <3>2. p + len \in 0 .. len + m - 2 /\ ~(p + len < dn)
      BY <1>1, <2>2, <2>4, <3>1
    <3> QED
      BY <1>7, <1>8, <2>5, <3>2
  <2> QED
    BY <1>1, <1>4, <1>14, <2>1, <2>2, <2>6, <2>7 DEF Shows
<1>17. ASSUME NEW k \in 0 .. n - 1 PROVE Shows(e, Wrap(len, h + (c + k)), d + 1 + (c + k))
  <2>1. base[i + k] = d + 1 + (c + k)
    <3>1. base[i + k] = d + c + 1 + k
      BY <1>1, <1>3, <1>4, <1>17 DEF Written
    <3> QED
      BY <1>2, <1>17, <3>1
  <2>2. PICK p \in 0 .. len - 1 : p = Wrap(len, h + (c + k)) /\ (i + k = p \/ i + k = p + len)
    <3>1. c + k \in 0 .. len - 1 /\ k < len
      BY <1>1, <1>2, <1>17
    <3>2. Wrap(len, h + (c + k)) = IF i + k < len THEN i + k ELSE i + k - len
      BY <1>1, <1>2, <1>3, <1>17, <3>1 DEF Wrap
    <3> QED
      BY <1>1, <1>3, <1>17, <3>1, <3>2
  <2>3. CASE i + k = p
    <3>1. ~(p < dn) /\ p \in 0 .. len + m - 2 /\ p \notin i + len .. i + len + up - 1
      BY <1>1, <1>2, <1>3, <1>6, <1>17, <2>2, <2>3
    <3>2. fall[p] = base[p]
      BY <1>7, <1>8, <3>1
    <3>3. ASSUME p < m - 1 PROVE fall[p + len] = base[p]
      <4>1. /\ p + len \in 0 .. len + m - 2 /\ ~(p + len < dn) /\ (p + len) - len = p
            /\ p + len \in i + len .. i + len + up - 1
        BY <1>1, <1>3, <1>5, <1>17, <2>2, <2>3, <3>1, <3>3
      <4> QED
        BY <1>7, <1>8, <4>1
    <3> QED
      BY <1>14, <2>1, <2>2, <2>3, <3>2, <3>3 DEF Shows
  <2>4. CASE i + k = p + len
    <3>1. /\ p < dn /\ p \in 0 .. len + m - 2 /\ p + len \in 0 .. len + m - 2 /\ ~(p + len < dn)
          /\ p + len \notin i + len .. i + len + up - 1
      BY <1>1, <1>2, <1>3, <1>6, <1>17, <2>2, <2>4
    <3>2. fall[p] = base[p + len] /\ fall[p + len] = base[p + len]
      BY <1>7, <1>8, <3>1
    <3> QED
      BY <1>14, <2>1, <2>2, <2>4, <3>2 DEF Shows
  <2> QED
    BY <2>2, <2>3, <2>4
<1>18. ASSUME NEW j \in 0 .. (c + n) - 1
       PROVE  Shows(e, Wrap(e.queueLength, e.head + j), d + 1 + j)
  <2>1. CASE j \in 0 .. c - 1
    BY <1>14, <1>16, <2>1
  <2>2. CASE ~(j \in 0 .. c - 1)
    <3>1. j - c \in 0 .. n - 1 /\ c + (j - c) = j
      BY <1>2, <1>18, <2>2
    <3> QED
      BY <1>14, <1>17, <3>1
  <2> QED
    BY <2>1, <2>2
<1> QED
  BY <1>1, <1>11, <1>14, <1>15, <1>18 DEF Holds

---------------------------------------------------------------------------
LEMMA InitHolds == Init => IInv
<1> SUFFICES ASSUME Init PROVE IInv
  OBVIOUS
<1>1. QueueLen \in Nat /\ MaxThresh \in Nat
  BY ArgumentAssumption
<1>2. Holds(q, 0, 0)
  BY <1>1, AllocateHolds DEF Init
<1>3. Fits(q, 0, 0) /\ Written(q, 0, 0)
  BY <1>2 DEF Holds, Shaped, Fits, Written
<1>4. elementsEnqueued = 0 /\ elementsDequeued = 0 /\ room = 0 /\ growing = FALSE
  BY DEF Init
<1>5. elementsEnqueued - elementsDequeued = 0
  BY <1>4
<1>6. Steady
  BY <1>2, <1>3, <1>4, <1>5 DEF Steady
<1> QED
  BY <1>4, <1>6 DEF IInv

(* What the invariant says outside of Grow, with the number of elements.   *)
LEMMA SteadyIs ==
  ASSUME IInv, ~growing
  PROVE  \E c \in Nat : /\ c = elementsEnqueued - elementsDequeued
                        /\ elementsEnqueued = elementsDequeued + c
                        /\ Holds(q, elementsDequeued, c) /\ Fits(q, c, room)
                        /\ Written(q, elementsDequeued + c, room)
<1>1. Steady
  BY DEF IInv
<1>2. PICK c \in Int : c = elementsEnqueued - elementsDequeued
  BY DEF IInv
<1>3. Holds(q, elementsDequeued, c) /\ Fits(q, c, room) /\ Written(q, elementsEnqueued, room)
  BY <1>1, <1>2 DEF Steady
<1>4. c \in Nat
  BY <1>2, <1>3 DEF Holds, Apart
<1>5. elementsEnqueued = elementsDequeued + c
  BY <1>2 DEF IInv
<1> QED
  BY <1>2, <1>3, <1>4, <1>5

LEMMA SteadyHolds ==
  ASSUME NEW d \in Nat, NEW c \in Nat, NEW r \in Nat,
         Holds(q', d, c), Fits(q', c, r), Written(q', d + c, r),
         growing' = FALSE, elementsDequeued' = d, elementsEnqueued' = d + c, room' = r
  PROVE  IInv'
<1>1. elementsEnqueued' - elementsDequeued' = c
  OBVIOUS
<1>2. Steady'
  <2>1. Written(q', elementsEnqueued', room') /\ Fits(q', c, room') /\ Holds(q', elementsDequeued', c)
    OBVIOUS
  <2> QED
    BY <1>1, <2>1 DEF Steady
<1>3. elementsEnqueued' \in Nat
  OBVIOUS
<1> QED
  BY <1>2, <1>3 DEF IInv

LEMMA EnqueueStep ==
  ASSUME IInv, NEW n \in 0 .. MaxItems, Enqueue(n)
  PROVE  IInv'
<1>1. PICK c \in Nat : /\ elementsEnqueued = elementsDequeued + c
                       /\ Holds(q, elementsDequeued, c) /\ Fits(q, c, room)
                       /\ Written(q, elementsDequeued + c, room)
  BY SteadyIs DEF Enqueue
<1>2. n \in Nat /\ elementsDequeued \in Nat /\ room \in Nat /\ n <= room
  BY ArgumentAssumption DEF Enqueue, IInv
<1>3. Fits(q, c, n) /\ Written(q, elementsDequeued + c, n)
  BY <1>1, <1>2 DEF Fits, Written, Holds, Shaped
<1>4. /\ Holds(q', elementsDequeued, c + n)
  BY <1>1, <1>2, <1>3, EnqueueHolds DEF Enqueue
<1>5. Fits(q', c + n, 0) /\ Written(q', elementsDequeued + (c + n), 0)
  BY <1>1, <1>2, <1>4 DEF Fits, Written, Holds, Shaped, Apart
<1>6. /\ growing' = FALSE /\ elementsDequeued' = elementsDequeued /\ room' = 0
      /\ elementsEnqueued' = elementsDequeued + (c + n)
  BY <1>1, <1>2 DEF Enqueue, IInv
<1> QED
  <2>1. c + n \in Nat
    BY <1>2
  <2> QED
    BY <1>2, <1>4, <1>5, <1>6, <2>1, SteadyHolds

LEMMA DequeueStep ==
  ASSUME IInv, NEW n \in 0 .. MaxItems, Dequeue(n)
  PROVE  IInv'
<1>1. PICK c \in Nat : /\ elementsEnqueued = elementsDequeued + c
                       /\ Holds(q, elementsDequeued, c) /\ Fits(q, c, room)
                       /\ Written(q, elementsDequeued + c, room)
  BY SteadyIs DEF Dequeue
<1>2. n \in Nat /\ elementsDequeued \in Nat /\ room \in Nat
  BY ArgumentAssumption DEF IInv
<1>3. Count(q) = c
  BY <1>1, CountIs DEF Holds
<1>4. n \in 0 .. c
  BY <1>2, <1>3 DEF Dequeue
<1>5. /\ Holds(q', elementsDequeued + n, c - n) /\ q'.tail = q.tail /\ q'.base = q.base
      /\ q'.queueLength = q.queueLength /\ q'.maxThreshold = q.maxThreshold
  BY <1>1, <1>2, <1>4, DequeueHolds DEF Dequeue
<1>6. PICK d \in Nat, k \in Nat : d = elementsDequeued + n /\ k = c - n /\ d + k = elementsDequeued + c
  BY <1>2, <1>4
<1>7. Fits(q', k, room)
  <2>1. PICK len \in Nat : len = q.queueLength
    BY <1>1 DEF Holds, Shaped
  <2>2. room <= len - c => room <= len - k
    BY <1>2, <1>4, <1>6, <2>1
  <2> QED
    BY <1>1, <1>5, <2>1, <2>2 DEF Fits
<1>8. Written(q', d + k, room)
  BY <1>1, <1>5, <1>6 DEF Written
<1>9. /\ growing' = FALSE /\ elementsDequeued' = d /\ room' = room
      /\ elementsEnqueued' = d + k
  BY <1>1, <1>2, <1>6 DEF Dequeue, IInv
<1>10. Holds(q', d, k)
  BY <1>5, <1>6
<1> QED
  BY <1>2, <1>7, <1>8, <1>9, <1>10, SteadyHolds

LEMMA GetStep ==
  ASSUME IInv, NEW n \in 1 .. MaxItems, GetRawEnqueuePtr(n)
  PROVE  IInv' /\ q'.queueLength = q.queueLength
<1>1. PICK c \in Nat : /\ elementsEnqueued = elementsDequeued + c
                       /\ Holds(q, elementsDequeued, c)
  BY SteadyIs DEF GetRawEnqueuePtr
<1>2. n \in Nat /\ elementsDequeued \in Nat
  BY ArgumentAssumption DEF IInv
<1>3. Freespace(q) = q.queueLength - c
  BY <1>1, CountIs DEF Holds
<1>4. Fits(q, c, n)
  BY <1>3 DEF Fits, GetRawEnqueuePtr
<1>5. PICK f : f = [j \in 0 .. n - 1 |-> elementsEnqueued + 1 + j]
  OBVIOUS
<1>6. Numbers(f, elementsDequeued + c, n)
  <2>1. f \in [0 .. n - 1 -> Nat]
    BY <1>1, <1>2, <1>5
  <2> QED
    BY <1>1, <1>5, <2>1 DEF Numbers
<1>7. /\ Holds(q', elementsDequeued, c) /\ Written(q', elementsDequeued + c, n)
      /\ q'.queueLength = q.queueLength /\ q'.maxThreshold = q.maxThreshold
  BY <1>1, <1>2, <1>4, <1>5, <1>6, FilledHolds DEF GetRawEnqueuePtr
<1>8. Fits(q', c, n)
  BY <1>4, <1>7 DEF Fits
<1>9. /\ growing' = FALSE /\ elementsDequeued' = elementsDequeued /\ room' = n
      /\ elementsEnqueued' = elementsDequeued + c
  BY <1>1 DEF GetRawEnqueuePtr, IInv
<1> QED
  BY <1>2, <1>7, <1>8, <1>9, SteadyHolds

LEMMA CopyingHolds ==
  ASSUME NEW d \in Nat, NEW c \in Nat, NEW k \in Nat, Holds(q', d, c), Holds(old', d + c, k),
         old'.queueLength <= q'.queueLength, old'.maxThreshold <= q'.maxThreshold,
         c + k <= old'.queueLength,
         growing' = TRUE, elementsDequeued' = d, elementsEnqueued' = d + (c + k), room' = 0
  PROVE  IInv'
<1>1. elementsEnqueued' - elementsDequeued' = c + k
  OBVIOUS
<1>2. c \in 0 .. c + k /\ c + k - c = k
  OBVIOUS
<1>3. Copying'
  BY <1>1, <1>2 DEF Copying
<1>4. elementsEnqueued' \in Nat
  OBVIOUS
<1> QED
  BY <1>3, <1>4 DEF IInv

LEMMA GrowStep ==
  ASSUME IInv, NEW a \in GrowArgs, Grow(a[1], a[2])
  PROVE  IInv' /\ q'.queueLength \in Nat /\ q'.queueLength >= q.queueLength
<1>1. PICK c \in Nat : elementsEnqueued = elementsDequeued + c /\ Holds(q, elementsDequeued, c)
  BY SteadyIs DEF Grow
<1>2. elementsDequeued \in Nat /\ a[1] \in Nat /\ a[2] \in Nat
  BY ArgumentAssumption DEF IInv
<1>3. PICK n \in Nat, m \in Nat : n = q.queueLength /\ m = q.maxThreshold
  BY <1>1 DEF Holds, Shaped
<1>4. PICK n2 \in Nat, m2 \in Nat :
        n2 = Larger(a[1], q.queueLength) /\ m2 = Larger(a[2], q.maxThreshold) /\ n2 >= n /\ m2 >= m
  BY <1>2, <1>3 DEF Larger
<1>5. PICK b : b = AllocateBuf(n2, m2)
  OBVIOUS
<1>6. Holds(b, elementsDequeued, 0) /\ b.queueLength >= n2 /\ b.maxThreshold >= m2
  BY <1>2, <1>5, AllocateHolds
<1>7. q' = b /\ old' = q
  BY <1>4, <1>5 DEF Grow
<1>8. PICK n3 \in Nat, m3 \in Nat : n3 = b.queueLength /\ m3 = b.maxThreshold
  BY <1>6 DEF Holds, Shaped
<1>9. n3 >= n2 /\ m3 >= m2
  BY <1>6, <1>8
<1>10. n3 >= n /\ m3 >= m
  BY <1>4, <1>9
<1>11. c <= n
  BY <1>1, <1>3 DEF Holds, Apart
<1>12. /\ growing' = TRUE /\ elementsDequeued' = elementsDequeued /\ room' = 0
       /\ elementsEnqueued' = elementsDequeued + (0 + c) /\ 0 + c = c
       /\ elementsDequeued + 0 = elementsDequeued
  BY <1>1, <1>2 DEF Grow, IInv
<1>13. old'.queueLength <= q'.queueLength /\ old'.maxThreshold <= q'.maxThreshold
  BY <1>3, <1>7, <1>8, <1>10
<1>14. 0 + c <= old'.queueLength
  BY <1>3, <1>7, <1>11
<1>15. Holds(q', elementsDequeued, 0) /\ Holds(old', elementsDequeued + 0, c)
  BY <1>1, <1>6, <1>7, <1>12
<1>16. IInv'
  BY <1>2, <1>12, <1>13, <1>14, <1>15, CopyingHolds
<1> QED
  BY <1>3, <1>7, <1>8, <1>10, <1>16

LEMMA CopyStep ==
  ASSUME IInv, GrowCopy
  PROVE  IInv' /\ q'.queueLength = q.queueLength
<1>1. PICK c \in Nat, k \in Nat :
        /\ elementsEnqueued = elementsDequeued + (c + k)
        /\ Holds(q, elementsDequeued, c) /\ Holds(old, elementsDequeued + c, k)
        /\ old.queueLength <= q.queueLength /\ old.maxThreshold <= q.maxThreshold
        /\ c + k <= old.queueLength
  <2>1. PICK c \in 0 .. elementsEnqueued - elementsDequeued :
          /\ Holds(q, elementsDequeued, c)
          /\ Holds(old, elementsDequeued + c, elementsEnqueued - elementsDequeued - c)
          /\ old.queueLength <= q.queueLength /\ old.maxThreshold <= q.maxThreshold
          /\ elementsEnqueued - elementsDequeued <= old.queueLength
    BY DEF IInv, Copying, GrowCopy
  <2>2. PICK k \in Nat : /\ k = elementsEnqueued - elementsDequeued - c
                         /\ elementsEnqueued - elementsDequeued = c + k
                         /\ elementsEnqueued = elementsDequeued + (c + k) /\ c \in Nat
    BY <2>1 DEF IInv
  <2> QED
    BY <2>1, <2>2
<1>2. elementsDequeued \in Nat /\ elementsDequeued + c \in Nat /\ room = 0 /\ growing
  BY DEF IInv, GrowCopy
<1>3. Count(old) = k /\ Index(old, old.head) = Wrap(old.queueLength, old.head)
  BY <1>1, CountIs DEF Holds
<1>4. PICK lq \in Nat, lo \in Nat, mq \in Nat, mo \in Nat :
        /\ lq = q.queueLength /\ lo = old.queueLength /\ mq = q.maxThreshold
        /\ mo = old.maxThreshold /\ 1 <= mo
  BY <1>1 DEF Holds, Shaped
<1>5. c + k <= lo /\ lo <= lq /\ mo <= mq
  BY <1>1, <1>4
<1>6. PICK n \in Nat : n = Smaller(Count(old), old.maxThreshold) /\ n <= k /\ n <= mo
                       /\ (n = 0 => k = 0)
  BY <1>3, <1>4 DEF Smaller
<1>7. CASE n = 0
  <2>1. k = 0 /\ c + 0 = c /\ elementsEnqueued = elementsDequeued + c
    BY <1>1, <1>2, <1>6, <1>7
  <2>2. q' = q /\ growing' = FALSE /\ UNCHANGED <<room, elementsEnqueued, elementsDequeued>>
    BY <1>6, <1>7 DEF GrowCopy
  <2>3. Fits(q, c, 0) /\ Written(q, elementsDequeued + c, 0)
    BY <1>4, <1>5, <2>1 DEF Fits, Written
  <2> QED
    BY <1>1, <1>2, <2>1, <2>2, <2>3, SteadyHolds
<1>8. CASE n # 0
  <2>1. PICK src : src = [j \in 0 .. n - 1 |-> old.base[Index(old, old.head) + j]]
    OBVIOUS
  <2>2. /\ q' = EnqueueIn(Filled(q, n, src), n) /\ old' = DequeueIn(old, n)
        /\ growing' = TRUE /\ UNCHANGED <<room, elementsEnqueued, elementsDequeued>>
    BY <1>2, <1>6, <1>8, <2>1 DEF GrowCopy
  <2>3. Numbers(src, elementsDequeued + c, n)
    <3>1. ASSUME NEW j \in 0 .. n - 1 PROVE src[j] = elementsDequeued + c + 1 + j
      <4>1. j \in Nat /\ j < k /\ j < old.maxThreshold
        BY <1>4, <1>6, <3>1
      <4>2. old.base[Wrap(old.queueLength, old.head) + j] = elementsDequeued + c + 1 + j
        <5>1. PICK d \in Nat, i \in Nat, m \in Nat : /\ d = elementsDequeued + c /\ i = j
                                                     /\ m = old.maxThreshold /\ i < k /\ i < m
          BY <1>2, <1>4, <4>1
        <5>2. Holds(old, d, k)
          BY <1>1, <5>1
        <5>3. old.base[Wrap(old.queueLength, old.head) + j] = d + 1 + j
          BY <5>1, <5>2, BlockAtHead
        <5> QED
          BY <5>1, <5>3
      <4> QED
        BY <1>3, <2>1, <4>2
    <3>2. ASSUME NEW j \in 0 .. n - 1 PROVE elementsDequeued + c + 1 + j \in Nat
      BY <1>2
    <3> QED
      BY <2>1, <3>1, <3>2 DEF Numbers
  <2>4. Fits(q, c, n)
    BY <1>4, <1>5, <1>6 DEF Fits
  <2>5. PICK b : b = Filled(q, n, src)
    OBVIOUS
  <2>6. /\ Holds(b, elementsDequeued, c) /\ Written(b, elementsDequeued + c, n)
        /\ b.queueLength = q.queueLength /\ b.maxThreshold = q.maxThreshold
    BY <1>1, <1>2, <2>3, <2>4, <2>5, FilledHolds
  <2>7. Fits(b, c, n)
    BY <2>4, <2>6 DEF Fits
  <2>8. /\ Holds(q', elementsDequeued, c + n) /\ q'.queueLength = lq /\ q'.maxThreshold = mq
    BY <1>2, <1>4, <2>2, <2>5, <2>6, <2>7, EnqueueHolds
  <2>9. /\ Holds(old', elementsDequeued + c + n, k - n)
        /\ old'.queueLength = lo /\ old'.maxThreshold = mo
    <3>1. n \in 0 .. k
      BY <1>6
    <3> QED
      BY <1>1, <1>2, <1>4, <2>2, <3>1, DequeueHolds
  <2>10. PICK c2 \in Nat, k2 \in Nat :
           /\ c2 = c + n /\ k2 = k - n /\ elementsDequeued + c + n = elementsDequeued + c2
           /\ elementsEnqueued = elementsDequeued + (c2 + k2) /\ c2 + k2 = c + k
    BY <1>1, <1>2, <1>6
  <2>11. /\ old'.queueLength <= q'.queueLength /\ old'.maxThreshold <= q'.maxThreshold
         /\ c2 + k2 <= old'.queueLength
    BY <1>5, <2>8, <2>9, <2>10
  <2>12. Holds(q', elementsDequeued, c2) /\ Holds(old', elementsDequeued + c2, k2)
    BY <2>8, <2>9, <2>10
  <2>13. IInv'
    BY <1>2, <2>2, <2>10, <2>11, <2>12, CopyingHolds
  <2> QED
    BY <1>4, <2>8, <2>13
<1> QED
  BY <1>7, <1>8

LEMMA StepHolds == IInv /\ [Next]_vars => IInv'
<1> SUFFICES ASSUME IInv, [Next]_vars PROVE IInv'
  OBVIOUS
<1>1. CASE UNCHANGED vars
  BY <1>1 DEF vars, IInv, Steady, Copying, Holds, Shaped, Last, Apart, Shows, Fits, Written
<1> QED
  BY <1>1, EnqueueStep, DequeueStep, GetStep, GrowStep, CopyStep DEF Next

(* Every state is one of a buffer that holds what has been enqueued and    *)
(* not dequeued, at both places of each element that has two.              *)
THEOREM Invariance == Spec => []IInv
BY InitHolds, StepHolds, PTL DEF Spec

(* ThresholdQueueBase::Count is exact, and the pointer that                *)
(* GetRawDequeuePtr returns shows the next elements in order, for every    *)
(* length, threshold and history of growths.                               *)
THEOREM ReaderSeesInOrder == Spec => []ReaderSees
<1>1. IInv => ReaderSees
  <2> SUFFICES ASSUME IInv, ~growing
               PROVE  /\ Count(q) = elementsEnqueued - elementsDequeued
                      /\ \A j \in 0 .. Smaller(Count(q), q.maxThreshold) - 1 :
                           q.base[Index(q, q.head) + j] = elementsDequeued + 1 + j
    BY DEF ReaderSees, CountIsDifference
  <2>1. PICK c \in Nat : /\ c = elementsEnqueued - elementsDequeued
                         /\ Holds(q, elementsDequeued, c)
    BY SteadyIs
  <2>2. Count(q) = c /\ Index(q, q.head) = Wrap(q.queueLength, q.head)
    BY <2>1, CountIs DEF Holds
  <2>3. ASSUME NEW j \in 0 .. Smaller(Count(q), q.maxThreshold) - 1
        PROVE  q.base[Index(q, q.head) + j] = elementsDequeued + 1 + j
    <3>1. PICK m \in Nat : m = q.maxThreshold
      BY <2>1 DEF Holds, Shaped
    <3>2. j \in 0 .. Smaller(c, m) - 1
      BY <2>2, <2>3, <3>1
    <3>3. j \in Nat /\ j < c /\ j < m
      BY <3>2 DEF Smaller
    <3>4. elementsDequeued \in Nat
      BY DEF IInv
    <3>5. q.base[Wrap(q.queueLength, q.head) + j] = elementsDequeued + 1 + j
      BY <2>1, <3>1, <3>3, <3>4, BlockAtHead
    <3> QED
      BY <2>2, <3>5
  <2> QED
    BY <2>1, <2>2, <2>3
<1> QED
  BY <1>1, Invariance, PTL

---------------------------------------------------------------------------
(* The buffer implements BoundedFifo.  Its contents are always the         *)
(* elements that have been enqueued and not dequeued.                      *)
Elements(d, c) == [j \in 1 .. c |-> d + j]

LEMMA ElementsAre ==
  ASSUME NEW d \in Nat, NEW c \in Nat
  PROVE  Elements(d, c) \in Seq(Nat) /\ Len(Elements(d, c)) = c
<1>1. \A j \in 1 .. c : d + j \in Nat
  OBVIOUS
<1> QED
  BY <1>1 DEF Elements

LEMMA ElementsParts ==
  ASSUME NEW d \in Nat, NEW c \in Nat, NEW n \in 0 .. c
  PROVE  /\ SubSeq(Elements(d, c), 1, n) = Elements(d, n)
         /\ SubSeq(Elements(d, c), n + 1, c) = Elements(d + n, c - n)
<1>1. PICK s \in Seq(Nat) : s = Elements(d, c) /\ Len(s) = c /\ \A j \in 1 .. c : s[j] = d + j
  BY ElementsAre DEF Elements
<1>2. SubSeq(s, 1, n) = [i \in 1 .. n |-> s[i]]
  BY <1>1
<1>3. SubSeq(s, n + 1, c) = [i \in 1 .. c - n |-> s[i + n]]
  BY <1>1
<1>4. \A i \in 1 .. n : s[i] = d + i
  BY <1>1
<1>5. \A i \in 1 .. c - n : s[i + n] = d + n + i
  <2>1. SUFFICES ASSUME NEW i \in 1 .. c - n PROVE s[i + n] = d + n + i
    OBVIOUS
  <2>2. i + n \in 1 .. c /\ d + (i + n) = d + n + i
    OBVIOUS
  <2> QED
    BY <1>1, <2>2
<1> QED
  BY <1>1, <1>2, <1>3, <1>4, <1>5 DEF Elements

LEMMA ItemsOfIs ==
  ASSUME NEW b, NEW d \in Nat, NEW c \in Nat, Holds(b, d, c)
  PROVE  ItemsOf(b) = Elements(d, c)
<1>1. Count(b) = c
  BY CountIs DEF Holds
<1>2. ASSUME NEW j \in 1 .. c PROVE b.base[Index(b, b.head + j - 1)] = d + j
  <2>1. PICK h \in Nat, n \in Nat : h = b.head /\ n = b.queueLength /\ c <= n
    BY DEF Holds, Shaped, Apart
  <2>2. PICK i \in 0 .. c - 1 : i = j - 1 /\ h + j - 1 = h + i /\ d + 1 + i = d + j /\ i \in 0 .. n - 1
    BY <2>1
  <2>3. Index(b, b.head + i) = Wrap(b.queueLength, b.head + i)
    BY <2>1, <2>2, CountIs DEF Holds
  <2>4. b.base[Wrap(b.queueLength, b.head + i)] = d + 1 + i
    BY <2>2 DEF Holds, Shows
  <2> QED
    BY <2>1, <2>2, <2>3, <2>4
<1> QED
  BY <1>1, <1>2 DEF ItemsOf, Elements

LEMMA ItemsIs ==
  ASSUME IInv
  PROVE  \E k \in Nat : /\ elementsEnqueued = elementsDequeued + k
                        /\ Items = Elements(elementsDequeued, k)
                        /\ q.queueLength \in Nat /\ k <= q.queueLength
<1> PICK d \in Nat : d = elementsDequeued
  BY DEF IInv
<1>1. CASE ~growing
  <2>1. PICK c \in Nat : elementsEnqueued = d + c /\ Holds(q, d, c)
    BY <1>1, SteadyIs
  <2>2. q.queueLength \in Nat /\ c <= q.queueLength
    BY <2>1 DEF Holds, Shaped, Apart
  <2> QED
    BY <1>1, <2>1, <2>2, ItemsOfIs DEF Items
<1>2. CASE growing
  <2>1. PICK c \in 0 .. elementsEnqueued - d :
          /\ Holds(q, d, c) /\ Holds(old, d + c, elementsEnqueued - d - c)
          /\ old.queueLength <= q.queueLength /\ elementsEnqueued - d <= old.queueLength
    BY <1>2 DEF IInv, Copying
  <2>2. PICK k \in Nat, a \in Nat : /\ k = elementsEnqueued - d - c /\ a = c + k
                                    /\ elementsEnqueued = d + a /\ a = elementsEnqueued - d
                                    /\ c \in Nat /\ d + c \in Nat
    BY <2>1 DEF IInv
  <2>3. ItemsOf(q) = Elements(d, c) /\ Count(q) = c
    BY <2>1, <2>2, ItemsOfIs, CountIs DEF Holds
  <2>4. ItemsOf(old) = Elements(d + c, k) /\ Count(old) = k
    BY <2>1, <2>2, ItemsOfIs, CountIs DEF Holds
  <2>5. Items = [j \in 1 .. c + k |-> IF j <= c THEN Elements(d, c)[j] ELSE Elements(d + c, k)[j - c]]
    BY <1>2, <2>3, <2>4 DEF Items
  <2>6. \A j \in 1 .. c + k :
          (IF j <= c THEN Elements(d, c)[j] ELSE Elements(d + c, k)[j - c]) = d + j
    <3>1. SUFFICES ASSUME NEW j \in 1 .. c + k
                   PROVE (IF j <= c THEN Elements(d, c)[j] ELSE Elements(d + c, k)[j - c]) = d + j
      OBVIOUS
    <3>2. CASE j <= c
      <4>1. j \in 1 .. c
        BY <2>2, <3>2
      <4> QED
        BY <3>2, <4>1 DEF Elements
    <3>3. CASE ~(j <= c)
      <4>1. j - c \in 1 .. k /\ d + c + (j - c) = d + j
        BY <2>2, <3>3
      <4> QED
        BY <3>3, <4>1 DEF Elements
    <3> QED
      BY <3>2, <3>3
  <2>7. Items = Elements(d, a)
    BY <2>2, <2>5, <2>6 DEF Elements
  <2>8. q.queueLength \in Nat /\ old.queueLength \in Nat
    BY <2>1 DEF Holds, Shaped
  <2>9. a <= q.queueLength
    BY <2>1, <2>2, <2>8
  <2> QED
    BY <2>2, <2>7, <2>8, <2>9
<1> QED
  BY <1>1, <1>2

LEMMA LengthKept ==
  ASSUME IInv, [Next]_vars
  PROVE  \/ q'.queueLength = q.queueLength
         \/ q'.queueLength >= q.queueLength /\ UNCHANGED <<elementsEnqueued, elementsDequeued>>
<1>1. ASSUME NEW n \in 0 .. MaxItems, Enqueue(n) PROVE q'.queueLength = q.queueLength
  <2>1. PICK c \in Nat : Holds(q, elementsDequeued, c)
    BY <1>1, SteadyIs DEF Enqueue
  <2> QED
    BY <1>1, <2>1 DEF Enqueue, EnqueueIn, Holds, Shaped
<1>2. ASSUME NEW n \in 0 .. MaxItems, Dequeue(n) PROVE q'.queueLength = q.queueLength
  <2>1. PICK c \in Nat : Holds(q, elementsDequeued, c)
    BY <1>2, SteadyIs DEF Dequeue
  <2> QED
    BY <1>2, <2>1 DEF Dequeue, DequeueIn, Holds, Shaped
<1>3. ASSUME NEW n \in 1 .. MaxItems, GetRawEnqueuePtr(n) PROVE q'.queueLength = q.queueLength
  BY <1>3, GetStep
<1>4. ASSUME NEW a \in GrowArgs, Grow(a[1], a[2])
      PROVE  q'.queueLength >= q.queueLength /\ UNCHANGED <<elementsEnqueued, elementsDequeued>>
  BY <1>4, GrowStep DEF Grow
<1>5. CASE GrowCopy
  BY <1>5, CopyStep
<1>6. CASE UNCHANGED vars
  BY <1>6 DEF vars
<1> QED
  BY <1>1, <1>2, <1>3, <1>4, <1>5, <1>6 DEF Next

(* A step enqueues, dequeues, or neither.                                  *)
LEMMA Moves ==
  ASSUME IInv, [Next]_vars
  PROVE  \E n \in Nat : \/ elementsEnqueued' = elementsEnqueued + n /\ elementsDequeued' = elementsDequeued
                        \/ elementsDequeued' = elementsDequeued + n /\ elementsEnqueued' = elementsEnqueued
<1>1. 0 \in Nat /\ elementsEnqueued + 0 = elementsEnqueued
  BY DEF IInv
<1>2. \A n \in 0 .. MaxItems : n \in Nat
  BY ArgumentAssumption
<1> QED
  BY <1>1, <1>2 DEF Next, vars, Enqueue, Dequeue, GetRawEnqueuePtr, Grow, GrowCopy

LEMMA FifoStep == IInv /\ IInv' /\ [Next]_vars => [Fifo!Next]_(Fifo!vars)
<1> SUFFICES ASSUME IInv, IInv', [Next]_vars PROVE [Fifo!Next]_(Fifo!vars)
  OBVIOUS
<1>1. PICK c \in Nat, len \in Nat, d \in Nat :
        /\ d = elementsDequeued /\ elementsEnqueued = d + c /\ Items = Elements(d, c)
        /\ len = q.queueLength /\ c <= len
  BY ItemsIs DEF IInv
<1>2. PICK c2 \in Nat, len2 \in Nat, d2 \in Nat :
        /\ d2 = elementsDequeued' /\ elementsEnqueued' = d2 + c2 /\ Items' = Elements(d2, c2)
        /\ len2 = q'.queueLength /\ c2 <= len2
  <2>1. IInv' => (\E k \in Nat : /\ elementsEnqueued = elementsDequeued + k
                                 /\ Items = Elements(elementsDequeued, k)
                                 /\ q.queueLength \in Nat /\ k <= q.queueLength)'
    BY ItemsIs, PTL
  <2> QED
    BY <2>1 DEF IInv
<1>3. Len(Items) = c /\ Len(Items') = c2
  BY <1>1, <1>2, ElementsAre
<1>4. PICK n \in Nat : \/ d2 + c2 = d + c + n /\ d2 = d
                       \/ d2 = d + n /\ d2 + c2 = d + c
  BY <1>1, <1>2, Moves
<1>5. CASE len2 = len /\ d2 = d
  <2>1. c2 = c + n \/ c2 = c
    BY <1>4, <1>5
  <2>2. c \in 0 .. c2
    BY <2>1
  <2>3. Items = SubSeq(Items', 1, c)
    <3>1. SubSeq(Elements(d, c2), 1, c) = Elements(d, c)
      BY <2>2, ElementsParts
    <3> QED
      BY <1>1, <1>2, <1>5, <3>1
  <2>4. Len(Items') \in Len(Items) .. q.queueLength
    BY <1>1, <1>2, <1>3, <1>5, <2>2
  <2> QED
    BY <1>1, <1>2, <1>3, <1>5, <2>3, <2>4 DEF Fifo!Next, Fifo!Put
<1>6. CASE len2 = len /\ d2 # d
  <2>1. d2 = d + n /\ c2 = c - n /\ n \in 0 .. c
    BY <1>4, <1>6
  <2>2. Items' = SubSeq(Items, n + 1, c)
    <3>1. SubSeq(Elements(d, c), n + 1, c) = Elements(d + n, c - n)
      BY <2>1, ElementsParts
    <3> QED
      BY <1>1, <1>2, <2>1, <3>1
  <2> QED
    BY <1>1, <1>2, <1>3, <1>6, <2>1, <2>2 DEF Fifo!Next, Fifo!Take
<1>7. CASE len2 # len
  <2>1. len2 >= len /\ d2 = d /\ c2 = c
    <3>1. q'.queueLength # q.queueLength
      BY <1>1, <1>2, <1>7
    <3>2. q'.queueLength >= q.queueLength /\ UNCHANGED <<elementsEnqueued, elementsDequeued>>
      BY <3>1, LengthKept
    <3>3. len2 >= len /\ d2 = d /\ d2 + c2 = d + c
      BY <1>1, <1>2, <3>2
    <3> QED
      BY <3>3
  <2> QED
    BY <1>1, <1>2, <2>1 DEF Fifo!Next, Fifo!Grow
<1> QED
  BY <1>5, <1>6, <1>7

(* The array with its mirror, the copies of Enqueue and the copying Grow   *)
(* of ThresholdQueueBase implement the bounded FIFO, step by step: the     *)
(* loop of Grow, which copies block by block, loses and repeats nothing.   *)
THEOREM Refinement == Spec => ImplementsFifo
<1>1. Init => Fifo!Init
  <2> SUFFICES ASSUME Init PROVE Items = <<>> /\ q.queueLength \in Nat
    BY DEF Fifo!Init
  <2>1. PICK c \in Nat : /\ elementsEnqueued = elementsDequeued + c
                         /\ Items = Elements(elementsDequeued, c) /\ q.queueLength \in Nat
    BY InitHolds, ItemsIs
  <2>2. c = 0 /\ elementsDequeued = 0
    BY <2>1 DEF Init
  <2>3. Elements(0, 0) \in Seq(Nat) /\ Len(Elements(0, 0)) = 0
    BY ElementsAre
  <2>4. Elements(0, 0) = <<>>
    BY <2>3, EmptySeq
  <2> QED
    BY <2>1, <2>2, <2>4
<1>2. IInv /\ IInv' /\ [Next]_vars => [Fifo!Next]_(Fifo!vars)
  BY FifoStep
<1> QED
  BY <1>1, <1>2, Invariance, PTL DEF Spec, ImplementsFifo, Fifo!Spec
============================================================================
