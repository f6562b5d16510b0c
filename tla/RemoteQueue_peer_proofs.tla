----------------------- MODULE RemoteQueue_peer_proofs -----------------------
(***************************************************************************)
(* Proofs about module RemoteQueue: what each half knows of the other.     *)
(* The largest thresholds of the two halves agree when all is quiet, and a *)
(* node that waits in D4R waits with its peer's knowledge and with its     *)
(* peer's tag, for every length, share, threshold and sequence of growths, *)
(* tags, ends and terminations.                                            *)
(***************************************************************************)
EXTENDS RemoteQueue_proofs

---------------------------------------------------------------------------
(* What has gone from a half x to its peer y, which has read k packets of  *)
(* the channel c.                                                          *)

InD4R(x) == x.pc = "d4r" \/ (x.pc = "growwait" /\ x.args[3] = "d4r")

Counts(x) == x.max \in Nat /\ x.waits \in Nat /\ x.known \in Nat /\ x.seen \in Nat
Stamps(c) ==
  Len(c) \in Nat
  /\ \A i \in 1 .. Len(c) : c[i].n \in Int /\ c[i].wait \in Nat /\ c[i].ack \in Nat

(* No packet tells of more than the sender's largest threshold.            *)
Bounded(x, c) ==
  \A i \in 1 .. Len(c) : c[i].type \in {"grow", "enqueue"} => c[i].n <= x.max

(* The peer has the sender's largest threshold, or is to be told of it, or *)
(* a packet tells it.                                                      *)
Spread(x, y, c, k) ==
  \/ x.max <= y.max \/ "grow" \in x.pending
  \/ \E i \in k + 1 .. Len(c) : c[i].type = "grow" /\ c[i].n >= x.max

(* The peer knows of an earlier wait of x or of the last one, the packets  *)
(* of later ones; nobody is told to have been heard who has not.           *)
Clocks(x, y, c, k) ==
  /\ y.known <= x.waits /\ y.seen <= x.known
  /\ \A i \in 1 .. Len(c) : c[i].wait <= x.waits /\ c[i].ack <= x.known
  /\ \A i \in k + 1 .. Len(c) : y.known <= c[i].wait
  /\ \A i \in 1 .. Len(c) : \A j \in i .. Len(c) : c[i].wait <= c[j].wait
  /\ InD4R(x) => y.known = x.waits

(* The peer has the tag of x, or is to be told of it, or the last packet   *)
(* with a tag has it.                                                      *)
Current(x, y, c, k) ==
  \/ y.mock = x.tag /\ \A i \in k + 1 .. Len(c) : c[i].type # "d4rtag"
  \/ x.sig \/ "tag" \in x.pending
  \/ \E i \in k + 1 .. Len(c) :
       /\ c[i].type = "d4rtag" /\ c[i].n = x.tag
       /\ \A j \in i + 1 .. Len(c) : c[j].type # "d4rtag"

Link(x, y, c, k) ==
  Bounded(x, c) /\ Spread(x, y, c, k) /\ Clocks(x, y, c, k) /\ Current(x, y, c, k)

(* A growth that is to be told has the action thread told of it, unless it *)
(* is about to look or has ended.                                          *)
Prodded(x) ==
  "grow" \in x.pending /\ ~x.sentEnd => "action" \in x.pending \/ x.apc \in {"recv", "done"}

(* The part of the inductive invariant that is about the peers.            *)
PInv ==
  \A h \in Half : /\ Counts(q[h]) /\ Stamps(chan[h]) /\ Prodded(q[h])
                  /\ Link(q[h], q[Other(h)], chan[h], 0)

(* z is x later, as the one that sends to y.                               *)
Further(x, y, z) ==
  /\ x.max <= z.max /\ (z.max = x.max \/ "grow" \in z.pending \/ z.max <= y.max)
  /\ "grow" \in x.pending => "grow" \in z.pending
  /\ "tag" \in x.pending => "tag" \in z.pending
  /\ x.waits <= z.waits /\ x.known <= z.known
  /\ z.tag = x.tag \/ z.sig \/ "tag" \in z.pending
  /\ x.sig => z.sig \/ "tag" \in z.pending
  /\ InD4R(z) => z.waits = x.waits /\ (InD4R(x) \/ y.known = x.waits)

LEMMA LinkSender ==
  ASSUME NEW x, NEW y, NEW c, NEW k, Link(x, y, c, k), Counts(x), Counts(y), Stamps(c),
         NEW z, Counts(z), Further(x, y, z)
  PROVE  Link(z, y, c, k)
<1>1. Bounded(z, c)
  <2> SUFFICES ASSUME NEW i \in 1 .. Len(c), c[i].type \in {"grow", "enqueue"} PROVE c[i].n <= z.max
    BY DEF Bounded
  <2>1. c[i].n <= x.max /\ x.max <= z.max
    BY DEF Link, Bounded, Further
  <2> QED
    BY <2>1, SMTT(30) DEF Counts, Stamps
<1>2. Spread(z, y, c, k)
  BY DEF Link, Spread, Further
<1>3. Clocks(z, y, c, k)
  <2>1. Clocks(x, y, c, k) /\ x.waits <= z.waits /\ x.known <= z.known
    BY DEF Link, Further
  <2>2. y.known <= z.waits /\ y.seen <= z.known
    BY <2>1, SMTT(30) DEF Clocks, Counts
  <2>3. \A i \in 1 .. Len(c) : c[i].wait <= z.waits /\ c[i].ack <= z.known
    <3> SUFFICES ASSUME NEW i \in 1 .. Len(c) PROVE c[i].wait <= z.waits /\ c[i].ack <= z.known
      OBVIOUS
    <3>1. PICK a, b, d, e, f, g : /\ a = c[i].wait /\ b = x.waits /\ d = z.waits
                                  /\ e = c[i].ack /\ f = x.known /\ g = z.known
      OBVIOUS
    <3>2. a \in Nat /\ b \in Nat /\ d \in Nat /\ e \in Nat /\ f \in Nat /\ g \in Nat
      BY <3>1 DEF Counts, Stamps
    <3>3. a <= b /\ b <= d /\ e <= f /\ f <= g
      BY <2>1, <3>1 DEF Clocks
    <3>4. a <= d /\ e <= g
      BY <3>2, <3>3
    <3> QED
      BY <3>1, <3>4
  <2>4. InD4R(z) => y.known = z.waits
    BY <2>1 DEF Clocks, Further
  <2> QED
    BY <2>1, <2>2, <2>3, <2>4 DEF Clocks
<1>4. Current(z, y, c, k)
  BY DEF Link, Current, Further
<1> QED
  BY <1>1, <1>2, <1>3, <1>4 DEF Link

LEMMA LinkReceiver ==
  ASSUME NEW x, NEW y, NEW c, NEW k, Link(x, y, c, k), Counts(x), Counts(y),
         NEW z, Counts(z), y.max <= z.max, z.known = y.known, z.seen = y.seen, z.mock = y.mock
  PROVE  Link(x, z, c, k)
<1>1. Spread(x, z, c, k)
  BY DEF Link, Spread, Counts
<1>2. Clocks(x, z, c, k) /\ Current(x, z, c, k)
  BY DEF Link, Clocks, Current
<1> QED
  BY <1>1, <1>2 DEF Link

(* The peer reads the next packet.                                         *)
Learns(y, p, z) ==
  /\ z.known = p.wait /\ z.seen = p.ack /\ y.max <= z.max /\ (p.type = "grow" => z.max >= p.n)
  /\ z.mock = IF p.type = "d4rtag" THEN p.n ELSE y.mock

LEMMA LinkTaken ==
  ASSUME NEW x, NEW y, NEW c, NEW k \in Nat, Link(x, y, c, k), Counts(x), Counts(y), Stamps(c),
         k < Len(c), NEW p, p = c[k + 1], NEW z, Counts(z), Learns(y, p, z)
  PROVE  Link(x, z, c, k + 1) /\ y.known <= z.known
<1>1. PICK n \in Nat : n = Len(c) /\ k + 1 \in 1 .. n /\ k + 1 \in k + 1 .. n
  BY DEF Stamps
<1>2. \A i \in k + 1 .. n : i = k + 1 \/ i \in (k + 1) + 1 .. n
  BY <1>1
<1>3. \A i \in (k + 1) + 1 .. n : i \in k + 1 .. n /\ i \in 1 .. n
  BY <1>1
<1>4. Spread(x, z, c, k + 1)
  <2>1. CASE x.max <= y.max
    BY <2>1, SMTT(30) DEF Learns, Spread, Counts
  <2>2. CASE "grow" \in x.pending
    BY <2>2 DEF Spread
  <2>3. ASSUME NEW i \in k + 1 .. n, c[i].type = "grow", c[i].n >= x.max
        PROVE  Spread(x, z, c, k + 1)
    <3>1. CASE i = k + 1
      <4>1. z.max >= p.n /\ p.n >= x.max /\ p.n \in Int
        BY <1>1, <2>3, <3>1 DEF Learns, Stamps
      <4>2. PICK a \in Int, b \in Int, d \in Int : a = x.max /\ b = p.n /\ d = z.max
        BY <4>1, SMTT(30) DEF Counts
      <4>3. d >= b /\ b >= a
        BY <4>1, <4>2
      <4>4. a <= d
        BY <4>3
      <4> QED
        BY <4>2, <4>4 DEF Spread
    <3>2. CASE i \in (k + 1) + 1 .. n
      BY <1>1, <2>3, <3>2 DEF Spread
    <3> QED
      BY <1>2, <3>1, <3>2
  <2> QED
    BY <1>1, <2>1, <2>2, <2>3 DEF Link, Spread
<1>5. y.known <= z.known /\ Clocks(x, z, c, k + 1)
  <2>1. /\ p.wait <= x.waits /\ p.ack <= x.known /\ y.known <= p.wait
        /\ p.wait \in Nat /\ p.ack \in Nat
    BY <1>1 DEF Link, Clocks, Stamps
  <2>2. z.known = p.wait /\ z.seen = p.ack
    BY DEF Learns
  <2>3. \A i \in (k + 1) + 1 .. n : z.known <= c[i].wait
    <3>1. \A i \in (k + 1) + 1 .. n : i \in (k + 1) .. n
      BY <1>3
    <3> QED
      BY <1>1, <2>2, <3>1 DEF Link, Clocks
  <2>4. InD4R(x) => z.known = x.waits
    BY <2>1, <2>2 DEF Link, Clocks, Counts
  <2> QED
    BY <1>1, <2>1, <2>2, <2>3, <2>4 DEF Link, Clocks
<1>6. Current(x, z, c, k + 1)
  <2>1. CASE y.mock = x.tag /\ \A i \in k + 1 .. n : c[i].type # "d4rtag"
    <3>1. z.mock = x.tag
      BY <1>1, <2>1 DEF Learns
    <3> QED
      BY <1>1, <1>3, <2>1, <3>1 DEF Current
  <2>2. CASE x.sig \/ "tag" \in x.pending
    BY <2>2 DEF Current
  <2>3. ASSUME NEW i \in k + 1 .. n, c[i].type = "d4rtag", c[i].n = x.tag,
               \A j \in i + 1 .. n : c[j].type # "d4rtag"
        PROVE  Current(x, z, c, k + 1)
    <3>1. CASE i = k + 1
      <4>1. z.mock = x.tag
        BY <2>3, <3>1 DEF Learns
      <4> QED
        BY <1>1, <2>3, <3>1, <4>1 DEF Current
    <3>2. CASE i \in (k + 1) + 1 .. n
      BY <1>1, <2>3, <3>2 DEF Current
    <3> QED
      BY <1>2, <3>1, <3>2
  <2> QED
    BY <1>1, <2>1, <2>2, <2>3 DEF Link, Current
<1> QED
  BY <1>4, <1>5, <1>6 DEF Link

(* A packet is sent, and what it tells is no longer to be told.            *)
Speaks(x, z, p) ==
  /\ z.max = x.max /\ z.waits = x.waits /\ z.known = x.known /\ z.tag = x.tag /\ z.sig = x.sig
  /\ InD4R(z) => InD4R(x)
  /\ "grow" \in x.pending => "grow" \in z.pending \/ p.type = "grow"
  /\ "tag" \in x.pending => "tag" \in z.pending \/ p.type = "d4rtag"
  /\ p.type = "grow" => p.n = x.max
  /\ p.type = "enqueue" => p.n <= x.max
  /\ p.type = "d4rtag" => p.n = x.tag
  /\ p.wait = x.waits /\ p.ack = x.known /\ p.n \in Int

LEMMA LinkSent ==
  ASSUME NEW x, NEW y, NEW c, Link(x, y, c, 0), Counts(x), Counts(y), Stamps(c),
         NEW d, NEW p, Len(d) = Len(c) + 1, d[Len(c) + 1] = p, \A i \in 1 .. Len(c) : d[i] = c[i],
         NEW z, Speaks(x, z, p)
  PROVE  Link(z, y, d, 0) /\ Stamps(d)
<1>1. PICK n \in Nat : n = Len(c) /\ Len(d) = n + 1 /\ d[n + 1] = p /\ n + 1 \in 1 .. n + 1
  BY DEF Stamps
<1>2. \A i \in 1 .. n + 1 : i = n + 1 \/ i \in 1 .. n
  BY <1>1
<1>3. \A i \in 1 .. n : d[i] = c[i] /\ i \in 1 .. n + 1
  BY <1>1
<1>4. Stamps(d)
  <2>1. p.n \in Int /\ p.wait \in Nat /\ p.ack \in Nat
    BY DEF Speaks, Counts
  <2> QED
    BY <1>1, <1>2, <1>3, <2>1 DEF Stamps
<1>5. Bounded(z, d)
  <2>1. p.type \in {"grow", "enqueue"} => p.n <= z.max
    BY DEF Speaks, Counts
  <2>2. \A i \in 1 .. n : c[i].type \in {"grow", "enqueue"} => c[i].n <= z.max
    BY <1>1 DEF Link, Bounded, Speaks
  <2> QED
    BY <1>1, <1>2, <1>3, <2>1, <2>2 DEF Bounded
<1>6. Spread(z, y, d, 0)
  <2>1. x.max <= y.max \/ "grow" \in x.pending
        \/ \E i \in 1 .. n : c[i].type = "grow" /\ c[i].n >= x.max
    BY <1>1 DEF Link, Spread
  <2>2. p.type = "grow" => \E i \in 1 .. n + 1 : d[i].type = "grow" /\ d[i].n >= z.max
    BY <1>1 DEF Speaks, Counts
  <2>3. (\E i \in 1 .. n : c[i].type = "grow" /\ c[i].n >= x.max)
          => \E i \in 1 .. n + 1 : d[i].type = "grow" /\ d[i].n >= z.max
    BY <1>3 DEF Speaks
  <2>4. z.max <= y.max \/ "grow" \in z.pending
        \/ \E i \in 1 .. n + 1 : d[i].type = "grow" /\ d[i].n >= z.max
    BY <2>1, <2>2, <2>3 DEF Speaks
  <2>5. 0 + 1 .. Len(d) = 1 .. n + 1
    BY <1>1
  <2> QED
    BY <2>4, <2>5 DEF Spread
<1>7. Clocks(z, y, d, 0)
  <2>1. Clocks(x, y, c, 0) /\ z.waits = x.waits /\ z.known = x.known /\ p.wait = x.waits
        /\ p.ack = x.known /\ (InD4R(z) => InD4R(x))
    BY DEF Link, Speaks
  <2>2. \A i \in 1 .. n : /\ c[i].wait <= x.waits /\ c[i].ack <= x.known /\ y.known <= c[i].wait
                          /\ \A j \in i .. n : c[i].wait <= c[j].wait
    BY <1>1, <2>1 DEF Clocks
  <2>3. \A i \in 1 .. n + 1 : d[i].wait <= x.waits /\ d[i].ack <= x.known /\ y.known <= d[i].wait
    BY <1>1, <1>2, <1>3, <2>1, <2>2 DEF Counts, Clocks
  <2>4. \A i \in 1 .. n + 1 : \A j \in i .. n + 1 : d[i].wait <= d[j].wait
    <3> SUFFICES ASSUME NEW i \in 1 .. n + 1, NEW j \in i .. n + 1 PROVE d[i].wait <= d[j].wait
      OBVIOUS
    <3>1. CASE j = n + 1
      BY <1>1, <2>1, <2>3, <3>1
    <3>2. CASE j # n + 1
      <4>1. i \in 1 .. n /\ j \in 1 .. n /\ j \in i .. n
        BY <3>2
      <4> QED
        BY <1>3, <2>2, <4>1
    <3> QED
      BY <3>1, <3>2
  <2>5. 0 + 1 .. Len(d) = 1 .. n + 1 /\ 1 .. Len(d) = 1 .. n + 1
    BY <1>1
  <2> QED
    BY <1>1, <2>1, <2>3, <2>4, <2>5 DEF Clocks
<1>8. Current(z, y, d, 0)
  <2>1. \/ y.mock = x.tag /\ \A i \in 1 .. n : c[i].type # "d4rtag"
        \/ x.sig \/ "tag" \in x.pending
        \/ \E i \in 1 .. n : /\ c[i].type = "d4rtag" /\ c[i].n = x.tag
                             /\ \A j \in i + 1 .. n : c[j].type # "d4rtag"
    BY <1>1 DEF Link, Current
  <2>2. 0 + 1 .. Len(d) = 1 .. n + 1 /\ (n + 1) + 1 .. n + 1 = {}
    BY <1>1
  <2>3. CASE p.type = "d4rtag"
    <3>1. d[n + 1].type = "d4rtag" /\ d[n + 1].n = z.tag
          /\ \A j \in (n + 1) + 1 .. n + 1 : d[j].type # "d4rtag"
      BY <1>1, <2>2, <2>3 DEF Speaks
    <3> QED
      BY <1>1, <2>2, <3>1 DEF Current
  <2>4. CASE p.type # "d4rtag"
    <3>1. CASE y.mock = x.tag /\ \A i \in 1 .. n : c[i].type # "d4rtag"
      <4>1. y.mock = z.tag /\ \A i \in 1 .. n + 1 : d[i].type # "d4rtag"
        BY <1>1, <1>2, <1>3, <2>4, <3>1 DEF Speaks
      <4> QED
        BY <2>2, <4>1 DEF Current
    <3>2. CASE x.sig \/ "tag" \in x.pending
      BY <2>4, <3>2 DEF Speaks, Current
    <3>3. ASSUME NEW i \in 1 .. n, c[i].type = "d4rtag", c[i].n = x.tag,
                 \A j \in i + 1 .. n : c[j].type # "d4rtag"
          PROVE  Current(z, y, d, 0)
      <4>1. \A j \in i + 1 .. n + 1 : j = n + 1 \/ (j \in i + 1 .. n /\ j \in 1 .. n)
        OBVIOUS
      <4>2. \A j \in i + 1 .. n + 1 : d[j].type # "d4rtag"
        BY <1>1, <1>3, <2>4, <3>3, <4>1
      <4>3. d[i].type = "d4rtag" /\ d[i].n = z.tag /\ i \in 1 .. n + 1
        BY <1>3, <3>3 DEF Speaks
      <4> QED
        BY <1>1, <2>2, <4>2, <4>3 DEF Current
    <3> QED
      BY <2>1, <3>1, <3>2, <3>3
  <2> QED
    BY <2>3, <2>4
<1> QED
  BY <1>4, <1>5, <1>6, <1>7, <1>8 DEF Link

(* What is left when k packets have been read.                             *)
LEMMA LinkTail ==
  ASSUME NEW x, NEW y, NEW c, NEW k \in Nat, Link(x, y, c, k), Stamps(c), k <= Len(c),
         NEW d, Len(d) = Len(c) - k, \A i \in 1 .. Len(c) - k : d[i] = c[k + i]
  PROVE  Link(x, y, d, 0) /\ Stamps(d)
<1>1. PICK n \in Nat, m \in Nat : n = Len(c) /\ m = n - k /\ n = k + m /\ Len(d) = m
  BY DEF Stamps
<1>2. \A i \in 1 .. m : d[i] = c[k + i] /\ k + i \in 1 .. n /\ k + i \in k + 1 .. n
  BY <1>1
<1>3. 0 + 1 .. Len(d) = 1 .. m /\ 1 .. Len(d) = 1 .. m
  BY <1>1
<1>4. \A i \in k + 1 .. n : i - k \in 1 .. m /\ d[i - k] = c[i]
  <2> SUFFICES ASSUME NEW i \in k + 1 .. n PROVE i - k \in 1 .. m /\ d[i - k] = c[i]
    OBVIOUS
  <2>1. i - k \in 1 .. m /\ k + (i - k) = i
    BY <1>1
  <2> QED
    BY <1>2, <2>1
<1>5. Stamps(d) /\ Bounded(x, d)
  BY <1>1, <1>2, <1>3 DEF Stamps, Link, Bounded
<1>6. Spread(x, y, d, 0)
  <2>1. ASSUME NEW i \in k + 1 .. n, c[i].type = "grow", c[i].n >= x.max PROVE Spread(x, y, d, 0)
    <3>1. i - k \in 1 .. m /\ d[i - k].type = "grow" /\ d[i - k].n >= x.max
      BY <1>4, <2>1
    <3> QED
      BY <1>3, <3>1 DEF Spread
  <2> QED
    BY <1>1, <2>1 DEF Link, Spread
<1>7. Clocks(x, y, d, 0)
  <2>1. \A i \in 1 .. m : d[i].wait <= x.waits /\ d[i].ack <= x.known /\ y.known <= d[i].wait
    BY <1>1, <1>2 DEF Link, Clocks
  <2>2. \A i \in 1 .. m : \A j \in i .. m : d[i].wait <= d[j].wait
    <3> SUFFICES ASSUME NEW i \in 1 .. m, NEW j \in i .. m PROVE d[i].wait <= d[j].wait
      OBVIOUS
    <3>1. j \in 1 .. m /\ k + j \in (k + i) .. n
      BY <1>1
    <3>2. c[k + i].wait <= c[k + j].wait
      BY <1>1, <1>2, <3>1 DEF Link, Clocks
    <3> QED
      BY <1>2, <3>1, <3>2
  <2> QED
    BY <1>3, <2>1, <2>2, SMTT(30) DEF Link, Clocks
<1>8. Current(x, y, d, 0)
  <2>1. CASE y.mock = x.tag /\ \A i \in k + 1 .. n : c[i].type # "d4rtag"
    BY <1>2, <1>3, <2>1 DEF Current
  <2>2. CASE x.sig \/ "tag" \in x.pending
    BY <2>2 DEF Current
  <2>3. ASSUME NEW i \in k + 1 .. n, c[i].type = "d4rtag", c[i].n = x.tag,
               \A j \in i + 1 .. n : c[j].type # "d4rtag"
        PROVE  Current(x, y, d, 0)
    <3>1. PICK e : e = i - k /\ e \in 1 .. m /\ d[e] = c[i]
      BY <1>4
    <3>2. \A j \in e + 1 .. m : j \in 1 .. m /\ k + j \in i + 1 .. n
      BY <1>1, <3>1
    <3>3. \A j \in e + 1 .. m : d[j].type # "d4rtag"
      BY <1>2, <2>3, <3>2
    <3> QED
      BY <1>1, <1>3, <2>3, <3>1, <3>3 DEF Current
  <2> QED
    BY <1>1, <2>1, <2>2, <2>3 DEF Link, Current
<1> QED
  BY <1>5, <1>6, <1>7, <1>8 DEF Link

---------------------------------------------------------------------------
(* A step of the action thread of h under way: m is the half and what it   *)
(* has sent, and k packets have been read.                                 *)
Path(h, m, k) ==
  /\ Counts(m.x) /\ Stamps(chan[h] \o m.sent)
  /\ Link(m.x, q[Other(h)], chan[h] \o m.sent, 0)
  /\ Link(q[Other(h)], m.x, chan[Other(h)], k)

(* z is to its peer what x is; Alike: with the same to tell.               *)
Level(x, z) ==
  /\ IsHalf(z) /\ z.max = x.max /\ z.waits = x.waits /\ z.known = x.known /\ z.seen = x.seen
  /\ z.tag = x.tag /\ z.mock = x.mock /\ z.sig = x.sig /\ (InD4R(z) => InD4R(x))
Alike(x, z) ==
  Level(x, z) /\ ("grow" \in x.pending => "grow" \in z.pending)
              /\ ("tag" \in x.pending => "tag" \in z.pending)

LEMMA AlikeFurther ==
  ASSUME NEW x, Counts(x), NEW z, Alike(x, z)
  PROVE  Counts(z) /\ \A y : Further(x, y, z)
<1>1. Counts(z)
  BY DEF Alike, Level, Counts
<1>2. x.max <= x.max /\ x.waits <= x.waits /\ x.known <= x.known
  BY DEF Counts
<1> QED
  BY <1>1, <1>2 DEF Alike, Level, Further

LEMMA PathAlike ==
  ASSUME PInv, NEW h \in Half, NEW m, NEW k, Path(h, m, k), NEW z, z.sent = m.sent, Alike(m.x, z.x)
  PROVE  Path(h, z, k)
<1>1. PICK o, x, v, c, d : /\ o = Other(h) /\ x = m.x /\ v = z.x /\ c = chan[h] \o m.sent
                           /\ d = chan[o] /\ o \in Half
  BY DEF Other, Half
<1>2. PICK y : /\ y = q[o] /\ Counts(y) /\ Counts(x) /\ Stamps(c) /\ Link(x, y, c, 0)
               /\ Link(y, x, d, k) /\ Alike(x, v)
  BY <1>1 DEF PInv, Path
<1>3. Counts(v) /\ Further(x, y, v)
  BY <1>2, AlikeFurther
<1>4. Link(v, y, c, 0)
  BY <1>2, <1>3, LinkSender
<1>5. x.max <= v.max /\ v.known = x.known /\ v.seen = x.seen /\ v.mock = x.mock
  BY <1>2, <1>3 DEF Alike, Level, Further
<1>6. Link(y, v, d, k)
  BY <1>2, <1>3, <1>5, LinkReceiver
<1> QED
  BY <1>1, <1>2, <1>3, <1>4, <1>6 DEF Path

(* The packet of type t and number n that tells what z has no longer to.   *)
Utters(x, z, t, n) ==
  /\ Level(x, z)
  /\ "grow" \in x.pending => "grow" \in z.pending \/ t = "grow"
  /\ "tag" \in x.pending => "tag" \in z.pending \/ t = "d4rtag"
  /\ t = "grow" => n = x.max
  /\ t = "enqueue" => n <= x.max
  /\ t = "d4rtag" => n = x.tag

LEMMA AppendParts ==
  ASSUME NEW h \in Half, NEW s, Packets(h, s), NEW p, Packet(h, p)
  PROVE  /\ Len(Append(s, p)) = Len(s) + 1 /\ Append(s, p)[Len(s) + 1] = p
         /\ \A i \in 1 .. Len(s) : Append(s, p)[i] = s[i]
  BY SumAppend

LEMMA PathSend ==
  ASSUME IInv, PInv, NEW h \in Half, NEW m, NEW k, Path(h, m, k), Packets(h, m.sent),
         NEW z, IsStep(z), z.sent = m.sent, NEW t, NEW n \in Int, NEW g, NEW d,
         Utters(m.x, z.x, t, n),
         \A p : p.type = t /\ p.n = n /\ p.size = g /\ p.data = d => Packet(h, p)
  PROVE  Path(h, Send(z, t, n, g, d), k)
<1>1. PICK p : p = [type |-> t, n |-> n, size |-> g, data |-> d,
                    wait |-> z.x.waits, ack |-> z.x.known]
  OBVIOUS
<1>2. PICK s, w : s = Append(z.sent, p) /\ w = [z EXCEPT !.sent = s] /\ w = Send(z, t, n, g, d)
  BY <1>1 DEF Send
<1>3. w.x = z.x /\ w.sent = Append(m.sent, p)
  BY <1>2 DEF IsStep
<1>4. /\ p.type = t /\ p.n = n /\ p.size = g /\ p.data = d
      /\ p.wait = z.x.waits /\ p.ack = z.x.known
  BY <1>1
<1>5. Packet(h, p)
  BY <1>4
<1>6. PICK o, x, v, e : /\ o = Other(h) /\ x = m.x /\ v = z.x /\ e = chan[o] /\ o \in Half
  BY DEF Other, Half
<1>7. PICK c : /\ c = chan[h] \o m.sent /\ Packets(h, c)
               /\ chan[h] \o w.sent = Append(c, p)
  <2>1. AppendLast(h, chan[h], m.sent, p)
    BY <1>5, ConcatAppend DEF IInv, DInv
  <2> QED
    BY <1>3, <2>1 DEF AppendLast
<1>8. PICK y : /\ y = q[o] /\ Counts(y) /\ Counts(x) /\ Stamps(c) /\ Link(x, y, c, 0)
               /\ Link(y, x, e, k) /\ Utters(x, v, t, n)
  BY <1>6, <1>7 DEF PInv, Path
<1>9. PICK a : /\ a = Append(c, p) /\ Len(a) = Len(c) + 1 /\ a[Len(c) + 1] = p
               /\ \A i \in 1 .. Len(c) : a[i] = c[i]
  <2>1. Packets(h, c)
    BY <1>7
  <2>2. /\ Len(Append(c, p)) = Len(c) + 1 /\ Append(c, p)[Len(c) + 1] = p
        /\ \A i \in 1 .. Len(c) : Append(c, p)[i] = c[i]
    BY <1>5, <2>1, AppendParts
  <2> QED
    BY <2>2
<1>10. Speaks(x, v, p)
  BY <1>4, <1>6, <1>8 DEF Utters, Level, Speaks
<1>11. Link(v, y, a, 0) /\ Stamps(a)
  BY <1>8, <1>9, <1>10, LinkSent
<1>12. Counts(v) /\ x.max <= v.max /\ v.known = x.known /\ v.seen = x.seen /\ v.mock = x.mock
  BY <1>8 DEF Utters, Level, Counts
<1>13. Link(y, v, e, k)
  BY <1>8, <1>12, LinkReceiver
<1> QED
  BY <1>2, <1>3, <1>6, <1>7, <1>8, <1>9, <1>11, <1>12, <1>13 DEF Path

(* The action thread has been told of a growth that is still to be told.   *)
Asked(x) == "grow" \in x.pending /\ ~x.sentEnd => "action" \in x.pending
Still(x, z) ==
  /\ "grow" \in z.pending => "grow" \in x.pending
  /\ "action" \in x.pending => "action" \in z.pending
  /\ x.sentEnd => z.sentEnd
Walk(h, m, k) == Path(h, m, k) /\ Asked(m.x)

LEMMA StillAsked ==
  ASSUME NEW x, Asked(x), NEW z, Still(x, z)
  PROVE  Asked(z)
  BY DEF Asked, Still

LEMMA WalkAlike ==
  ASSUME PInv, NEW h \in Half, NEW m, NEW k, Walk(h, m, k), NEW z, z.sent = m.sent,
         Alike(m.x, z.x), Still(m.x, z.x)
  PROVE  Walk(h, z, k)
  BY PathAlike, StillAsked DEF Walk

LEMMA WalkSend ==
  ASSUME IInv, PInv, NEW h \in Half, NEW m, NEW k, Walk(h, m, k), Packets(h, m.sent),
         NEW z, IsStep(z), z.sent = m.sent, NEW t, NEW n \in Int, NEW g, NEW d,
         Utters(m.x, z.x, t, n), Still(m.x, z.x),
         \A p : p.type = t /\ p.n = n /\ p.size = g /\ p.data = d => Packet(h, p)
  PROVE  Walk(h, Send(z, t, n, g, d), k)
<1>1. Path(h, Send(z, t, n, g, d), k)
  BY PathSend DEF Walk
<1>2. Send(z, t, n, g, d).x = z.x
  BY DEF Send, IsStep
<1>3. Asked(z.x)
  BY StillAsked DEF Walk
<1> QED
  BY <1>1, <1>2, <1>3 DEF Walk

(* Packets without data.                                                   *)
LEMMA PlainPacket ==
  ASSUME NEW h \in Half, NEW t \in Types \ {"enqueue"}, NEW n \in Int, NEW g \in Int,
         t = "dequeue" => h = "read" /\ n \in Nat
  PROVE  \A p : p.type = t /\ p.n = n /\ p.size = g /\ p.data = <<>> => Packet(h, p)
<1>1. Len(<<>>) = 0
  OBVIOUS
<1> QED
  BY <1>1 DEF Packet

LEMMA SendGrowWalk ==
  ASSUME IInv, PInv, NEW h \in Half, NEW m, NEW k, Under(h, m, k), Path(h, m, k)
  PROVE  Walk(h, SendGrow(m), k)
<1>1. IsStep(m) /\ Packets(h, m.sent) /\ Good(h, m.x)
  BY DEF Under, Mid
<1>2. CASE ~("grow" \in m.x.pending /\ ~m.x.sentEnd)
  <2>1. SendGrow(m) = m /\ Asked(m.x)
    BY <1>2 DEF SendGrow, Asked
  <2> QED
    BY <2>1 DEF Walk
<1>3. CASE "grow" \in m.x.pending /\ ~m.x.sentEnd
  <2>1. PICK x, P, y : x = m.x /\ P = x.pending \ {"grow"} /\ y = [x EXCEPT !.pending = P]
    OBVIOUS
  <2>2. PICK z : z = [m EXCEPT !.x = y] /\ z = [m EXCEPT !.x.pending = @ \ {"grow"}]
    BY <1>1, <2>1 DEF IsStep
  <2>3. IsStep(z) /\ z.x = y /\ z.sent = m.sent
    BY <1>1, <2>2 DEF IsStep
  <2>4. Level(x, y) /\ y.pending = P
    BY <1>1, <2>1 DEF Level, InD4R, Good, IsHalf, Fields
  <2>5. PICK n \in Int, g \in Int : n = x.max /\ g = x.rlen + x.wlen
    <3>1. x.max \in Int /\ x.rlen \in Int /\ x.wlen \in Int
      BY <1>1, <2>1 DEF Good, Sizes
    <3> QED
      BY <3>1
  <2>6. Utters(x, y, "grow", n)
    BY <2>1, <2>4, <2>5 DEF Utters
  <2>7. \A p : p.type = "grow" /\ p.n = n /\ p.size = g /\ p.data = <<>> => Packet(h, p)
    BY PlainPacket DEF Types
  <2>8. PICK w : w = Send(z, "grow", n, g, <<>>) /\ Path(h, w, k)
    BY <1>1, <2>1, <2>3, <2>6, <2>7, PathSend
  <2>9. w.x = y /\ SendGrow(m) = w
    BY <1>3, <2>1, <2>2, <2>3, <2>5, <2>8 DEF SendGrow, Send, IsStep
  <2>10. Asked(y)
    BY <2>1, <2>4 DEF Asked
  <2> QED
    BY <2>8, <2>9, <2>10 DEF Walk
<1> QED
  BY <1>2, <1>3

LEMMA SendDequeueWalk ==
  ASSUME IInv, PInv, NEW m, NEW k, Under("read", m, k), Walk("read", m, k)
  PROVE  Walk("read", SendDequeue(m), k)
<1>1. IsStep(m) /\ Packets("read", m.sent) /\ Good("read", m.x) /\ "read" \in Half
  BY DEF Under, Mid, Half
<1>2. PICK x, n : x = m.x /\ n = x.bytes - Len(x.data) /\ n \in Int
  BY <1>1 DEF Good, Sizes
<1>3. CASE n > 0
  <2>1. PICK b, y : b = x.bytes - n /\ y = [x EXCEPT !.bytes = b]
    OBVIOUS
  <2>2. PICK z : z = [m EXCEPT !.x = y] /\ z = [m EXCEPT !.x.bytes = @ - n]
    BY <1>1, <1>2, <2>1 DEF IsStep
  <2>3. IsStep(z) /\ z.x = y /\ z.sent = m.sent
    BY <1>1, <2>2 DEF IsStep
  <2>4. Level(x, y) /\ y.pending = x.pending /\ y.sentEnd = x.sentEnd
    BY <1>1, <1>2, <2>1 DEF Level, InD4R, Good, IsHalf, Fields
  <2>5. Utters(x, y, "dequeue", n) /\ Still(x, y)
    BY <2>4 DEF Utters, Still
  <2>6. \A p : p.type = "dequeue" /\ p.n = n /\ p.size = 0 /\ p.data = <<>> => Packet("read", p)
    BY <1>1, <1>2, <1>3, PlainPacket DEF Types
  <2>7. Walk("read", Send(z, "dequeue", n, 0, <<>>), k)
    BY <1>1, <1>2, <2>3, <2>5, <2>6, WalkSend
  <2>8. SendDequeue(m) = Send(z, "dequeue", n, 0, <<>>)
    BY <1>2, <1>3, <2>2 DEF SendDequeue
  <2> QED
    BY <2>7, <2>8
<1>4. CASE ~(n > 0)
  BY <1>2, <1>4 DEF SendDequeue
<1> QED
  BY <1>3, <1>4

LEMMA SendBlockWalk ==
  ASSUME IInv, PInv, NEW h \in Half, NEW m, NEW k, Under(h, m, k), Walk(h, m, k)
  PROVE  Walk(h, SendBlock(h, m), k)
<1>1. IsStep(m) /\ Packets(h, m.sent) /\ Good(h, m.x)
  BY DEF Under, Mid
<1>2. PICK x, P, y : x = m.x /\ P = x.pending \ {"block"} /\ y = [x EXCEPT !.pending = P]
  OBVIOUS
<1>3. PICK z : z = [m EXCEPT !.x = y] /\ z = [m EXCEPT !.x.pending = @ \ {"block"}]
  BY <1>1, <1>2 DEF IsStep
<1>4. IsStep(z) /\ z.x = y /\ z.sent = m.sent
  BY <1>1, <1>3 DEF IsStep
<1>5. Level(x, y) /\ y.pending = P /\ y.sentEnd = x.sentEnd
  BY <1>1, <1>2 DEF Level, InD4R, Good, IsHalf, Fields
<1>6. Alike(x, y) /\ Still(x, y)
  BY <1>2, <1>5 DEF Alike, Still
<1>7. PICK n \in Int : n = x.req[h]
  BY <1>1, <1>2 DEF Good, Sizes, Half
<1>8. \A t \in {"readblock", "writeblock"} : Walk(h, Send(z, t, n, 0, <<>>), k)
  <2> SUFFICES ASSUME NEW t \in {"readblock", "writeblock"} PROVE Walk(h, Send(z, t, n, 0, <<>>), k)
    OBVIOUS
  <2>1. Utters(x, y, t, n)
    BY <1>6 DEF Utters, Alike
  <2>2. \A p : p.type = t /\ p.n = n /\ p.size = 0 /\ p.data = <<>> => Packet(h, p)
    <3>1. t \in Types \ {"enqueue"} /\ t # "dequeue" /\ 0 \in Int
      BY DEF Types
    <3> QED
      BY <3>1, PlainPacket
  <2> QED
    BY <1>1, <1>2, <1>4, <1>6, <2>1, <2>2, WalkSend
<1>9. Walk(h, z, k)
  BY <1>2, <1>4, <1>6, WalkAlike
<1>10. \/ SendBlock(h, m) = m
       \/ SendBlock(h, m) = z
       \/ SendBlock(h, m) = Send(z, "readblock", n, 0, <<>>)
       \/ SendBlock(h, m) = Send(z, "writeblock", n, 0, <<>>)
  BY <1>2, <1>3, <1>7 DEF SendBlock
<1> QED
  BY <1>8, <1>9, <1>10

LEMMA SendTagWalk ==
  ASSUME IInv, PInv, NEW h \in Half, NEW m, NEW k, Under(h, m, k), Walk(h, m, k)
  PROVE  Walk(h, SendTag(h, m), k)
<1>1. IsStep(m) /\ Packets(h, m.sent) /\ Good(h, m.x)
  BY DEF Under, Mid
<1>2. PICK x, P, y : x = m.x /\ P = x.pending \ {"tag"} /\ y = [x EXCEPT !.pending = P]
  OBVIOUS
<1>3. PICK z : z = [m EXCEPT !.x = y] /\ z = [m EXCEPT !.x.pending = @ \ {"tag"}]
  BY <1>1, <1>2 DEF IsStep
<1>4. IsStep(z) /\ z.x = y /\ z.sent = m.sent
  BY <1>1, <1>3 DEF IsStep
<1>5. Level(x, y) /\ y.pending = P /\ y.sentEnd = x.sentEnd
  BY <1>1, <1>2 DEF Level, InD4R, Good, IsHalf, Fields
<1>6. PICK n \in Int : n = x.tag
  BY <1>1, <1>2 DEF Good, Sizes
<1>7. Utters(x, y, "d4rtag", n) /\ Still(x, y)
  BY <1>2, <1>5, <1>6 DEF Utters, Still
<1>8. \A p : p.type = "d4rtag" /\ p.n = n /\ p.size = 0 /\ p.data = <<>> => Packet(h, p)
  BY PlainPacket DEF Types
<1>9. Walk(h, Send(z, "d4rtag", n, 0, <<>>), k)
  BY <1>1, <1>2, <1>4, <1>7, <1>8, WalkSend
<1>10. SendTag(h, m) = m \/ SendTag(h, m) = Send(z, "d4rtag", n, 0, <<>>)
  BY <1>2, <1>3, <1>6 DEF SendTag
<1> QED
  BY <1>9, <1>10

LEMMA SendEndWalk ==
  ASSUME IInv, PInv, NEW h \in Half, NEW m, NEW k, Under(h, m, k), Walk(h, m, k)
  PROVE  Walk(h, SendEnd(h, m), k)
<1>1. IsStep(m) /\ Packets(h, m.sent) /\ Good(h, m.x)
  BY DEF Under, Mid
<1>2. PICK x, y : x = m.x /\ y = [x EXCEPT !.sentEnd = TRUE]
  OBVIOUS
<1>3. PICK z : z = [m EXCEPT !.x = y] /\ z = [m EXCEPT !.x.sentEnd = TRUE]
  BY <1>1, <1>2 DEF IsStep
<1>4. IsStep(z) /\ z.x = y /\ z.sent = m.sent
  BY <1>1, <1>3 DEF IsStep
<1>5. Level(x, y) /\ y.pending = x.pending /\ y.sentEnd
  BY <1>1, <1>2 DEF Level, InD4R, Good, IsHalf, Fields
<1>6. EndOf(h) \in Types \ {"enqueue"} /\ EndOf(h) \notin {"grow", "enqueue", "d4rtag", "dequeue"}
  BY DEF EndOf, Types
<1>7. Utters(x, y, EndOf(h), 0) /\ Still(x, y)
  BY <1>5, <1>6 DEF Utters, Still
<1>8. \A p : p.type = EndOf(h) /\ p.n = 0 /\ p.size = 0 /\ p.data = <<>> => Packet(h, p)
  BY <1>6, PlainPacket
<1>9. Walk(h, Send(z, EndOf(h), 0, 0, <<>>), k)
  BY <1>1, <1>2, <1>4, <1>7, <1>8, WalkSend
<1>10. SendEnd(h, m) = m \/ SendEnd(h, m) = Send(z, EndOf(h), 0, 0, <<>>)
  BY <1>3 DEF SendEnd, EndOf
<1> QED
  BY <1>9, <1>10

LEMMA EndOutWalk ==
  ASSUME IInv, PInv, NEW h \in Half, NEW m, NEW k, Under(h, m, k), Walk(h, m, k)
  PROVE  Walk(h, EndOut(h, m), k)
  BY SendEndWalk DEF EndOut

LEMMA EndBackWalk ==
  ASSUME IInv, PInv, NEW h \in Half, NEW m, NEW k, Under(h, m, k), Walk(h, m, k)
  PROVE  Walk(h, EndBack(h, m), k)
<1>1. PICK g : g = SendEnd(h, m) /\ Walk(h, g, k) /\ IsStep(g) /\ IsHalf(g.x)
  <2>1. Under(h, SendEnd(h, m), k)
    BY SendEndUnder
  <2> QED
    BY <2>1, SendEndWalk DEF Under, Mid, Good
<1>2. PICK x, y : x = g.x /\ y = [x EXCEPT !.dead = TRUE]
  OBVIOUS
<1>3. PICK z : z = [g EXCEPT !.x = y, !.close = TRUE]
  OBVIOUS
<1>4. z.x = y /\ z.sent = g.sent
  BY <1>1, <1>3 DEF IsStep
<1>5. Level(x, y) /\ y.pending = x.pending /\ y.sentEnd = x.sentEnd
  BY <1>1, <1>2 DEF Level, InD4R, IsHalf, Fields
<1>6. Alike(x, y) /\ Still(x, y)
  BY <1>5 DEF Alike, Still
<1>7. Walk(h, z, k)
  BY <1>1, <1>2, <1>4, <1>6, WalkAlike
<1>8. EndBack(h, m) = m \/ EndBack(h, m) = z
  BY <1>1, <1>2, <1>3 DEF EndBack, IsStep
<1> QED
  BY <1>7, <1>8

LEMMA TickedWalk ==
  ASSUME PInv, NEW h \in Half, NEW m, NEW k, Under(h, m, k), Walk(h, m, k)
  PROVE  Walk(h, Ticked(m), k)
<1>1. IsStep(m) /\ IsHalf(m.x)
  BY DEF Under, Mid, Good
<1>2. PICK x, a, f : /\ x = m.x /\ a = (IF x.dead THEN "done" ELSE "wait")
                     /\ f = (IF x.fpc = "tick" THEN "poll" ELSE x.fpc)
  OBVIOUS
<1>3. PICK y : y = [x EXCEPT !.apc = a, !.term = FALSE, !.fpc = f]
  OBVIOUS
<1>4. Ticked(m) = [m EXCEPT !.x = y]
  BY <1>1, <1>2, <1>3 DEF Ticked, IsStep
<1>5. Level(x, y) /\ y.pending = x.pending /\ y.sentEnd = x.sentEnd
  BY <1>1, <1>2, <1>3, ZenonT(40) DEF Level, InD4R, IsHalf, Fields
<1>6. Alike(x, y) /\ Still(x, y)
  BY <1>5 DEF Alike, Still
<1>7. Ticked(m).x = y /\ Ticked(m).sent = m.sent
  BY <1>1, <1>4 DEF IsStep
<1> QED
  BY <1>2, <1>6, <1>7, WalkAlike

(* A packet of data is not larger than the largest threshold.              *)
LEMMA PortionBounded ==
  ASSUME NEW x, Good("write", x), MaySend(x)
  PROVE  Portion(x) <= x.max
<1>1. PICK d \in Nat, m \in Nat, r \in Int, b \in Int, w \in Nat :
        d = Len(x.data) /\ m = x.max /\ r = x.rlen /\ b = x.bytes /\ w = MaxWrite
  BY LengthAssumption DEF Good, Sizes
<1>2. PICK g \in Int, l \in Int : g = Larger(r, m) - b /\ l = (IF MaxWrite > 0 THEN MaxWrite ELSE d)
  BY <1>1 DEF Larger
<1>3. PICK u \in Int, v \in Int : u = Lesser(d, l) /\ v = Lesser(m, g) /\ v <= m
  BY <1>1, <1>2 DEF Lesser
<1>4. Portion(x) = Lesser(u, v)
  BY <1>1, <1>2, <1>3 DEF Portion
<1>5. Lesser(u, v) <= m
  BY <1>3 DEF Lesser
<1> QED
  BY <1>1, <1>4, <1>5

LEMMA SendEnqueueWalk ==
  ASSUME IInv, PInv, NEW m, NEW k, Under("write", m, k), Walk("write", m, k), MaySend(m.x)
  PROVE  Walk("write", SendEnqueue(m), k)
<1>1. IsStep(m) /\ Packets("write", m.sent) /\ Good("write", m.x) /\ "write" \in Half
  BY DEF Under, Mid, Half
<1>2. PICK x, n : x = m.x /\ n = Portion(x) /\ n \in Nat /\ n <= Len(x.data) /\ n <= x.max
  BY <1>1, PortionIs, PortionBounded
<1>3. PICK d : d = SubSeq(x.data, 1, n) /\ Len(d) = n
  <2>1. PICK u \in Nat : u = Len(x.data) /\ n <= u
    BY <1>1, <1>2 DEF Good, Sizes
  <2>2. Order(q["read"], x, chan["write"] \o m.sent, 0, out, written) /\ written \in Nat
    BY <1>2 DEF Under, Mid, DInv, IInv
  <2>3. PICK e \in Int : e = written - u /\ x.data = Run(e, u)
    BY <2>1, <2>2 DEF Order
  <2>4. n \in 0 .. u
    BY <1>2, <2>1
  <2>5. SubSeq(Run(e, u), 1, n) = Run(e, n) /\ Len(Run(e, n)) = n
    BY <2>4, RunParts, RunIs
  <2> QED
    BY <2>3, <2>5
<1>4. PICK I, y : I = x.inop \cup {"read"} /\ y = [x EXCEPT !.inop = I, !.win = d, !.apc = "send"]
  OBVIOUS
<1>5. PICK z : /\ z = [m EXCEPT !.x = y]
               /\ z = [m EXCEPT !.x.inop = @ \cup {"read"}, !.x.win = d, !.x.apc = "send"]
  BY <1>1, <1>2, <1>4 DEF IsStep
<1>6. IsStep(z) /\ z.x = y /\ z.sent = m.sent
  BY <1>1, <1>5 DEF IsStep
<1>7. Level(x, y) /\ y.pending = x.pending /\ y.sentEnd = x.sentEnd
  BY <1>1, <1>2, <1>4 DEF Level, InD4R, Good, IsHalf, Fields
<1>8. Utters(x, y, "enqueue", n) /\ Still(x, y)
  BY <1>2, <1>7 DEF Utters, Still
<1>9. \A p : p.type = "enqueue" /\ p.n = n /\ p.size = 0 /\ p.data = d => Packet("write", p)
  BY <1>2, <1>3 DEF Packet, Types
<1>10. n \in Int
  BY <1>2
<1>11. Walk("write", Send(z, "enqueue", n, 0, d), k)
  BY <1>1, <1>2, <1>6, <1>8, <1>9, <1>10, WalkSend
<1>12. SendEnqueue(m) = Send(z, "enqueue", n, 0, d)
  BY <1>2, <1>3, <1>5 DEF SendEnqueue
<1> QED
  BY <1>11, <1>12

---------------------------------------------------------------------------
(* The steps of the action thread.                                         *)

LEMMA PeerStep ==
  ASSUME IInv, PInv, NEW h \in Half, NEW o, o = Other(h), NEW x, q' = [q EXCEPT ![h] = x],
         Counts(x), Prodded(x), Stamps(chan'[h]), Stamps(chan'[o]),
         Link(x, q[o], chan'[h], 0), Link(q[o], x, chan'[o], 0)
  PROVE  PInv'
<1>1. o \in Half /\ Other(o) = h /\ o # h /\ Half = {h, o}
  BY DEF Other, Half
<1>2. q'[h] = x /\ q'[o] = q[o]
  <2>1. q = [g \in Half |-> q[g]]
    BY DEF IInv, DInv
  <2> QED
    BY <1>1, <2>1
<1>3. Counts(q[o]) /\ Prodded(q[o])
  BY <1>1 DEF PInv
<1>4. Counts(q'[h]) /\ Stamps(chan'[h]) /\ Prodded(q'[h]) /\ Link(q'[h], q'[Other(h)], chan'[h], 0)
  BY <1>2
<1>5. Counts(q'[o]) /\ Stamps(chan'[o]) /\ Prodded(q'[o]) /\ Link(q'[o], q'[Other(o)], chan'[o], 0)
  BY <1>1, <1>2, <1>3
<1> QED
  BY <1>1, <1>4, <1>5 DEF PInv

LEMMA ActPeers ==
  ASSUME IInv, PInv, NEW h \in Half, NEW m, NEW k, Path(h, m, k), Prodded(m.x),
         k \in 0 .. Len(chan[Other(h)]), Act(h, m, k)
  PROVE  PInv'
<1>1. PICK x, o : x = m.x /\ o = Other(h) /\ o \in Half /\ o # h
  BY DEF Other, Half
<1>2. PICK c, d : c = chan[h] \o m.sent /\ d = SubSeq(chan[o], k + 1, Len(chan[o]))
  OBVIOUS
<1>3. q' = [q EXCEPT ![h] = x] /\ chan' = [chan EXCEPT ![h] = c, ![o] = d]
  BY <1>1, <1>2 DEF Act, Set
<1>4. chan'[h] = c /\ chan'[o] = d
  <2>1. chan = [g \in Half |-> chan[g]]
    BY DEF IInv, DInv
  <2> QED
    BY <1>1, <1>3, <2>1
<1>5. PICK e : e = chan[o] /\ Packets(o, e) /\ Stamps(e) /\ k \in 0 .. Len(e)
  BY <1>1 DEF IInv, DInv, PInv
<1>6. Len(d) = Len(e) - k /\ \A i \in 1 .. Len(e) - k : d[i] = e[k + i]
  BY <1>1, <1>2, <1>5, SumParts
<1>7. Counts(x) /\ Stamps(c) /\ Link(x, q[o], c, 0) /\ Link(q[o], x, e, k)
  BY <1>1, <1>2, <1>5 DEF Path
<1>8. k \in Nat /\ k <= Len(e)
  BY <1>5 DEF Stamps
<1>9. Link(q[o], x, d, 0) /\ Stamps(d)
  BY <1>5, <1>6, <1>7, <1>8, LinkTail
<1> QED
  BY <1>1, <1>3, <1>4, <1>7, <1>9, PeerStep

LEMMA AskedProdded ==
  ASSUME NEW x, Asked(x)
  PROVE  Prodded(x)
  BY DEF Asked, Prodded

LEMMA StatusPeers ==
  ASSUME IInv, PInv, NEW h \in Half, NEW m, NEW k, Under(h, m, k), Walk(h, m, k), Status(h, m, k)
  PROVE  PInv'
<1>1. PICK a : a = (IF h = "read" /\ ~m.x.sentEnd THEN SendDequeue(m) ELSE m)
               /\ \E b \in {IF m.x.sentEnd THEN m ELSE SendBlock(h, a)} :
                  \E c \in {IF m.x.sentEnd THEN m ELSE SendTag(h, b)} :
                  \E d \in {EndOut(h, c)} :
                  \E e \in {EndBack(h, d)} : Act(h, Ticked(e), k)
  BY DEF Status
<1>2. PICK b : b = (IF m.x.sentEnd THEN m ELSE SendBlock(h, a))
               /\ \E c \in {IF m.x.sentEnd THEN m ELSE SendTag(h, b)} :
                  \E d \in {EndOut(h, c)} :
                  \E e \in {EndBack(h, d)} : Act(h, Ticked(e), k)
  BY <1>1
<1>3. PICK c, d, e : /\ c = (IF m.x.sentEnd THEN m ELSE SendTag(h, b))
                     /\ d = EndOut(h, c) /\ e = EndBack(h, d) /\ Act(h, Ticked(e), k)
  BY <1>2
<1>4. Under(h, a, k) /\ Walk(h, a, k) /\ (~m.x.sentEnd => ~a.x.sentEnd)
  BY <1>1, SendDequeueUnder, SendDequeueWalk
<1>5. Under(h, b, k) /\ Walk(h, b, k) /\ (~m.x.sentEnd => ~b.x.sentEnd)
  BY <1>2, <1>4, SendBlockUnder, SendBlockWalk
<1>6. Under(h, c, k) /\ Walk(h, c, k)
  BY <1>3, <1>5, SendTagUnder, SendTagWalk
<1>7. Under(h, d, k) /\ Walk(h, d, k)
  BY <1>3, <1>6, EndOutUnder, EndOutWalk
<1>8. Under(h, e, k) /\ Walk(h, e, k)
  BY <1>3, <1>7, EndBackUnder, EndBackWalk
<1>9. Under(h, Ticked(e), k) /\ Walk(h, Ticked(e), k)
  BY <1>8, TickedUnder, TickedWalk
<1>10. PICK z : z = Ticked(e) /\ Act(h, z, k) /\ Under(h, z, k) /\ Walk(h, z, k)
  BY <1>3, <1>9
<1>11. Path(h, z, k) /\ Prodded(z.x) /\ k \in 0 .. Len(chan[Other(h)])
  BY <1>10, AskedProdded DEF Under, Mid, Walk
<1> QED
  BY <1>10, <1>11, ActPeers

LEMMA FlushPeers ==
  ASSUME IInv, PInv, NEW m, NEW k, Under("write", m, k), Walk("write", m, k), Flush(m, k)
  PROVE  PInv'
<1>1. k \in 0 .. Len(chan[Other("write")]) /\ "write" \in Half
  BY DEF Under, Mid, Half
<1>2. CASE MaySend(m.x) /\ Act("write", SendEnqueue(m), k)
  <2>1. PICK z : z = SendEnqueue(m) /\ Act("write", z, k) /\ Walk("write", z, k)
    BY <1>2, SendEnqueueWalk
  <2>2. Path("write", z, k) /\ Prodded(z.x)
    BY <2>1, AskedProdded DEF Walk
  <2> QED
    BY <1>1, <2>1, <2>2, ActPeers
<1>3. CASE Act("write", Ticked(m), k)
  <2>1. PICK z : z = Ticked(m) /\ Act("write", z, k) /\ Walk("write", z, k)
    BY <1>1, <1>3, TickedWalk
  <2>2. Path("write", z, k) /\ Prodded(z.x)
    BY <2>1, AskedProdded DEF Walk
  <2> QED
    BY <1>1, <2>1, <2>2, ActPeers
<1>4. CASE Status("write", m, k)
  BY <1>1, <1>4, StatusPeers
<1> QED
  BY <1>2, <1>3, <1>4 DEF Flush

LEMMA AnswerPeers ==
  ASSUME IInv, PInv, NEW h \in Half, NEW m, NEW k, Under(h, m, k), Path(h, m, k), Answer(h, m, k)
  PROVE  PInv'
<1>1. PICK z : z = [m EXCEPT !.x.eof = @ \/ sock[Other(h)] # "open"]
               /\ \E g \in {SendGrow(z)} :
                  \E t \in {IF m.x.term /\ ~m.x.sentEnd THEN [g EXCEPT !.x = ShutEnd(g.x, h)] ELSE g} :
                    \/ h = "read" /\ Status(h, t, k)
                    \/ h = "write" /\ Flush(t, k)
  BY DEF Answer
<1>2. PICK g, t : /\ g = SendGrow(z)
                  /\ t = (IF m.x.term /\ ~m.x.sentEnd THEN [g EXCEPT !.x = ShutEnd(g.x, h)] ELSE g)
                  /\ \/ h = "read" /\ Status(h, t, k)
                     \/ h = "write" /\ Flush(t, k)
  BY <1>1
<1>3. Under(h, z, k) /\ Path(h, z, k)
  <2>1. PICK b, y : b = (m.x.eof \/ sock[Other(h)] # "open") /\ y = [m.x EXCEPT !.eof = b]
    OBVIOUS
  <2>2. z = [m EXCEPT !.x = y]
    BY <1>1, <2>1 DEF Under, IsStep
  <2>3. Same(h, m.x, y) /\ Firm(h, m.x, y) /\ Now(m, z, y)
    BY <2>1, <2>2, AsideSame DEF Under, Mid, IsStep, Now
  <2>4. Under(h, z, k)
    BY <2>3, NowUnder
  <2>5. Level(m.x, y) /\ y.pending = m.x.pending
    BY <2>1 DEF Under, Mid, Good, IsHalf, Fields, Level, InD4R
  <2>6. Path(h, z, k)
    BY <2>3, <2>5, PathAlike DEF Now, Alike
  <2> QED
    BY <2>4, <2>6
<1>4. Under(h, g, k) /\ Walk(h, g, k)
  BY <1>2, <1>3, SendGrowUnder, SendGrowWalk
<1>5. Under(h, t, k) /\ Walk(h, t, k)
  <2>1. PICK y, v : y = ShutEnd(g.x, h) /\ v = [g EXCEPT !.x = y]
    OBVIOUS
  <2>2. Same(h, g.x, y) /\ Firm(h, g.x, y)
    BY <1>4, <2>1, ShutSame, ShutCalm DEF Under, Mid, Good, Calm
  <2>3. Now(g, v, y)
    BY <1>4, <2>1 DEF Under, IsStep, Now
  <2>4. Under(h, v, k)
    BY <1>4, <2>2, <2>3, NowUnder
  <2>5. PICK x, S, P : x = g.x /\ IsHalf(x) /\ S = x.shut \cup {h} /\ P = x.pending \cup {"action"}
    BY <1>4 DEF Under, Mid, Good
  <2>6. y = [x EXCEPT !.shut = S, !.pending = P, !.asleep = FALSE]
    BY <2>1, <2>5 DEF ShutEnd, Signal, IsHalf, Fields
  <2>7. Level(x, y) /\ y.pending = P /\ y.sentEnd = x.sentEnd
    BY <2>5, <2>6 DEF Level, InD4R, IsHalf, Fields
  <2>8. Alike(x, y) /\ Still(x, y)
    BY <2>5, <2>7 DEF Alike, Still
  <2>9. Walk(h, v, k)
    BY <1>4, <2>3, <2>5, <2>8, WalkAlike DEF Now
  <2> QED
    BY <1>2, <1>4, <2>1, <2>4, <2>9
<1> QED
  BY <1>2, <1>5, StatusPeers, FlushPeers

---------------------------------------------------------------------------
(* The packets that are read.                                              *)

(* v is x with a larger buffer or the like.                                *)
Remains(x, v) ==
  /\ IsHalf(v) /\ v.known = x.known /\ v.seen = x.seen /\ v.mock = x.mock /\ v.waits = x.waits
  /\ v.tag = x.tag /\ v.sig = x.sig /\ v.pc = x.pc /\ v.args = x.args
  /\ v.pending = x.pending /\ v.sentEnd = x.sentEnd /\ v.apc = x.apc

LEMMA BufferMax ==
  ASSUME NEW x, IsHalf(x), x.max \in Int, NEW a, NEW b \in Int
  PROVE  Remains(x, GrowBuffer(x, a, b)) /\ GrowBuffer(x, a, b).max = Larger(x.max, b)
<1>1. PICK m, l : m = Larger(x.max, b) /\ l = Larger(Larger(x.len, a), m)
  OBVIOUS
<1>2. PICK v : v = [x EXCEPT !.max = m, !.len = l]
  OBVIOUS
<1>3. Remains(x, v) /\ v.max = m
  BY <1>2 DEF Remains, IsHalf, Fields
<1>4. Remains(x, x) /\ (b <= x.max => m = x.max)
  BY <1>1 DEF Remains, Larger
<1>5. GrowBuffer(x, a, b) = IF a <= x.len /\ b <= x.max THEN x ELSE v
  BY <1>1, <1>2 DEF GrowBuffer
<1> QED
  BY <1>1, <1>3, <1>4, <1>5

LEMMA ResizeMax ==
  ASSUME NEW h, NEW x, IsHalf(x), x.max \in Int, NEW a, NEW b \in Int
  PROVE  Remains(x, Resize(h, x, a, b)) /\ Resize(h, x, a, b).max = Larger(x.max, b)
<1>1. PICK m \in Int : m = Larger(x.max, b)
  BY DEF Larger
<1>2. PICK r, w, y, l : /\ r = QueueLength(a, m, "read") /\ w = QueueLength(a, m, "write")
                        /\ y = [x EXCEPT !.rlen = r, !.wlen = w]
                        /\ l = IF h = "read" THEN r ELSE w
  OBVIOUS
<1>3. Remains(x, y) /\ y.max = x.max
  BY <1>2 DEF Remains, IsHalf, Fields
<1>4. PICK v : v = GrowBuffer(y, l, m) /\ Remains(y, v) /\ v.max = Larger(y.max, m)
  BY <1>3, BufferMax DEF Remains
<1>5. Larger(x.max, m) = m
  BY <1>1 DEF Larger
<1>6. Resize(h, x, a, b) = v
  BY <1>1, <1>2, <1>4 DEF Resize
<1>7. Remains(x, v)
  BY <1>3, <1>4 DEF Remains
<1> QED
  BY <1>1, <1>3, <1>4, <1>5, <1>6, <1>7

(* v is x when it has read p.                                              *)
Heeds(x, p, v) ==
  /\ IsHalf(v) /\ v.known = p.wait /\ v.seen = p.ack
  /\ v.max = (IF p.type \in {"grow", "enqueue"} THEN Larger(x.max, p.n) ELSE x.max)
  /\ v.mock = (IF p.type = "d4rtag" THEN p.n ELSE x.mock)
  /\ v.waits = x.waits /\ v.tag = x.tag /\ v.sig = x.sig /\ v.pc = x.pc /\ v.args = x.args
  /\ x.pending \subseteq v.pending

LEMMA HandleHeeds ==
  ASSUME NEW h \in Half, NEW x, IsHalf(x), x.max \in Int, NEW p, p.type \in Types, p.n \in Int
  PROVE  Heeds(x, p, Handle(h, x, p))
<1> DEFINE Right == Heeds(x, p, Handle(h, x, p))
<1>1. PICK z : z = [x EXCEPT !.known = p.wait, !.seen = p.ack]
  OBVIOUS
<1>2. /\ IsHalf(z) /\ z.known = p.wait /\ z.seen = p.ack /\ z.max = x.max /\ z.mock = x.mock
      /\ z.waits = x.waits /\ z.tag = x.tag /\ z.sig = x.sig /\ z.pc = x.pc /\ z.args = x.args
      /\ z.pending = x.pending
  BY <1>1 DEF IsHalf, Fields
<1>3. ASSUME p.type = "enqueue" PROVE Right
  <2>1. PICK u : /\ u = (IF p.n > Free(z) \/ p.n > z.max THEN GrowBuffer(z, Len(z.data) + p.n, p.n)
                         ELSE z)
                 /\ Remains(z, u) /\ u.max = Larger(z.max, p.n)
    <3>1. Remains(z, z) /\ (~(p.n > z.max) => Larger(z.max, p.n) = z.max)
      BY <1>2 DEF Remains, Larger
    <3> QED
      BY <1>2, <3>1, BufferMax
  <2>2. PICK I, w : I = u.inop \cup {"write"} /\ w = p.data
    OBVIOUS
  <2>3. PICK y : y = [u EXCEPT !.inop = I, !.win = w, !.apc = "recv"]
    OBVIOUS
  <2>4. /\ IsHalf(y) /\ y.known = u.known /\ y.seen = u.seen /\ y.max = u.max /\ y.mock = u.mock
        /\ y.waits = u.waits /\ y.tag = u.tag /\ y.sig = u.sig /\ y.pc = u.pc /\ y.args = u.args
        /\ y.pending = u.pending
    BY <2>1, <2>3, ZenonT(40) DEF Remains, IsHalf, Fields
  <2>5. Handle(h, x, p) = y
    BY <1>1, <1>3, <2>1, <2>2, <2>3 DEF Handle, EnqueuePacket
  <2> QED
    BY <1>2, <1>3, <2>1, <2>4, <2>5 DEF Heeds, Remains
<1>4. ASSUME p.type = "dequeue" PROVE Right
  <2>1. PICK r, b : r = [z.req EXCEPT !["read"] = 0] /\ b = z.bytes - p.n
    OBVIOUS
  <2>2. PICK y : y = [z EXCEPT !.req = r, !.bytes = b]
    OBVIOUS
  <2>3. Remains(z, y) /\ y.max = z.max
    BY <1>2, <2>2 DEF Remains, IsHalf, Fields
  <2>4. Handle(h, x, p) = y
    BY <1>1, <1>4, <2>1, <2>2 DEF Handle, DequeuePacket
  <2> QED
    BY <1>2, <1>4, <2>3, <2>4 DEF Heeds, Remains
<1>5. ASSUME NEW r, NEW P, z.pending \subseteq P, Handle(h, x, p) = [z EXCEPT !.req = r, !.pending = P],
             p.type \in {"readblock", "writeblock"}
      PROVE  Right
  <2>1. PICK y : y = [z EXCEPT !.req = r, !.pending = P]
    OBVIOUS
  <2>2. /\ IsHalf(y) /\ y.known = z.known /\ y.seen = z.seen /\ y.max = z.max /\ y.mock = z.mock
        /\ y.waits = z.waits /\ y.tag = z.tag /\ y.sig = z.sig /\ y.pc = z.pc /\ y.args = z.args
        /\ y.pending = P
    BY <1>2, <2>1 DEF IsHalf, Fields
  <2> QED
    BY <1>2, <1>5, <2>1, <2>2 DEF Heeds
<1>6. ASSUME p.type = "readblock" PROVE Right
  <2>1. PICK r, P : /\ r = [z.req EXCEPT !["read"] = p.n]
                    /\ P = (IF p.n > Len(z.data) + z.bytes /\ UseD4R THEN z.pending \cup {"tag"}
                            ELSE z.pending)
    OBVIOUS
  <2>2. Handle(h, x, p) = [z EXCEPT !.req = r, !.pending = P]
    BY <1>1, <1>6, <2>1 DEF Handle, ReadBlockPacket
  <2>3. z.pending \subseteq P
    BY <2>1
  <2> QED
    BY <1>5, <1>6, <2>2, <2>3
<1>7. ASSUME p.type = "writeblock" PROVE Right
  <2>1. PICK r, P : /\ r = [z.req EXCEPT !["write"] = p.n]
                    /\ P = (IF p.n + Len(z.data) > z.rlen /\ UseD4R THEN z.pending \cup {"tag"}
                            ELSE z.pending)
    OBVIOUS
  <2>2. Handle(h, x, p) = [z EXCEPT !.req = r, !.pending = P]
    BY <1>1, <1>7, <2>1 DEF Handle, WriteBlockPacket
  <2>3. z.pending \subseteq P
    BY <2>1
  <2> QED
    BY <1>5, <1>7, <2>2, <2>3
<1>8. ASSUME p.type = "grow" PROVE Right
  <2>1. PICK y : y = Resize(h, z, p.size, p.n) /\ Remains(z, y) /\ y.max = Larger(z.max, p.n)
    BY <1>2, ResizeMax
  <2>2. Handle(h, x, p) = y
    BY <1>1, <1>8, <2>1 DEF Handle
  <2> QED
    BY <1>2, <1>8, <2>1, <2>2 DEF Heeds, Remains
<1>9. ASSUME p.type = "d4rtag" PROVE Right
  <2>1. PICK n, P : n = p.n /\ P = z.pending \cup {"action"}
    OBVIOUS
  <2>2. PICK y : y = [z EXCEPT !.tagUpdated = TRUE, !.mock = n, !.pending = P, !.asleep = FALSE]
    OBVIOUS
  <2>3. /\ IsHalf(y) /\ y.known = z.known /\ y.seen = z.seen /\ y.max = z.max /\ y.mock = n
        /\ y.waits = z.waits /\ y.tag = z.tag /\ y.sig = z.sig /\ y.pc = z.pc /\ y.args = z.args
        /\ y.pending = P
    BY <1>2, <2>2, ZenonT(40) DEF IsHalf, Fields
  <2>4. D4RTagPacket(z, p) = y
    BY <1>2, <2>1, <2>2 DEF D4RTagPacket, Signal, IsHalf, Fields
  <2>5. Handle(h, x, p) = y
    BY <1>1, <1>9, <2>4 DEF Handle
  <2> QED
    BY <1>2, <1>9, <2>1, <2>3, <2>5 DEF Heeds
<1>10. ASSUME NEW o \in Half, p.type = EndOf(o) PROVE Right
  <2>1. PICK S, P : S = z.shut \cup {o} /\ P = z.pending \cup {"action"}
    OBVIOUS
  <2>2. PICK y : y = [z EXCEPT !.shut = S, !.pending = P, !.asleep = FALSE]
    OBVIOUS
  <2>3. /\ IsHalf(y) /\ y.known = z.known /\ y.seen = z.seen /\ y.max = z.max /\ y.mock = z.mock
        /\ y.waits = z.waits /\ y.tag = z.tag /\ y.sig = z.sig /\ y.pc = z.pc /\ y.args = z.args
        /\ y.pending = P
    BY <1>2, <2>2 DEF IsHalf, Fields
  <2>4. ShutEnd(z, o) = y
    BY <1>2, <2>1, <2>2 DEF ShutEnd, Signal, IsHalf, Fields
  <2>5. Handle(h, x, p) = ShutEnd(z, o)
    <3>1. CASE o = "read"
      BY <1>1, <1>10, <3>1 DEF Handle, EndOf
    <3>2. CASE o = "write"
      BY <1>1, <1>10, <3>2 DEF Handle, EndOf
    <3> QED
      BY <3>1, <3>2 DEF Half
  <2>6. p.type \notin {"grow", "enqueue", "d4rtag"}
    BY <1>10 DEF EndOf
  <2> QED
    BY <1>2, <2>1, <2>3, <2>4, <2>5, <2>6 DEF Heeds
<1>11. p.type \in {"endofread", "endofwrite"} => Right
  BY <1>10 DEF EndOf, Half
<1> HIDE DEF Right
<1>12. Right
  BY <1>3, <1>4, <1>6, <1>7, <1>8, <1>9, <1>11 DEF Types
<1> QED
  BY <1>12 DEF Right

LEMMA ReceivePath ==
  ASSUME IInv, PInv, NEW h \in Half, NEW m, NEW k, Reached(h, m, k), m.x.apc # "recv",
         Path(h, m, k), NEW p, Taken(h, k, p), NEW n, n = Receive(h, m, p)
  PROVE  Path(h, n, k + 1)
<1>1. PICK o, e, w : o = Other(h) /\ o \in Half /\ e = chan[o] /\ w = q[o] /\ Counts(w) /\ Stamps(e)
  BY DEF Other, Half, PInv
<1>2. Packet(o, p) /\ k \in Nat /\ k < Len(e) /\ p = e[k + 1] /\ Len(e) \in Nat
  BY <1>1, TakenIs DEF IInv, Taken, Packets, DInv
<1>3. k + 1 \in 1 .. Len(e)
  BY <1>2
<1>4. p.n \in Int /\ p.wait \in Nat /\ p.ack \in Nat /\ p.type \in Types
  BY <1>1, <1>2, <1>3 DEF Stamps, Packet
<1>5. PICK x, c : /\ x = m.x /\ c = chan[h] \o m.sent /\ Counts(x) /\ IsHalf(x) /\ Stamps(c)
                  /\ Link(x, w, c, 0) /\ Link(w, x, e, k)
  BY <1>1 DEF Path, Reached, Mid, Good
<1>6. PICK y : y = Handle(h, x, p) /\ n.x = y /\ n.sent = m.sent /\ Heeds(x, p, y)
  <2>1. IsStep(m) /\ Mid(h, m.x, k, m.sent) /\ Due(h, m.x, k, m.sent) /\ m.fails = {}
        /\ m.x.apc # "send" /\ m.x.apc # "recv"
    BY DEF Reached
  <2>2. /\ IsStep(n) /\ n.x = Handle(h, m.x, p) /\ n.sent = m.sent /\ n.close = m.close
        /\ Mid(h, n.x, k + 1, n.sent) /\ Due(h, n.x, k + 1, n.sent) /\ n.fails = {}
        /\ n.x.apc # "send" /\ (p.type # "enqueue" => n.x.apc # "recv")
    BY <2>1, ReceiveStep, SMTT(90)
  <2>3. Heeds(x, p, Handle(h, x, p))
    BY <1>4, <1>5, HandleHeeds DEF Counts
  <2> QED
    BY <1>5, <2>2, <2>3
<1>7. p.type \in {"grow", "enqueue"} => p.n <= w.max
  BY <1>2, <1>3, <1>5 DEF Link, Bounded
<1>8. Counts(y) /\ x.max <= y.max /\ (p.type = "grow" => y.max >= p.n)
      /\ (y.max = x.max \/ y.max <= w.max)
  <2>1. PICK a \in Nat, b \in Int, d \in Nat : a = x.max /\ b = p.n /\ d = w.max
    BY <1>1, <1>4, <1>5 DEF Counts
  <2>2. y.max \in Nat /\ a <= y.max /\ (p.type = "grow" => y.max >= b) /\ (y.max = a \/ y.max <= d)
    BY <1>6, <1>7, <2>1 DEF Heeds, Larger
  <2>3. y.waits \in Nat /\ y.known \in Nat /\ y.seen \in Nat
    BY <1>4, <1>5, <1>6 DEF Heeds, Counts
  <2> QED
    BY <2>1, <2>2, <2>3 DEF Counts
<1>9. Learns(x, p, y)
  BY <1>6, <1>8 DEF Learns, Heeds
<1>10. Link(w, y, e, k + 1) /\ x.known <= y.known
  BY <1>1, <1>2, <1>5, <1>8, <1>9, LinkTaken
<1>11. Further(x, w, y)
  <2>1. x.waits <= x.waits
    BY <1>5 DEF Counts
  <2> QED
    BY <1>6, <1>8, <1>10, <2>1 DEF Heeds, Further, InD4R
<1>12. Link(y, w, c, 0)
  BY <1>1, <1>5, <1>8, <1>11, LinkSender
<1> QED
  BY <1>1, <1>5, <1>6, <1>8, <1>10, <1>12 DEF Path

LEMMA ReadPeers ==
  ASSUME IInv, PInv, NEW h \in Half, NEW x, Mid(h, x, 0, <<>>), Due(h, x, 0, <<>>), x.apc # "send",
         x.apc # "recv", Path(h, Started(x), 0), Read(h, x)
  PROVE  PInv'
<1>1. PICK n, m : /\ Reads(h, x, n, m)
                  /\ \/ m.x.apc = "recv" /\ Act(h, m, n)
                     \/ m.x.apc # "recv" /\ Answer(h, m, n)
  BY DEF Read, Reads
<1>2. PICK f : Reached(h, m, n) /\ Handled(h, f, n) /\ f[0] = Started(x) /\ f[n] = m
  BY <1>1, ReceivedIs
<1>3. PICK c : c = chan[Other(h)] /\ Packets(Other(h), c) /\ Other(h) \in Half /\ Len(c) \in Nat
  BY DEF IInv, DInv, Packets, Half, Other
<1>4. n \in 0 .. Len(c) /\ n \in Nat
  BY <1>1, <1>3, UptoIs DEF Reads
<1>5. PICK T : T = {i \in 0 .. n : Path(h, f[i], i)}
  OBVIOUS
<1>6. 0 \in T
  BY <1>2, <1>4, <1>5
<1>7. \A i \in 1 .. n : i - 1 \in T => i \in T
  <2> SUFFICES ASSUME NEW i \in 1 .. n, i - 1 \in T PROVE i \in T
    OBVIOUS
  <2>1. PICK j \in Nat : j = i - 1 /\ j + 1 = i /\ j < Len(c) /\ i \in 0 .. n
    BY <1>3, <1>4
  <2>2. PICK u, v, p : /\ u = f[j] /\ v = f[i] /\ p = c[i] /\ v = Receive(h, u, p)
                       /\ Reached(h, u, j) /\ u.x.apc # "recv"
    BY <1>2, <1>3, <2>1 DEF Handled
  <2>3. Path(h, u, j) /\ Taken(h, j, p)
    BY <1>3, <1>5, <2>1, <2>2 DEF Taken
  <2>4. Path(h, v, j + 1)
    BY <2>2, <2>3, ReceivePath
  <2> QED
    BY <1>5, <2>1, <2>2, <2>4
<1>8. n \in T
  <2>1. \A i \in 0 .. n : i \in T
    BY <1>4, <1>6, <1>7, Positions
  <2> QED
    BY <1>4, <2>1
<1>9. Path(h, m, n)
  BY <1>2, <1>5, <1>8
<1>10. IsStep(m) /\ Mid(h, m.x, n, m.sent) /\ Due(h, m.x, n, m.sent) /\ m.fails = {}
      /\ m.x.apc # "send"
  BY <1>2 DEF Reached
<1>11. CASE m.x.apc = "recv" /\ Act(h, m, n)
  <2>1. Prodded(m.x)
    BY <1>11 DEF Prodded
  <2> QED
    BY <1>3, <1>4, <1>9, <1>11, <2>1, ActPeers
<1>12. CASE m.x.apc # "recv" /\ Answer(h, m, n)
  <2>1. Under(h, m, n)
    BY <1>10, <1>12 DEF Under
  <2> QED
    BY <1>9, <1>12, <2>1, AnswerPeers
<1> QED
  BY <1>1, <1>11, <1>12

---------------------------------------------------------------------------
(* The steps of the action thread that read, and those that follow them.   *)

LEMMA PathStart ==
  ASSUME IInv, PInv, NEW h \in Half, NEW x, Alike(q[h], x)
  PROVE  Path(h, Started(x), 0)
<1>1. PICK o, m : o = Other(h) /\ o \in Half /\ Other(o) = h /\ m = Started(q[h])
  BY DEF Other, Half
<1>2. m.x = q[h] /\ m.sent = <<>> /\ Started(x).x = x /\ Started(x).sent = <<>>
  BY <1>1, StartedIs
<1>3. chan[h] \o m.sent = chan[h]
  BY <1>2, NoneYet DEF IInv, DInv
<1>4. /\ Counts(q[h]) /\ Stamps(chan[h]) /\ Link(q[h], q[o], chan[h], 0)
      /\ Link(q[o], q[h], chan[o], 0)
  BY <1>1 DEF PInv
<1>5. Path(h, m, 0)
  BY <1>1, <1>2, <1>3, <1>4 DEF Path
<1> QED
  BY <1>2, <1>5, PathAlike

LEMMA NotifyAlike ==
  ASSUME NEW x, NEW y, Level(x, y), y.pending = x.pending, NEW h, NEW d, NEW z, z = Notify(h, y, d)
  PROVE  Alike(x, z) /\ z.pending = x.pending
<1>1. PICK v : v = [y EXCEPT !.asleep = FALSE]
  OBVIOUS
<1>2. Level(y, v) /\ v.pending = y.pending
  BY <1>1 DEF Level, InD4R, IsHalf, Fields
<1>3. z = y \/ z = v
  BY <1>1 DEF Notify
<1>4. Level(x, v)
  BY <1>2 DEF Level
<1> QED
  BY <1>2, <1>3, <1>4 DEF Alike

LEMMA ReadDataPeers ==
  ASSUME IInv, PInv, NEW h \in Half, ReadData(h)
  PROVE  PInv'
<1>1. q[h].apc = "recv" /\ Read(h, Notify(h, Longer(q[h]), "read"))
  BY DEF ReadData, Longer
<1>2. h = "read" /\ DInv /\ IsHalf(q[h])
  BY <1>1 DEF DInv, IInv, Half, Good, WriteGood
<1>3. PICK y : y = Longer(q["read"]) /\ Mid("read", y, 0, <<>>) /\ y.apc = "read"
               /\ Firm("read", q["read"], y) /\ IsHalf(y)
  BY <1>1, <1>2, MidArrived, WindowFirm
<1>4. PICK z : z = Notify("read", y, "read") /\ Same("read", y, z) /\ Steady(y, z)
  BY <1>3, NotifySame, SignalSteady DEF Mid, Half
<1>5. Mid("read", z, 0, <<>>) /\ z.apc # "send" /\ z.apc # "recv"
  BY <1>3, <1>4, MidSame DEF Same, Half
<1>6. Due("read", z, 0, <<>>)
  <2>1. Firm("read", y, z)
    BY <1>4, SteadyFirm
  <2> QED
    BY <1>2, <1>3, <2>1, DueStart, DueFirm
<1>7. Level(q["read"], y) /\ y.pending = q["read"].pending
  <2>1. PICK x, I, d, b, r : /\ x = q["read"] /\ IsHalf(x) /\ I = x.inop \ {"write"}
                             /\ d = x.data \o x.win /\ b = x.bytes + Len(x.win)
                             /\ r = [x.req EXCEPT !["write"] = 0]
    BY <1>2
  <2>2. y = [x EXCEPT !.inop = I, !.data = d, !.bytes = b, !.win = <<>>, !.req = r, !.apc = "read"]
    BY <1>3, <2>1 DEF Longer
  <2>3. /\ y.max = x.max /\ y.waits = x.waits /\ y.known = x.known /\ y.seen = x.seen
        /\ y.tag = x.tag /\ y.mock = x.mock
    BY <2>1, <2>2 DEF IsHalf, Fields
  <2>4. y.sig = x.sig /\ y.pc = x.pc /\ y.args = x.args /\ y.pending = x.pending
    BY <2>1, <2>2 DEF IsHalf, Fields
  <2> QED
    BY <1>3, <2>1, <2>3, <2>4 DEF Level, InD4R
<1>8. Alike(q["read"], z)
  BY <1>3, <1>4, <1>7, NotifyAlike
<1> QED
  BY <1>1, <1>2, <1>3, <1>4, <1>5, <1>6, <1>8, PathStart, ReadPeers

LEMMA SentDataPeers ==
  ASSUME IInv, PInv, NEW h \in Half, SentData(h)
  PROVE  PInv'
<1>1. q[h].apc = "send" /\ Flush(Started(Notify(h, Shorter(q[h]), "write")), 0)
  BY DEF SentData, Shorter
<1>2. h = "write" /\ DInv /\ IsHalf(q[h])
  BY <1>1 DEF DInv, IInv, Half, Good, ReadGood
<1>3. PICK y : y = Shorter(q["write"]) /\ Mid("write", y, 0, <<>>) /\ y.apc = "read"
               /\ Firm("write", q["write"], y) /\ IsHalf(y)
  BY <1>1, <1>2, MidSent, WindowFirm
<1>4. PICK z : z = Notify("write", y, "write") /\ Same("write", y, z) /\ Steady(y, z)
  BY <1>3, NotifySame, SignalSteady DEF Mid, Half
<1>5. Mid("write", z, 0, <<>>) /\ z.apc # "send" /\ z.apc # "recv"
  BY <1>3, <1>4, MidSame DEF Same, Half
<1>6. Due("write", z, 0, <<>>)
  <2>1. Firm("write", y, z)
    BY <1>4, SteadyFirm
  <2> QED
    BY <1>2, <1>3, <2>1, DueStart, DueFirm
<1>7. Under("write", Started(z), 0)
  BY <1>5, <1>6, StartedIs DEF Under
<1>8. Level(q["write"], y) /\ y.pending = q["write"].pending /\ y.sentEnd = q["write"].sentEnd
  <2>1. PICK x, J, e, b : /\ x = q["write"] /\ IsHalf(x) /\ J = x.inop \ {"read"}
                          /\ e = SubSeq(x.data, Len(x.win) + 1, Len(x.data))
                          /\ b = x.bytes + Len(x.win)
    BY <1>2
  <2>2. y = [x EXCEPT !.inop = J, !.win = <<>>, !.bytes = b, !.data = e, !.apc = "read"]
    BY <1>3, <2>1 DEF Shorter
  <2>3. /\ y.max = x.max /\ y.waits = x.waits /\ y.known = x.known /\ y.seen = x.seen
        /\ y.tag = x.tag /\ y.mock = x.mock
    BY <2>1, <2>2 DEF IsHalf, Fields
  <2>4. /\ y.sig = x.sig /\ y.pc = x.pc /\ y.args = x.args /\ y.pending = x.pending
        /\ y.sentEnd = x.sentEnd
    BY <2>1, <2>2 DEF IsHalf, Fields
  <2> QED
    BY <1>3, <2>1, <2>3, <2>4 DEF Level, InD4R
<1>9. Alike(q["write"], z) /\ z.pending = q["write"].pending /\ z.sentEnd = q["write"].sentEnd
  BY <1>3, <1>4, <1>8, NotifyAlike DEF Steady
<1>10. Asked(z)
  <2>1. Prodded(q["write"])
    BY DEF PInv, Half
  <2> QED
    BY <1>1, <1>2, <1>9, <2>1 DEF Prodded, Asked
<1>11. Walk("write", Started(z), 0)
  BY <1>2, <1>9, <1>10, PathStart, StartedIs DEF Walk
<1> QED
  BY <1>1, <1>2, <1>3, <1>4, <1>7, <1>11, FlushPeers

---------------------------------------------------------------------------
(* The steps of the node, the file thread and the kernel.  What is to be   *)
(* told stays to be told, and the action thread knows.                     *)
Ahead(x, z) ==
  /\ IsHalf(z) /\ z.max \in Int /\ x.max <= z.max /\ (z.max = x.max \/ "grow" \in z.pending)
  /\ "grow" \in x.pending => "grow" \in z.pending
  /\ "tag" \in x.pending => "tag" \in z.pending
  /\ "action" \in x.pending => "action" \in z.pending \/ z.apc = "done"
  /\ "grow" \in z.pending => "grow" \in x.pending \/ "action" \in z.pending \/ z.apc = "done"
  /\ z.known = x.known /\ z.seen = x.seen /\ z.mock = x.mock /\ z.sentEnd = x.sentEnd
  /\ z.apc = x.apc \/ z.apc = "done"
  /\ z.tag = x.tag \/ z.sig \/ "tag" \in z.pending
  /\ x.sig => z.sig \/ "tag" \in z.pending

(* The clock, which a wait in D4R leaves alone.  Timed: such a wait has    *)
(* begun with the peer's knowledge.                                        *)
Paused(x, z) == z.waits = x.waits /\ (InD4R(z) => InD4R(x))
Timed(x, z) ==
  /\ z.waits \in Nat /\ x.waits <= z.waits
  /\ InD4R(z) => z.waits = x.waits /\ (InD4R(x) \/ x.seen = x.waits)

LEMMA AheadTwice ==
  ASSUME NEW x, x.max \in Int, NEW y, Ahead(x, y), NEW z, Ahead(y, z)
  PROVE  Ahead(x, z)
<1>1. PICK a \in Int, b \in Int, c \in Int : a = x.max /\ b = y.max /\ c = z.max
  BY DEF Ahead
<1>2. a <= b /\ b <= c /\ a <= c
  BY <1>1 DEF Ahead
<1>3. x.max <= z.max /\ z.max \in Int
  BY <1>1, <1>2
<1> QED
  BY <1>3, Zenon DEF Ahead

LEMMA PausedTwice ==
  ASSUME NEW x, NEW y, Paused(x, y), NEW z, Paused(y, z)
  PROVE  Paused(x, z)
  BY DEF Paused

LEMMA PausedTimed ==
  ASSUME NEW x, x.waits \in Nat, NEW z, Paused(x, z)
  PROVE  Timed(x, z)
  BY DEF Paused, Timed

(* Nothing the peer is to know of is changed.                              *)
Plain(x, z) ==
  /\ IsHalf(z) /\ z.max = x.max /\ z.pending = x.pending /\ z.known = x.known /\ z.seen = x.seen
  /\ z.mock = x.mock /\ z.sentEnd = x.sentEnd /\ z.apc = x.apc /\ z.tag = x.tag /\ z.sig = x.sig
  /\ z.waits = x.waits

LEMMA PlainAhead ==
  ASSUME NEW x, x.max \in Int, NEW z, Plain(x, z)
  PROVE  Ahead(x, z)
<1>1. x.max <= x.max
  OBVIOUS
<1> QED
  BY <1>1, Zenon DEF Plain, Ahead

LEMMA SignalAhead ==
  ASSUME NEW x, IsHalf(x), x.max \in Int
  PROVE  /\ Ahead(x, Signal(x)) /\ Paused(x, Signal(x)) /\ Signal(x).pc = x.pc
         /\ Signal(x).pending = x.pending \cup {"action"} /\ Signal(x).dead = x.dead
         /\ Signal(x).max = x.max
<1>1. PICK P, y : P = x.pending \cup {"action"} /\ y = [x EXCEPT !.pending = P, !.asleep = FALSE]
  OBVIOUS
<1>2. /\ IsHalf(y) /\ y.max = x.max /\ y.pending = P /\ y.known = x.known /\ y.seen = x.seen
      /\ y.mock = x.mock /\ y.sentEnd = x.sentEnd /\ y.apc = x.apc /\ y.tag = x.tag
      /\ y.sig = x.sig /\ y.waits = x.waits /\ y.pc = x.pc /\ y.args = x.args /\ y.dead = x.dead
  BY <1>1 DEF IsHalf, Fields
<1>3. x.max <= x.max
  OBVIOUS
<1>4. Ahead(x, y) /\ Paused(x, y)
  BY <1>1, <1>2, <1>3 DEF Ahead, Paused, InD4R
<1>5. Signal(x) = y
  BY <1>1 DEF Signal
<1> QED
  BY <1>1, <1>2, <1>4, <1>5

(* A growth is to be told, and the action thread is told.                  *)
LEMMA GrowthAhead ==
  ASSUME NEW x, IsHalf(x), x.max \in Int, NEW h, NEW a, NEW b \in Int, NEW y,
         IsHalf(y), y.max = Resize(h, x, a, b).max, y.pending = x.pending \cup {"grow"},
         y.known = x.known, y.seen = x.seen, y.mock = x.mock, y.sentEnd = x.sentEnd,
         y.apc = x.apc, y.tag = x.tag, y.sig = x.sig
  PROVE  Ahead(x, Signal(y)) /\ Paused(y, Signal(y))
<1>1. y.max = Larger(x.max, b)
  BY ResizeMax
<1>2. y.max \in Int /\ x.max <= y.max
  BY <1>1 DEF Larger
<1>3. PICK z : /\ z = Signal(y) /\ Ahead(y, z) /\ Paused(y, z)
               /\ z.pending = y.pending \cup {"action"} /\ z.max = y.max
  BY <1>2, SignalAhead
<1>4. Ahead(x, z)
  BY <1>2, <1>3 DEF Ahead
<1> QED
  BY <1>3, <1>4

LEMMA UnlockedGrowAhead ==
  ASSUME NEW x, IsHalf(x), x.max \in Int, NEW h, NEW a, NEW b \in Int
  PROVE  Ahead(x, UnlockedGrow(h, x, a, b)) /\ Paused(x, UnlockedGrow(h, x, a, b))
<1>1. PICK y : y = Signal(x) /\ Ahead(x, y) /\ Paused(x, y) /\ IsHalf(y)
  BY SignalAhead DEF Ahead
<1>2. PICK r, z : r = <<a, b, x.pc>> /\ z = [y EXCEPT !.pc = "growwait", !.locked = FALSE, !.args = r]
  OBVIOUS
<1>3. Ahead(x, z) /\ Paused(x, z)
  <2>1. Plain(y, z) /\ z.pc = "growwait" /\ z.args = r
    BY <1>1, <1>2, ZenonT(40) DEF Plain, IsHalf, Fields
  <2>2. Ahead(x, z)
    BY <1>1, <2>1, PlainAhead, AheadTwice DEF Ahead
  <2>3. Paused(x, z)
    BY <1>1, <1>2, <2>1 DEF Paused, Plain, InD4R
  <2> QED
    BY <2>2, <2>3, SMTT(30)
<1>4. PICK u : u = Resize(h, x, a, b) /\ Remains(x, u)
  BY ResizeMax
<1>5. PICK P, v : P = u.pending \cup {"grow"} /\ v = [u EXCEPT !.pending = P]
  OBVIOUS
<1>6. /\ IsHalf(v) /\ v.max = u.max /\ v.pending = P /\ v.known = u.known /\ v.seen = u.seen
      /\ v.mock = u.mock /\ v.sentEnd = u.sentEnd /\ v.apc = u.apc /\ v.tag = u.tag
      /\ v.sig = u.sig /\ v.waits = u.waits /\ v.pc = u.pc /\ v.args = u.args
  BY <1>4, <1>5 DEF Remains, IsHalf, Fields
<1>7. Ahead(x, Signal(v)) /\ Paused(v, Signal(v))
  <2>1. /\ u.pending = x.pending /\ u.known = x.known /\ u.seen = x.seen /\ u.mock = x.mock
        /\ u.sentEnd = x.sentEnd /\ u.apc = x.apc /\ u.tag = x.tag /\ u.sig = x.sig
    BY <1>4 DEF Remains
  <2>2. /\ IsHalf(v) /\ v.max = Resize(h, x, a, b).max /\ v.pending = x.pending \cup {"grow"}
        /\ v.known = x.known /\ v.seen = x.seen /\ v.mock = x.mock /\ v.sentEnd = x.sentEnd
        /\ v.apc = x.apc /\ v.tag = x.tag /\ v.sig = x.sig
    BY <1>4, <1>5, <1>6, <2>1
  <2> QED
    BY <2>2, GrowthAhead
<1>8. Paused(x, Signal(v))
  <2>1. Paused(x, v)
    BY <1>4, <1>6 DEF Remains, Paused, InD4R
  <2> QED
    BY <1>7, <2>1, PausedTwice
<1>9. Ahead(x, x) /\ Paused(x, x)
  <2>1. Plain(x, x)
    BY DEF Plain
  <2> QED
    BY <2>1, PlainAhead DEF Paused
<1>10. \/ UnlockedGrow(h, x, a, b) = x
       \/ UnlockedGrow(h, x, a, b) = z
       \/ UnlockedGrow(h, x, a, b) = Signal(v)
  BY <1>1, <1>2, <1>4, <1>5 DEF UnlockedGrow
<1> QED
  BY <1>3, <1>7, <1>8, <1>9, <1>10

LEMMA WaitingAhead ==
  ASSUME NEW h \in Half, NEW x, IsHalf(x), x.max \in Int
  PROVE  Ahead(x, Waiting(h, x)) /\ Waiting(h, x).waits = x.waits + 1 /\ Waiting(h, x).pc = "tagwait"
<1>1. PICK P, y : P = x.pending \cup {"block"} /\ y = [x EXCEPT !.pending = P]
  OBVIOUS
<1>2. /\ IsHalf(y) /\ y.max = x.max /\ y.pending = P /\ y.known = x.known /\ y.seen = x.seen
      /\ y.mock = x.mock /\ y.sentEnd = x.sentEnd /\ y.apc = x.apc /\ y.tag = x.tag
      /\ y.sig = x.sig /\ y.waits = x.waits
  BY <1>1 DEF IsHalf, Fields
<1>3. Ahead(x, y)
  <2>1. x.max <= x.max
    OBVIOUS
  <2> QED
    BY <1>1, <1>2, <2>1 DEF Ahead
<1>4. PICK u : u = Signal(y) /\ Ahead(y, u) /\ Paused(y, u) /\ IsHalf(u) /\ u.max \in Int
  BY <1>2, SignalAhead DEF Ahead
<1>5. PICK r, n : r = [u.req EXCEPT ![h] = x.want] /\ n = u.waits + 1
  OBVIOUS
<1>6. PICK z : z = [u EXCEPT !.req = r, !.tagUpdated = FALSE, !.waits = n, !.pc = "tagwait",
                             !.asleep = TRUE]
  OBVIOUS
<1>7. /\ z.max = u.max /\ z.pending = u.pending /\ z.known = u.known /\ z.seen = u.seen
      /\ z.mock = u.mock /\ z.sentEnd = u.sentEnd
  BY <1>4, <1>6 DEF IsHalf, Fields
<1>8. z.apc = u.apc /\ z.tag = u.tag /\ z.sig = u.sig /\ z.waits = n /\ z.pc = "tagwait"
  BY <1>4, <1>6 DEF IsHalf, Fields
<1>9. IsHalf(z)
  BY <1>4, <1>6, Zenon DEF IsHalf
<1>10. Ahead(u, z)
  <2>1. u.max <= u.max
    BY <1>4
  <2> QED
    BY <1>4, <1>7, <1>8, <1>9, <2>1 DEF Ahead
<1>11. Ahead(x, z)
  BY <1>2, <1>3, <1>4, <1>10, AheadTwice
<1>12. Waiting(h, x) = z
  BY <1>1, <1>4, <1>5, <1>6 DEF Waiting
<1> QED
  BY <1>2, <1>4, <1>5, <1>8, <1>11, <1>12 DEF Paused

(* A step that leaves the channels alone.                                  *)
Moves(h) ==
  /\ \E z : Ahead(q[h], z) /\ Timed(q[h], z) /\ q' = [q EXCEPT ![h] = z]
  /\ UNCHANGED chan

LEMMA MovesPeers ==
  ASSUME IInv, PInv, NEW h \in Half, Moves(h)
  PROVE  PInv'
<1>1. PICK x, o : x = q[h] /\ o = Other(h) /\ o \in Half /\ Other(o) = h
  BY DEF Other, Half
<1>2. PICK z : Ahead(x, z) /\ Timed(x, z) /\ q' = [q EXCEPT ![h] = z] /\ UNCHANGED chan
  BY <1>1 DEF Moves
<1>3. PICK y, c, d : /\ y = q[o] /\ c = chan[h] /\ d = chan[o] /\ Counts(x) /\ Counts(y)
                     /\ Stamps(c) /\ Stamps(d) /\ Link(x, y, c, 0) /\ Link(y, x, d, 0) /\ Prodded(x)
  BY <1>1 DEF PInv
<1>4. Counts(z)
  <2>1. z.max \in Int /\ x.max <= z.max /\ x.max \in Nat
    BY <1>2, <1>3 DEF Ahead, Counts
  <2>2. z.max \in Nat
    BY <2>1
  <2> QED
    BY <1>2, <1>3, <2>2 DEF Ahead, Timed, Counts
<1>5. x.seen = x.waits => y.known = x.waits
  <2>1. x.seen <= y.known /\ y.known <= x.waits
    BY <1>3 DEF Link, Clocks
  <2> QED
    BY <1>3, <2>1 DEF Counts
<1>6. Further(x, y, z)
  <2>1. x.known <= x.known
    BY <1>3 DEF Counts
  <2> QED
    BY <1>2, <1>5, <2>1 DEF Ahead, Timed, Further
<1>7. Link(z, y, c, 0)
  BY <1>3, <1>4, <1>6, LinkSender
<1>8. Link(y, z, d, 0)
  <2>1. x.max <= z.max /\ z.known = x.known /\ z.seen = x.seen /\ z.mock = x.mock
    BY <1>2 DEF Ahead
  <2> QED
    BY <1>3, <1>4, <2>1, LinkReceiver
<1>9. Prodded(z)
  BY <1>2, <1>3 DEF Ahead, Prodded
<1> QED
  BY <1>1, <1>2, <1>3, <1>4, <1>7, <1>8, <1>9, PeerStep

LEMMA SetMoves ==
  ASSUME NEW h \in Half, NEW z, q[h].waits \in Nat, Ahead(q[h], z), Paused(q[h], z), Set(h, z),
         UNCHANGED chan
  PROVE  Moves(h)
  BY PausedTimed DEF Moves, Set

LEMMA PlainMoves ==
  ASSUME NEW h \in Half, NEW z, Counts(q[h]), Plain(q[h], z), InD4R(z) => InD4R(q[h]), Set(h, z),
         UNCHANGED chan
  PROVE  Moves(h)
<1>1. q[h].waits \in Nat /\ q[h].max \in Int
  BY DEF Counts
<1>2. Paused(q[h], z)
  BY DEF Paused, Plain
<1> QED
  BY <1>1, <1>2, PlainAhead, SetMoves

(* An iteration of the loop never ends in D4R: it waits for a tag first.   *)
LEMMA IterateMoves ==
  ASSUME NEW h \in Half, Counts(q[h]), NEW z, Plain(q[h], z), z.want \in Int, Iterate(h, z),
         UNCHANGED chan
  PROVE  Moves(h)
<1>1. PICK x : x = [z EXCEPT !.locked = FALSE]
  OBVIOUS
<1>2. Plain(z, x) /\ x.want = z.want /\ IsHalf(x)
  BY <1>1 DEF Plain, IsHalf, Fields
<1>3. PICK p : p = q[h] /\ Plain(p, x) /\ p.max \in Int /\ p.waits \in Nat
  BY <1>2 DEF Plain, Counts
<1>4. Ahead(p, x) /\ x.max \in Int /\ x.waits = p.waits
  BY <1>3, PlainAhead DEF Plain
<1>5. \/ Set(h, [x EXCEPT !.inop = @ \cup {h}, !.pc = "held"])
      \/ \E c \in {"idle", "ending"} : Set(h, [x EXCEPT !.pc = c])
      \/ LoopGrow(h, x)
      \/ Set(h, Waiting(h, x))
  BY <1>1 DEF Iterate
<1>6. CASE Set(h, [x EXCEPT !.inop = @ \cup {h}, !.pc = "held"])
  <2>1. PICK I, y : I = x.inop \cup {h} /\ y = [x EXCEPT !.inop = I, !.pc = "held"]
    OBVIOUS
  <2>2. Plain(x, y) /\ y.pc = "held"
    BY <1>2, <2>1, ZenonT(40) DEF Plain, IsHalf, Fields
  <2>3. Plain(p, y) /\ ~InD4R(y)
    BY <1>3, <2>2 DEF Plain, InD4R
  <2>4. Set(h, y)
    BY <1>6, <2>1
  <2> QED
    BY <1>3, <2>3, <2>4, PlainMoves
<1>7. ASSUME NEW c \in {"idle", "ending"}, Set(h, [x EXCEPT !.pc = c]) PROVE Moves(h)
  <2>1. PICK y : y = [x EXCEPT !.pc = c]
    OBVIOUS
  <2>2. Plain(x, y) /\ y.pc = c
    BY <1>2, <2>1 DEF Plain, IsHalf, Fields
  <2>3. Plain(p, y) /\ ~InD4R(y)
    BY <1>3, <2>2 DEF Plain, InD4R
  <2> QED
    BY <1>3, <1>7, <2>1, <2>3, PlainMoves
<1>8. CASE LoopGrow(h, x)
  <2>1. PICK b, v : /\ b = (h = "write" /\ ~MaxGrows(x))
                    /\ v = [x EXCEPT !.grown = b, !.pc = "loop", !.locked = TRUE]
    OBVIOUS
  <2>2. PICK a : a = (IF MaxGrows(x) THEN 2 * x.want ELSE x.req[Other(h)] + x.want)
    OBVIOUS
  <2>3. PICK y : y = UnlockedGrow(h, v, a, x.want)
    OBVIOUS
  <2>4. Set(h, Signal(y))
    BY <1>8, <2>1, <2>2, <2>3, SMTT(30) DEF LoopGrow
  <2>5. Plain(x, v) /\ v.pc = "loop"
    BY <1>2, <2>1, ZenonT(40) DEF Plain, IsHalf, Fields
  <2>6. Plain(p, v) /\ ~InD4R(v) /\ IsHalf(v) /\ v.max \in Int
    BY <1>3, <2>5 DEF Plain, InD4R
  <2>7. Ahead(v, y) /\ Paused(v, y)
    BY <1>2, <2>3, <2>6, UnlockedGrowAhead
  <2>8. Ahead(y, Signal(y)) /\ Paused(y, Signal(y))
    BY <2>7, SignalAhead DEF Ahead
  <2>9. Ahead(p, Signal(y))
    BY <1>3, <2>6, <2>7, <2>8, PlainAhead, AheadTwice DEF Ahead
  <2>10. Paused(p, Signal(y))
    BY <2>6, <2>7, <2>8 DEF Paused, Plain
  <2> QED
    BY <1>3, <2>4, <2>9, <2>10, SetMoves
<1>9. CASE Set(h, Waiting(h, x))
  <2>1. PICK y : y = Waiting(h, x) /\ Ahead(x, y) /\ y.waits = x.waits + 1 /\ y.pc = "tagwait"
    BY <1>2, <1>4, WaitingAhead
  <2>2. Ahead(p, y)
    BY <1>3, <1>4, <2>1, AheadTwice
  <2>3. Timed(p, y)
    BY <1>3, <1>4, <2>1 DEF Timed, InD4R
  <2> QED
    BY <1>3, <1>9, <2>1, <2>2, <2>3 DEF Moves, Set
<1> QED
  BY <1>5, <1>6, <1>7, <1>8, <1>9

LEMMA CallMoves ==
  ASSUME NEW h \in Half, Good(h, q[h]), Counts(q[h]), Call(h)
  PROVE  Moves(h)
<1>1. PICK x : x = q[h] /\ IsHalf(x)
  BY DEF Good
<1>2. UNCHANGED chan
  BY DEF Call, Local
<1>3. CASE Set(h, [x EXCEPT !.pc = "ending"])
  <2>1. PICK y : y = [x EXCEPT !.pc = "ending"]
    OBVIOUS
  <2>2. Plain(x, y) /\ ~InD4R(y)
    BY <1>1, <2>1 DEF Plain, InD4R, IsHalf, Fields
  <2> QED
    BY <1>1, <1>2, <1>3, <2>1, <2>2, PlainMoves
<1>4. ASSUME NEW t \in Thresholds, Iterate(h, [x EXCEPT !.want = t, !.grown = FALSE]) PROVE Moves(h)
  <2>1. PICK z : z = [x EXCEPT !.want = t, !.grown = FALSE]
    OBVIOUS
  <2>2. Plain(x, z) /\ z.want = t
    BY <1>1, <2>1 DEF Plain, IsHalf, Fields
  <2>3. t \in Int
    BY NodeAssumption
  <2> QED
    BY <1>1, <1>2, <1>4, <2>1, <2>2, <2>3, IterateMoves
<1> QED
  BY <1>1, <1>3, <1>4 DEF Call

LEMMA LoopMoves ==
  ASSUME NEW h \in Half, Good(h, q[h]), Counts(q[h]), Loop(h)
  PROVE  Moves(h)
<1>1. Plain(q[h], q[h]) /\ q[h].want \in Int
  BY DEF Plain, Good, Sizes
<1> QED
  BY <1>1, IterateMoves DEF Loop, Local

LEMMA GrowWaitedMoves ==
  ASSUME NEW h \in Half, Good(h, q[h]), Counts(q[h]), GrowWaited(h)
  PROVE  Moves(h)
<1>1. PICK x : /\ x = q[h] /\ IsHalf(x) /\ x.pc = "growwait" /\ x.max \in Int /\ x.waits \in Nat
               /\ x.args[2] \in Int
  <2>1. q[h].pc = "growwait"
    BY DEF GrowWaited
  <2>2. IsHalf(q[h]) /\ Sizes(q[h]) /\ q[h].max \in Int /\ q[h].waits \in Nat
    BY DEF Good, Counts
  <2>3. q[h].args[2] \in Int
    BY <2>2 DEF Sizes
  <2> QED
    BY <2>1, <2>2, <2>3
<1>2. PICK u : u = Resize(h, x, x.args[1], x.args[2]) /\ Remains(x, u)
  BY <1>1, ResizeMax
<1>3. PICK P, c, b : P = u.pending \cup {"grow"} /\ c = x.args[3] /\ b = (x.args[3] = "loop")
  OBVIOUS
<1>4. PICK y : y = [u EXCEPT !.pending = P, !.pc = c, !.args = NoArgs, !.locked = b]
  OBVIOUS
<1>5. /\ IsHalf(y) /\ y.max = u.max /\ y.pending = P /\ y.known = u.known /\ y.seen = u.seen
      /\ y.mock = u.mock /\ y.sentEnd = u.sentEnd /\ y.apc = u.apc /\ y.tag = u.tag
      /\ y.sig = u.sig /\ y.waits = u.waits /\ y.pc = c /\ y.args = NoArgs
  BY <1>2, <1>4 DEF Remains, IsHalf, Fields
<1>6. Ahead(x, Signal(y)) /\ Paused(y, Signal(y))
  BY <1>1, <1>2, <1>3, <1>5, GrowthAhead DEF Remains
<1>7. Paused(x, y)
  BY <1>1, <1>2, <1>3, <1>5 DEF Remains, Paused, InD4R, NoArgs
<1>8. Set(h, Signal(y)) /\ UNCHANGED chan
  BY <1>1, <1>2, <1>3, <1>4 DEF GrowWaited, Local
<1> QED
  BY <1>1, <1>6, <1>7, <1>8, PausedTwice, SetMoves

LEMMA UnlockedGrowMoves ==
  ASSUME NEW h \in Half, Good(h, q[h]), Counts(q[h]), NEW a, NEW b \in Int,
         Set(h, UnlockedGrow(h, q[h], a, b)), UNCHANGED chan
  PROVE  Moves(h)
<1>1. PICK x : x = q[h] /\ IsHalf(x) /\ x.max \in Int /\ x.waits \in Nat
  BY DEF Good, Counts
<1>2. Ahead(x, UnlockedGrow(h, x, a, b)) /\ Paused(x, UnlockedGrow(h, x, a, b))
  BY <1>1, UnlockedGrowAhead
<1> QED
  BY <1>1, <1>2, SetMoves

LEMMA GrowMoves ==
  ASSUME NEW h \in Half, Good(h, q[h]), Counts(q[h]), Grow(h)
  PROVE  Moves(h)
<1>1. PICK a \in GrowArgs : Set(h, UnlockedGrow(h, q[h], a[1], a[2]))
  BY DEF Grow
<1>2. a[2] \in Int /\ UNCHANGED chan
  BY NodeAssumption DEF Grow, Local
<1> QED
  BY <1>1, <1>2, UnlockedGrowMoves

LEMMA DetectMoves ==
  ASSUME Good("write", q["write"]), Counts(q["write"]), Detect
  PROVE  Moves("write")
<1>1. PICK a : Set("write", UnlockedGrow("write", q["write"], a, q["write"].req["write"]))
  BY DEF Detect
<1>2. q["write"].req["write"] \in Int /\ UNCHANGED chan
  BY DEF Detect, Local, Good, Sizes
<1> QED
  BY <1>1, <1>2, UnlockedGrowMoves DEF Half

LEMMA WakeupMoves ==
  ASSUME NEW h \in Half, Good(h, q[h]), Counts(q[h]), Wakeup(h)
  PROVE  Moves(h)
<1>1. PICK x : x = q[h] /\ IsHalf(x) /\ x.max \in Int /\ x.waits \in Nat /\ x.want \in Int
  BY SMTT(30) DEF Good, Sizes, Counts
<1>2. UNCHANGED chan
  BY DEF Wakeup, Local
<1>3. CASE Set(h, [x EXCEPT !.pc = "ending"])
  <2>1. PICK y : y = [x EXCEPT !.pc = "ending"]
    OBVIOUS
  <2>2. Plain(x, y) /\ ~InD4R(y)
    BY <1>1, <2>1 DEF Plain, InD4R, IsHalf, Fields
  <2> QED
    BY <1>1, <1>2, <1>3, <2>1, <2>2, PlainMoves
<1>4. CASE Set(h, [x EXCEPT !.asleep = TRUE, !.pc = IF Fresh(x) THEN "d4r" ELSE @])
  <2>1. PICK c : c = (IF Fresh(x) THEN "d4r" ELSE x.pc)
    OBVIOUS
  <2>2. PICK y : y = [x EXCEPT !.asleep = TRUE, !.pc = c]
    OBVIOUS
  <2>3. Plain(x, y) /\ y.pc = c /\ y.args = x.args
    BY <1>1, <2>2 DEF Plain, IsHalf, Fields
  <2>4. InD4R(y) => InD4R(x) \/ x.seen = x.waits
    BY <2>1, <2>3 DEF InD4R, Fresh
  <2>5. Timed(x, y)
    BY <1>1, <2>3, <2>4 DEF Timed, Plain
  <2>6. Ahead(x, y)
    BY <1>1, <2>3, PlainAhead
  <2>7. Set(h, y)
    BY <1>4, <2>1, <2>2
  <2> QED
    BY <1>1, <1>2, <2>5, <2>6, <2>7 DEF Moves, Set
<1>5. CASE Iterate(h, [x EXCEPT !.req[h] = 0])
  <2>1. PICK r, z : r = [x.req EXCEPT ![h] = 0] /\ z = [x EXCEPT !.req = r]
    OBVIOUS
  <2>2. Plain(x, z) /\ z.want = x.want
    BY <1>1, <2>1 DEF Plain, IsHalf, Fields
  <2>3. Iterate(h, z)
    BY <1>5, <2>1
  <2> QED
    BY <1>1, <1>2, <2>2, <2>3, IterateMoves
<1> QED
  BY <1>1, <1>3, <1>4, <1>5 DEF Wakeup

LEMMA TagMoves ==
  ASSUME NEW h \in Half, Good(h, q[h]), Counts(q[h]), TagChange(h) \/ SignalTagChanged(h)
  PROVE  Moves(h)
<1>1. PICK x : x = q[h] /\ IsHalf(x) /\ x.max \in Int /\ x.waits \in Nat /\ x.max <= x.max
  BY DEF Good, Counts
<1>2. UNCHANGED chan
  BY DEF TagChange, SignalTagChanged, Local
<1>3. CASE TagChange(h)
  <2>1. PICK n, y : n = x.tag + 1 /\ y = [x EXCEPT !.tag = n, !.sig = TRUE]
    OBVIOUS
  <2>2. /\ IsHalf(y) /\ y.max = x.max /\ y.pending = x.pending /\ y.known = x.known
        /\ y.seen = x.seen /\ y.mock = x.mock /\ y.sentEnd = x.sentEnd /\ y.apc = x.apc
        /\ y.sig /\ y.waits = x.waits /\ y.pc = x.pc /\ y.args = x.args
    BY <1>1, <2>1 DEF IsHalf, Fields
  <2>3. Ahead(x, y) /\ Paused(x, y)
    BY <1>1, <2>2 DEF Ahead, Paused, InD4R
  <2>4. Set(h, y)
    BY <1>1, <1>3, <2>1 DEF TagChange
  <2> QED
    BY <1>1, <1>2, <2>3, <2>4, SetMoves
<1>4. CASE SignalTagChanged(h)
  <2>1. PICK P, y : P = x.pending \cup {"tag"} /\ y = [x EXCEPT !.sig = FALSE, !.pending = P]
    OBVIOUS
  <2>2. /\ IsHalf(y) /\ y.max = x.max /\ y.pending = P /\ y.known = x.known
        /\ y.seen = x.seen /\ y.mock = x.mock /\ y.sentEnd = x.sentEnd /\ y.apc = x.apc
        /\ y.tag = x.tag /\ y.waits = x.waits /\ y.pc = x.pc /\ y.args = x.args
    BY <1>1, <2>1 DEF IsHalf, Fields
  <2>3. Ahead(x, y) /\ Paused(x, y)
    BY <1>1, <2>1, <2>2 DEF Ahead, Paused, InD4R
  <2>4. Ahead(y, Signal(y)) /\ Paused(y, Signal(y))
    BY <1>1, <2>2, SignalAhead
  <2>5. Ahead(x, Signal(y)) /\ Paused(x, Signal(y))
    BY <1>1, <2>3, <2>4, AheadTwice, PausedTwice
  <2>6. Set(h, Signal(y))
    BY <1>1, <1>4, <2>1 DEF SignalTagChanged
  <2> QED
    BY <1>1, <1>2, <2>5, <2>6, SetMoves
<1> QED
  BY <1>3, <1>4

LEMMA GiveBackMoves ==
  ASSUME NEW h \in Half, Good(h, q[h]), Counts(q[h]), NEW n, GiveBack(h, n)
  PROVE  Moves(h)
<1>1. PICK x : x = q[h] /\ IsHalf(x) /\ x.max \in Int /\ x.waits \in Nat
  BY DEF Good, Counts
<1>2. PICK I, c : I = x.inop \ {h} /\ c = (IF h \in x.shut THEN "ending" ELSE "idle")
  OBVIOUS
<1>3. PICK y : y = [x EXCEPT !.inop = I, !.want = 0, !.grown = FALSE, !.pc = c]
  OBVIOUS
<1>4. PICK d, z : /\ d = (IF h = "read" THEN SubSeq(x.data, n + 1, Len(x.data))
                          ELSE x.data \o [i \in 1 .. n |-> written + i])
                  /\ z = [y EXCEPT !.data = d]
  OBVIOUS
<1>5. Plain(x, y) /\ y.pc = c /\ y.data = x.data
  <2>1. y.pc = c /\ y.data = x.data /\ y.max = x.max /\ y.pending = x.pending /\ y.known = x.known
        /\ y.seen = x.seen
    BY <1>1, <1>3 DEF IsHalf, Fields
  <2>2. /\ y.mock = x.mock /\ y.sentEnd = x.sentEnd /\ y.apc = x.apc /\ y.tag = x.tag
        /\ y.sig = x.sig /\ y.waits = x.waits
    BY <1>1, <1>3 DEF IsHalf, Fields
  <2>3. IsHalf(y)
    BY <1>1, <1>3, Zenon DEF IsHalf
  <2> QED
    BY <2>1, <2>2, <2>3 DEF Plain
<1>6. Plain(y, z) /\ z.pc = c
  BY <1>4, <1>5 DEF Plain, IsHalf, Fields
<1>7. Plain(x, z) /\ ~InD4R(y) /\ ~InD4R(z) /\ IsHalf(z) /\ z.max \in Int
  BY <1>1, <1>2, <1>5, <1>6 DEF Plain, InD4R
<1>8. Ahead(x, Signal(z)) /\ Paused(x, Signal(z))
  <2>1. Ahead(x, z) /\ Paused(x, z)
    BY <1>1, <1>7, PlainAhead DEF Paused, Plain
  <2>2. Ahead(z, Signal(z)) /\ Paused(z, Signal(z))
    BY <1>7, SignalAhead
  <2> QED
    BY <1>1, <2>1, <2>2, AheadTwice, PausedTwice
<1>9. (Set(h, y) \/ Set(h, Signal(z))) /\ UNCHANGED chan
  BY <1>1, <1>2, <1>3, <1>4, <1>5 DEF GiveBack, Local
<1> QED
  BY <1>1, <1>5, <1>7, <1>8, <1>9, SetMoves, PlainMoves

(* Ends: the half shut, and the half dead.                                 *)
LEMMA EndsAhead ==
  ASSUME NEW x, IsHalf(x), x.max \in Int, NEW h
  PROVE  /\ Ahead(x, ShutEnd(x, h)) /\ Paused(x, ShutEnd(x, h))
         /\ Ahead(x, UnlockedShutdown(x)) /\ Paused(x, UnlockedShutdown(x))
         /\ UnlockedShutdown(x).dead
<1>1. PICK S, y, z : S = x.shut \cup {h} /\ y = [x EXCEPT !.shut = S] /\ z = [x EXCEPT !.dead = TRUE]
  OBVIOUS
<1>2. Plain(x, y) /\ y.pc = x.pc /\ y.args = x.args
  BY <1>1, SMTT(30) DEF Plain, IsHalf, Fields
<1>3. Plain(x, z) /\ z.pc = x.pc /\ z.args = x.args /\ z.dead
  BY <1>1 DEF Plain, IsHalf, Fields
<1>4. ASSUME NEW v, Plain(x, v), v.pc = x.pc, v.args = x.args
      PROVE  Ahead(x, Signal(v)) /\ Paused(x, Signal(v)) /\ Signal(v).dead = v.dead
  <2>1. Ahead(x, v) /\ Paused(x, v)
    BY <1>4, PlainAhead DEF Paused, InD4R, Plain
  <2>2. Ahead(v, Signal(v)) /\ Paused(v, Signal(v)) /\ Signal(v).dead = v.dead
    BY <1>4, SignalAhead DEF Plain
  <2> QED
    BY <2>1, <2>2, AheadTwice, PausedTwice
<1>5. ShutEnd(x, h) = Signal(y) /\ UnlockedShutdown(x) = Signal(z)
  BY <1>1 DEF ShutEnd, UnlockedShutdown
<1> QED
  BY <1>2, <1>3, <1>4, <1>5

LEMMA ShutdownMoves ==
  ASSUME NEW h \in Half, Good(h, q[h]), Counts(q[h]), Shutdown(h)
  PROVE  Moves(h)
<1>1. PICK x : x = q[h] /\ IsHalf(x) /\ x.max \in Int /\ x.waits \in Nat
  BY DEF Good, Counts
<1>2. PICK y : y = ShutEnd(x, h) /\ Ahead(x, y) /\ Paused(x, y) /\ IsHalf(y) /\ y.max \in Int
  BY <1>1, EndsAhead DEF Ahead
<1>3. PICK z : z = [y EXCEPT !.pc = "done", !.want = 0, !.grown = FALSE]
  OBVIOUS
<1>4. Plain(y, z) /\ z.pc = "done"
  BY <1>2, <1>3 DEF Plain, IsHalf, Fields
<1>5. Ahead(x, z) /\ Paused(x, z)
  <2>1. Ahead(x, z)
    BY <1>1, <1>2, <1>4, PlainAhead, AheadTwice
  <2>2. Paused(x, z)
    BY <1>2, <1>4 DEF Paused, Plain, InD4R
  <2> QED
    BY <2>1, <2>2
<1>6. Set(h, z) /\ UNCHANGED chan
  BY <1>1, <1>2, <1>3 DEF Shutdown, Local
<1> QED
  BY <1>1, <1>5, <1>6, SetMoves

LEMMA FileMoves ==
  ASSUME NEW h \in Half, Good(h, q[h]), Counts(q[h]), File(h)
  PROVE  Moves(h)
<1>1. PICK x : x = q[h] /\ IsHalf(x) /\ x.max \in Int /\ x.waits \in Nat
  BY DEF Good, Counts
<1>2. PICK y : y = Signal(x) /\ Ahead(x, y) /\ Paused(x, y) /\ IsHalf(y) /\ y.max \in Int
  BY <1>1, SignalAhead DEF Ahead
<1>3. PICK z, v : z = [y EXCEPT !.fpc = "tick"] /\ v = [x EXCEPT !.fpc = "done"]
  OBVIOUS
<1>4. Plain(y, z) /\ z.pc = y.pc /\ z.args = y.args
  BY <1>2, <1>3 DEF Plain, IsHalf, Fields
<1>5. Plain(x, v) /\ v.pc = x.pc /\ v.args = x.args
  BY <1>1, <1>3 DEF Plain, IsHalf, Fields
<1>6. Ahead(x, z) /\ Paused(x, z)
  <2>1. Ahead(x, z)
    BY <1>1, <1>2, <1>4, PlainAhead, AheadTwice
  <2>2. Paused(x, z)
    BY <1>2, <1>4 DEF Paused, Plain, InD4R
  <2> QED
    BY <2>1, <2>2
<1>7. InD4R(v) => InD4R(x)
  BY <1>5 DEF InD4R
<1>8. (Set(h, z) \/ Set(h, v)) /\ UNCHANGED chan
  BY <1>1, <1>2, <1>3 DEF File, FilePoll, FileEnd, Local
<1> QED
  BY <1>1, <1>5, <1>6, <1>7, <1>8, SetMoves, PlainMoves

LEMMA ForcedShutdownMoves ==
  ASSUME NEW h \in Half, Good(h, q[h]), Counts(q[h]), ForcedShutdown(h)
  PROVE  Moves(h)
<1>1. PICK x : x = q[h] /\ IsHalf(x) /\ x.max \in Int /\ x.waits \in Nat
  BY DEF Good, Counts
<1>2. Ahead(x, UnlockedShutdown(x)) /\ Paused(x, UnlockedShutdown(x))
  BY <1>1, EndsAhead
<1>3. Set(h, UnlockedShutdown(x)) /\ UNCHANGED chan
  BY <1>1 DEF ForcedShutdown, Local
<1> QED
  BY <1>1, <1>2, <1>3, SetMoves

(* The action thread ends with the half.                                   *)
LEMMA DeadAhead ==
  ASSUME NEW p, p.max \in Int, NEW x, IsHalf(x), x.dead, x.max = p.max, x.known = p.known,
         x.seen = p.seen, x.mock = p.mock, x.sentEnd = p.sentEnd, x.tag = p.tag, x.sig = p.sig,
         "grow" \in p.pending => "grow" \in x.pending, "tag" \in p.pending => "tag" \in x.pending,
         Paused(p, x)
  PROVE  Ahead(p, Ticked(Started(x)).x) /\ Paused(p, Ticked(Started(x)).x)
<1>1. PICK m : m = Started(x) /\ IsStep(m) /\ m.x = x
  BY StartedIs
<1>2. PICK f : f = (IF x.fpc = "tick" THEN "poll" ELSE x.fpc)
  OBVIOUS
<1>3. PICK y : y = [x EXCEPT !.apc = "done", !.term = FALSE, !.fpc = f]
  OBVIOUS
<1>4. Ticked(m) = [m EXCEPT !.x = y]
  BY <1>1, <1>2, <1>3 DEF Ticked, IsStep
<1>5. Ticked(m).x = y
  BY <1>1, <1>4 DEF IsStep
<1>6. /\ IsHalf(y) /\ y.max = x.max /\ y.pending = x.pending /\ y.known = x.known
      /\ y.seen = x.seen /\ y.mock = x.mock /\ y.sentEnd = x.sentEnd /\ y.apc = "done"
      /\ y.tag = x.tag /\ y.sig = x.sig /\ y.waits = x.waits /\ y.pc = x.pc /\ y.args = x.args
  BY <1>3 DEF IsHalf, Fields
<1>7. p.max <= p.max
  OBVIOUS
<1>8. Ahead(p, y)
  BY <1>6, <1>7 DEF Ahead
<1>9. Paused(p, y)
  BY <1>6 DEF Paused, InD4R
<1> QED
  BY <1>1, <1>5, <1>8, <1>9

LEMMA SocketErrorMoves ==
  ASSUME NEW h \in Half, Good(h, q[h]), Counts(q[h]), SocketError(h)
  PROVE  Moves(h)
<1>1. PICK x : x = q[h] /\ IsHalf(x) /\ x.max \in Int /\ x.waits \in Nat
  BY DEF Good, Counts
<1>2. PICK y : y = (IF x.shut # {} THEN Signal(x) ELSE x)
  OBVIOUS
<1>3. /\ IsHalf(y) /\ y.max = x.max /\ x.pending \subseteq y.pending /\ y.known = x.known
      /\ y.seen = x.seen /\ y.mock = x.mock /\ y.sentEnd = x.sentEnd /\ y.tag = x.tag
      /\ y.sig = x.sig /\ y.waits = x.waits /\ y.pc = x.pc /\ y.args = x.args
  <2>1. PICK P, v : P = x.pending \cup {"action"} /\ v = [x EXCEPT !.pending = P, !.asleep = FALSE]
    OBVIOUS
  <2>2. y = x \/ y = v
    BY <1>2, <2>1 DEF Signal
  <2>3. CASE y = v
    <3>1. y.pending = P
      BY <1>1, <2>1, <2>3 DEF IsHalf, Fields
    <3>2. /\ IsHalf(y) /\ y.max = x.max /\ y.known = x.known
          /\ y.seen = x.seen /\ y.mock = x.mock /\ y.sentEnd = x.sentEnd /\ y.tag = x.tag
          /\ y.sig = x.sig /\ y.waits = x.waits /\ y.pc = x.pc /\ y.args = x.args
      BY <1>1, <2>1, <2>3 DEF IsHalf, Fields
    <3> QED
      BY <2>1, <3>1, <3>2
  <2> QED
    BY <1>1, <2>2, <2>3
<1>4. PICK z : z = [y EXCEPT !.dead = TRUE]
  OBVIOUS
<1>5. Plain(y, z) /\ z.pc = y.pc /\ z.args = y.args /\ z.dead
  BY <1>3, <1>4 DEF Plain, IsHalf, Fields
<1>6. Paused(x, z)
  BY <1>3, <1>5 DEF Paused, InD4R, Plain
<1>7. Ahead(x, Ticked(Started(z)).x) /\ Paused(x, Ticked(Started(z)).x)
  <2>1. /\ IsHalf(z) /\ z.dead /\ z.max = x.max /\ z.known = x.known /\ z.seen = x.seen
        /\ z.mock = x.mock /\ z.sentEnd = x.sentEnd /\ z.tag = x.tag /\ z.sig = x.sig
        /\ x.pending \subseteq z.pending
    BY <1>3, <1>5 DEF Plain
  <2> QED
    BY <1>1, <1>6, <2>1, DeadAhead
<1>8. Set(h, Ticked(Started(z)).x) /\ UNCHANGED chan
  BY <1>1, <1>2, <1>4 DEF SocketError
<1> QED
  BY <1>1, <1>7, <1>8, SetMoves

LEMMA ActionWakePeers ==
  ASSUME IInv, PInv, NEW h \in Half, ActionWake(h)
  PROVE  PInv'
<1>1. PICK P, b : P = q[h].pending \ {"action"} /\ b = terminated[h]
  OBVIOUS
<1>2. PICK x : x = [q[h] EXCEPT !.pending = P, !.term = b]
  OBVIOUS
<1>3. /\ Good(h, q[h]) /\ DInv /\ IsHalf(q[h]) /\ Counts(q[h]) /\ q[h].max \in Int
      /\ q[h].waits \in Nat
  <2>1. Good(h, q[h]) /\ DInv /\ Counts(q[h])
    BY DEF DInv, IInv, PInv
  <2> QED
    BY <2>1 DEF Good, Counts
<1>4. Same(h, q[h], x) /\ Good(h, x) /\ Firm(h, q[h], x)
  <2>1. Elsewhere(q[h], x)
    BY <1>2, <1>3 DEF Elsewhere, Good, IsHalf, Fields, Aside
  <2>2. Firm(h, q[h], x)
    BY <1>2, <1>3 DEF Firm, Pointers, Good, IsHalf, Fields, Holds
  <2> QED
    BY <1>3, <2>1, <2>2, ElsewhereSame DEF Same
<1>5. /\ IsHalf(x) /\ x.max = q[h].max /\ x.pending = P /\ x.known = q[h].known
      /\ x.seen = q[h].seen /\ x.mock = q[h].mock /\ x.sentEnd = q[h].sentEnd /\ x.apc = q[h].apc
      /\ x.tag = q[h].tag /\ x.sig = q[h].sig /\ x.waits = q[h].waits /\ x.pc = q[h].pc
      /\ x.args = q[h].args
  BY <1>2, <1>3 DEF IsHalf, Fields
<1>6. /\ x.apc = "wait"
      /\ \/ Set(h, [x EXCEPT !.apc = "done"]) /\ UNCHANGED chan
         \/ Set(h, Ticked(Started(UnlockedShutdown(x))).x) /\ UNCHANGED chan
         \/ Read(h, x)
  BY <1>1, <1>2 DEF ActionWake, Local
<1>7. CASE Set(h, [x EXCEPT !.apc = "done"]) /\ UNCHANGED chan
  <2>1. PICK y : y = [x EXCEPT !.apc = "done"]
    OBVIOUS
  <2>2. /\ IsHalf(y) /\ y.max = x.max /\ y.pending = x.pending /\ y.known = x.known
        /\ y.seen = x.seen /\ y.mock = x.mock /\ y.sentEnd = x.sentEnd /\ y.apc = "done"
        /\ y.tag = x.tag /\ y.sig = x.sig /\ y.waits = x.waits /\ y.pc = x.pc /\ y.args = x.args
    BY <1>5, <2>1 DEF IsHalf, Fields
  <2>3. q[h].max <= q[h].max
    BY <1>3
  <2>4. Ahead(q[h], y)
    BY <1>1, <1>3, <1>5, <2>2, <2>3 DEF Ahead
  <2>5. Paused(q[h], y)
    BY <1>5, <2>2 DEF Paused, InD4R
  <2> QED
    BY <1>3, <1>7, <2>1, <2>4, <2>5, SetMoves, MovesPeers
<1>8. CASE Set(h, Ticked(Started(UnlockedShutdown(x))).x) /\ UNCHANGED chan
  <2>1. PICK z, y : z = [x EXCEPT !.dead = TRUE] /\ y = Signal(z) /\ y = UnlockedShutdown(x)
    BY DEF UnlockedShutdown
  <2>2. Plain(x, z) /\ z.pc = x.pc /\ z.args = x.args /\ z.dead
    BY <1>5, <2>1 DEF Plain, IsHalf, Fields
  <2>3. PICK Q : Q = P \cup {"action"} /\ y = [z EXCEPT !.pending = Q, !.asleep = FALSE]
    BY <1>5, <2>1, <2>2 DEF Signal, Plain, IsHalf, Fields
  <2>4. /\ IsHalf(y) /\ y.max = z.max /\ y.pending = Q /\ y.known = z.known
        /\ y.seen = z.seen /\ y.mock = z.mock /\ y.sentEnd = z.sentEnd /\ y.dead = z.dead
        /\ y.tag = z.tag /\ y.sig = z.sig /\ y.waits = z.waits /\ y.pc = z.pc /\ y.args = z.args
    BY <2>2, <2>3 DEF Plain, IsHalf, Fields
  <2>5. /\ y.max = q[h].max /\ y.known = q[h].known /\ y.seen = q[h].seen /\ y.mock = q[h].mock
        /\ y.sentEnd = q[h].sentEnd /\ y.tag = q[h].tag /\ y.sig = q[h].sig
        /\ y.waits = q[h].waits /\ y.pc = q[h].pc /\ y.args = q[h].args /\ y.dead
    BY <1>5, <2>2, <2>4 DEF Plain
  <2>6. /\ "grow" \in q[h].pending => "grow" \in y.pending
        /\ "tag" \in q[h].pending => "tag" \in y.pending
    BY <1>1, <2>3, <2>4
  <2>7. Paused(q[h], y)
    BY <2>5 DEF Paused, InD4R
  <2>8. Ahead(q[h], Ticked(Started(y)).x) /\ Paused(q[h], Ticked(Started(y)).x)
    BY <1>3, <2>4, <2>5, <2>6, <2>7, DeadAhead
  <2> QED
    BY <1>3, <1>8, <2>1, <2>8, SetMoves, MovesPeers
<1>9. CASE Read(h, x)
  <2>1. Mid(h, x, 0, <<>>) /\ Due(h, x, 0, <<>>)
    BY <1>3, <1>4, MidStart, MidSame, DueStart, DueFirm
  <2>2. Alike(q[h], x)
    BY <1>1, <1>5 DEF Alike, Level, InD4R
  <2> QED
    BY <1>6, <1>9, <2>1, <2>2, PathStart, ReadPeers
<1> QED
  BY <1>6, <1>7, <1>8, <1>9

---------------------------------------------------------------------------
LEMMA InitPeers ==
  ASSUME Init
  PROVE  PInv
<1> SUFFICES ASSUME NEW h \in Half
             PROVE  /\ Counts(q[h]) /\ Stamps(chan[h]) /\ Prodded(q[h])
                    /\ Link(q[h], q[Other(h)], chan[h], 0)
  BY DEF PInv
<1>1. \A g \in Half : /\ q[g].max = InitMaxThreshold /\ q[g].waits = 0 /\ q[g].known = 0
                      /\ q[g].seen = 0 /\ q[g].tag = 1 /\ q[g].pc = "idle"
                      /\ q[g].sig = (g \in FirstTag) /\ q[g].pending = {"action"}
                      /\ q[g].mock = (IF Other(g) \in FirstTag THEN 0 ELSE 1)
  BY DEF Init, InitHalf
<1>2. PICK o \in Half : o = Other(h) /\ Other(o) = h
  BY DEF Other, Half
<1>3. chan[h] = <<>> /\ Len(chan[h]) = 0 /\ 0 + 1 .. 0 = {} /\ 1 .. 0 = {}
  BY DEF Init
<1>4. InitMaxThreshold \in Nat
  BY LengthAssumption
<1>5. Counts(q[h]) /\ Stamps(chan[h]) /\ Prodded(q[h])
  BY <1>1, <1>3, <1>4 DEF Counts, Stamps, Prodded
<1>6. Bounded(q[h], chan[h])
  BY <1>3 DEF Bounded
<1>7. Spread(q[h], q[o], chan[h], 0)
  BY <1>1, <1>4 DEF Spread
<1>8. Clocks(q[h], q[o], chan[h], 0)
  BY <1>1, <1>3 DEF Clocks, InD4R
<1>9. Current(q[h], q[o], chan[h], 0)
  <2>1. h \in FirstTag => q[h].sig
    BY <1>1
  <2>2. h \notin FirstTag => q[o].mock = q[h].tag
    BY <1>1, <1>2
  <2> QED
    BY <1>3, <2>1, <2>2 DEF Current
<1> QED
  BY <1>2, <1>5, <1>6, <1>7, <1>8, <1>9 DEF Link

LEMMA NextPeers ==
  ASSUME IInv, PInv, [Next]_vars
  PROVE  PInv'
<1>1. \A h \in Half : Good(h, q[h]) /\ Counts(q[h])
  BY DEF IInv, DInv, PInv
<1>2. ASSUME UNCHANGED <<q, chan>> PROVE PInv'
  BY <1>2 DEF PInv
<1>3. ASSUME NEW h \in Half,
             \/ Call(h) \/ Grow(h) \/ Node(h) \/ TagChange(h) \/ SignalTagChanged(h)
             \/ (\E n \in 1 .. MaxItems : GiveBack(h, n)) \/ Shutdown(h) \/ File(h)
             \/ ForcedShutdown(h) \/ SocketError(h)
      PROVE  PInv'
  <2>1. Good(h, q[h]) /\ Counts(q[h])
    BY <1>1
  <2>2. Moves(h)
    BY <1>3, <2>1, CallMoves, GrowMoves, LoopMoves, GrowWaitedMoves, WakeupMoves, TagMoves,
       GiveBackMoves, ShutdownMoves, FileMoves, ForcedShutdownMoves, SocketErrorMoves DEF Node
  <2> QED
    BY <2>2, MovesPeers
<1>4. ASSUME NEW h \in Half, ActionWake(h) \/ ReadData(h) \/ SentData(h) PROVE PInv'
  BY <1>4, ActionWakePeers, ReadDataPeers, SentDataPeers
<1>5. CASE Detect
  <2>1. Good("write", q["write"]) /\ Counts(q["write"])
    BY <1>1 DEF Half
  <2> QED
    BY <1>5, <2>1, DetectMoves, MovesPeers DEF Half
<1>6. ASSUME NEW h \in Half, Terminate(h) \/ Destroy(h) PROVE PInv'
  BY <1>2, <1>6 DEF Terminate, Destroy
<1>7. CASE Ended
  BY <1>2, <1>7 DEF Ended, vars
<1>8. CASE UNCHANGED vars
  BY <1>2, <1>8 DEF vars
<1> QED
  BY <1>3, <1>4, <1>5, <1>6, <1>7, <1>8 DEF Next, Action

(* What each half knows of the other is what has been told, or is being    *)
(* told: the largest threshold, the waits begun, and the node's tag.       *)
THEOREM PeerInvariance == Spec => [](IInv /\ PInv)
<1>1. Init => IInv /\ PInv
  BY InitHolds, InitPeers
<1>2. IInv /\ PInv /\ [Next]_vars => IInv' /\ PInv'
  BY NextKeeps, NextPeers
<1> QED
  BY <1>1, <1>2, PTL DEF Spec

(* When no packet is on its way, nobody is about to send one and nothing   *)
(* is left for the action threads to do, the two halves have the same      *)
(* largest threshold, from whichever side and however often it was raised. *)
THEOREM ThresholdsAgree == Spec => []SameThreshold
<1>1. IInv /\ PInv => SameThreshold
  <2> SUFFICES ASSUME IInv, PInv, \A h \in Half : Quiet(h) /\ ~q[h].sentEnd
               PROVE  q["read"].max = q["write"].max
    BY DEF SameThreshold
  <2>1. ASSUME NEW h \in Half PROVE q[h].max <= q[Other(h)].max
    <3>1. Spread(q[h], q[Other(h)], chan[h], 0) /\ Prodded(q[h])
      BY DEF PInv, Link
    <3>2. "grow" \notin q[h].pending
      BY <3>1 DEF Quiet, Prodded
    <3>3. chan[h] = <<>> /\ 0 + 1 .. Len(<<>>) = {}
      BY DEF Quiet
    <3> QED
      BY <3>1, <3>2, <3>3 DEF Spread
  <2>2. q["read"].max <= q["write"].max /\ q["write"].max <= q["read"].max
    <3>1. q["read"].max <= q[Other("read")].max /\ q["write"].max <= q[Other("write")].max
      BY <2>1 DEF Half
    <3> QED
      BY <3>1 DEF Other
  <2>3. q["read"].max \in Nat /\ q["write"].max \in Nat
    BY DEF PInv, Counts, Half
  <2> QED
    BY <2>2, <2>3
<1> QED
  BY <1>1, PeerInvariance, PTL

(* A node that waits in D4R does so since its peer heard of that very      *)
(* wait, and it has the tag of its peer or is about to have it: no change  *)
(* of a tag is lost to a node that might be in a deadlock.                 *)
THEOREM TagsCurrent == Spec => []TagCurrent
<1>1. IInv /\ PInv => TagCurrent
  <2> SUFFICES ASSUME IInv, PInv, NEW h \in Half, NEW o, o = Other(h), q[h].pc = "d4r"
               PROVE  /\ q[o].known = q[h].waits
                      /\ \/ q[h].mock = q[o].tag \/ q[o].sig \/ "tag" \in q[o].pending
                         \/ \E i \in 1 .. Len(chan[o]) :
                              chan[o][i].type = "d4rtag" /\ chan[o][i].n = q[o].tag
    BY DEF TagCurrent
  <2>1. o \in Half /\ Other(o) = h
    BY DEF Half, Other
  <2>2. Clocks(q[h], q[o], chan[h], 0) /\ Current(q[o], q[h], chan[o], 0)
    BY <2>1 DEF PInv, Link
  <2>3. q[o].known = q[h].waits
    BY <2>2 DEF Clocks, InD4R
  <2>4. 0 + 1 .. Len(chan[o]) = 1 .. Len(chan[o])
    OBVIOUS
  <2> QED
    BY <2>2, <2>3, <2>4 DEF Current
<1> QED
  BY <1>1, PeerInvariance, PTL

============================================================================
