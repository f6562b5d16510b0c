------------------------- MODULE RemoteQueue_proofs -------------------------
(***************************************************************************)
(* Proofs about module RemoteQueue, for every length, share, threshold and *)
(* sequence of growths, ends and terminations: what has been written is    *)
(* read in order whatever is on its way, the writer's bytecount is exact,  *)
(* and no ASSERT about ends and pointers fails.                            *)
(***************************************************************************)
EXTENDS RemoteQueue, SequenceTheorems, WellFoundedInduction, NaturalsInduction, TLAPS

---------------------------------------------------------------------------
(* Induction over the positions of a sequence, as a fact about sets.       *)
LEMMA Positions ==
  ASSUME NEW n \in Nat, NEW T, 0 \in T, \A i \in 1 .. n : i - 1 \in T => i \in T
  PROVE  \A i \in 0 .. n : i \in T
<1> SUFFICES ASSUME NEW k \in 0 .. n, k \notin T PROVE FALSE
  OBVIOUS
<1>1. PICK U : U = {i \in 0 .. n : i \notin T}
  OBVIOUS
<1>2. U \subseteq Nat /\ U # {}
  BY <1>1
<1>3. PICK R : R = {ss \in Nat \X Nat : ss[1] < ss[2]} /\ IsWellFoundedOn(R, Nat)
  BY NatLessThanWellFounded DEF OpToRel
<1>4. PICK x \in U : \A y \in U : ~(<<y, x>> \in R)
  BY <1>2, <1>3, WFMin
<1>5. \A y \in U : ~(y < x)
  BY <1>2, <1>3, <1>4
<1>6. x \in 1 .. n /\ x \notin T
  BY <1>1, <1>4
<1>7. x - 1 \in 0 .. n /\ x - 1 < x
  BY <1>6
<1>8. x - 1 \in T
  BY <1>1, <1>5, <1>7
<1> QED
  BY <1>6, <1>8

(* Packets.  Only the writer's half sends data, with its size, and only    *)
(* the reader's half tells of what has been dequeued.                      *)
PacketFields == {"type", "n", "size", "data", "wait", "ack"}
Packet(h, p) ==
  /\ p.type \in Types /\ p.n \in Int /\ p.size \in Int /\ Len(p.data) \in Nat
  /\ p.type = "enqueue" => h = "write" /\ p.n = Len(p.data)
  /\ p.type # "enqueue" => p.data = <<>>
  /\ p.type = "dequeue" => h = "read" /\ p.n \in Nat
Packets(h, s) ==
  /\ Len(s) \in Nat /\ s = [i \in 1 .. Len(s) |-> s[i]]
  /\ \A i \in 1 .. Len(s) : Packet(h, s[i])

Tells(p, t) == IF p.type = t THEN p.n ELSE 0

LEMMA SumsAre ==
  ASSUME NEW h \in Half, NEW s, Packets(h, s), NEW t
  PROVE  /\ Sums(s, t)[0] = 0
         /\ \A i \in 1 .. Len(s) : Sums(s, t)[i] = Sums(s, t)[i - 1] + Tells(s[i], t)
         /\ \A i \in 0 .. Len(s) : Sums(s, t)[i] \in Int
         /\ \A i \in 1 .. Len(s) : Tells(s[i], t) \in Int
<1>1. Sums(s, t) = [i \in 0 .. Len(s) |->
                      IF i = 0 THEN 0 ELSE Sums(s, t)[i - 1] + Tells(s[i], t)]
  BY DEF Sums, Tells
<1>2. \A i \in 1 .. Len(s) : Tells(s[i], t) \in Int
  BY DEF Packets, Packet, Tells
<1>3. PICK n \in Nat : n = Len(s)
  BY DEF Packets
<1>4. PICK f : f = Sums(s, t)
  OBVIOUS
<1>5. PICK T : T = {i \in 0 .. n : f[i] \in Int}
  OBVIOUS
<1>6. f[0] = 0 /\ \A i \in 1 .. n : f[i] = f[i - 1] + Tells(s[i], t)
  BY <1>1, <1>3, <1>4
<1>7. 0 \in T
  BY <1>5, <1>6
<1>8. \A i \in 1 .. n : i - 1 \in T => i \in T
  BY <1>2, <1>3, <1>5, <1>6
<1>9. \A i \in 0 .. n : i \in T
  BY <1>7, <1>8, Positions
<1> QED
  BY <1>2, <1>3, <1>4, <1>5, <1>6, <1>9

(* A prefix of a sequence has the same sums.                               *)
LEMMA SumsPrefix ==
  ASSUME NEW h \in Half, NEW s, Packets(h, s), NEW u, Packets(h, u), NEW t,
         Len(s) <= Len(u), \A i \in 1 .. Len(s) : u[i] = s[i]
  PROVE  \A i \in 0 .. Len(s) : Sums(u, t)[i] = Sums(s, t)[i]
<1>1. PICK n \in Nat, m \in Nat : n = Len(s) /\ m = Len(u) /\ n <= m
  BY DEF Packets
<1>2. PICK f, g : f = Sums(s, t) /\ g = Sums(u, t)
  OBVIOUS
<1>3. f[0] = 0 /\ \A i \in 1 .. n : f[i] = f[i - 1] + Tells(s[i], t)
  BY <1>1, <1>2, SumsAre
<1>4. g[0] = 0 /\ \A i \in 1 .. m : g[i] = g[i - 1] + Tells(u[i], t)
  BY <1>1, <1>2, SumsAre
<1>5. \A i \in 1 .. n : g[i] = g[i - 1] + Tells(s[i], t)
  BY <1>1, <1>4
<1>6. PICK T : T = {i \in 0 .. n : g[i] = f[i]}
  OBVIOUS
<1>7. 0 \in T
  BY <1>3, <1>4, <1>6
<1>8. \A i \in 1 .. n : i - 1 \in T => i \in T
  BY <1>3, <1>5, <1>6
<1>9. \A i \in 0 .. n : i \in T
  BY <1>7, <1>8, Positions
<1> QED
  BY <1>1, <1>2, <1>6, <1>9

(* The sum over two sequences, one after the other.                        *)
EndsWith(u, k, s) == Len(u) = k + Len(s) /\ \A i \in 1 .. Len(s) : u[k + i] = s[i]

LEMMA SumsShifted ==
  ASSUME NEW h \in Half, NEW s, Packets(h, s), NEW u, Packets(h, u), NEW t, NEW k \in Nat,
         EndsWith(u, k, s)
  PROVE  \A i \in 0 .. Len(s) : Sums(u, t)[k + i] = Sums(u, t)[k] + Sums(s, t)[i]
<1>1. PICK n \in Nat, m \in Nat : n = Len(s) /\ m = Len(u) /\ m = k + n
  BY DEF Packets, EndsWith
<1>2. PICK f, g : f = Sums(s, t) /\ g = Sums(u, t)
  OBVIOUS
<1>3. f[0] = 0 /\ \A i \in 1 .. n : f[i] = f[i - 1] + Tells(s[i], t)
  BY <1>1, <1>2, SumsAre
<1>4. \A i \in 1 .. m : g[i] = g[i - 1] + Tells(u[i], t)
  BY <1>1, <1>2, SumsAre
<1>5. \A i \in 1 .. n : g[k + i] = g[k + (i - 1)] + Tells(s[i], t)
  <2>1. SUFFICES ASSUME NEW i \in 1 .. n PROVE g[k + i] = g[k + (i - 1)] + Tells(s[i], t)
    OBVIOUS
  <2>2. k + i \in 1 .. m /\ (k + i) - 1 = k + (i - 1)
    BY <1>1
  <2> QED
    BY <1>1, <1>4, <2>2 DEF EndsWith
<1>6. /\ \A i \in 0 .. n : f[i] \in Int
      /\ \A i \in 0 .. m : g[i] \in Int
      /\ \A i \in 1 .. n : Tells(s[i], t) \in Int
  BY <1>1, <1>2, SumsAre
<1>7. PICK a \in Int : a = g[k]
  BY <1>1, <1>6
<1>8. PICK T : T = {i \in 0 .. n : g[k + i] = a + f[i]}
  OBVIOUS
<1>9. 0 \in T
  <2>1. k + 0 = k
    OBVIOUS
  <2> QED
    BY <1>3, <1>7, <1>8, <2>1
<1>10. \A i \in 1 .. n : i - 1 \in T => i \in T
  <2>1. SUFFICES ASSUME NEW i \in 1 .. n, i - 1 \in T PROVE i \in T
    OBVIOUS
  <2>2. i - 1 \in 0 .. n /\ g[k + (i - 1)] = a + f[i - 1]
    BY <1>8, <2>1
  <2>3. PICK b \in Int, c \in Int : b = f[i - 1] /\ c = Tells(s[i], t)
    BY <1>6, <2>2
  <2>4. g[k + i] = (a + b) + c /\ f[i] = b + c
    BY <1>3, <1>5, <2>2, <2>3
  <2>5. g[k + i] = a + f[i]
    BY <2>4
  <2> QED
    BY <1>8, <2>5
<1>11. \A i \in 0 .. n : i \in T
  BY <1>9, <1>10, Positions
<1> QED
  BY <1>1, <1>2, <1>7, <1>8, <1>11

(* Sequences of packets one after the other, and parts of them.            *)
LEMMA SumZero ==
  ASSUME NEW h \in Half, NEW s, Packets(h, s), NEW t,
         \A i \in 1 .. Len(s) : Tells(s[i], t) = 0
  PROVE  \A i \in 0 .. Len(s) : Sums(s, t)[i] = 0
<1>1. PICK n \in Nat : n = Len(s)
  BY DEF Packets
<1>2. PICK f : f = Sums(s, t)
  OBVIOUS
<1>3. f[0] = 0 /\ \A i \in 1 .. n : f[i] = f[i - 1] + 0
  BY <1>1, <1>2, SumsAre, SMTT(30)
<1>4. PICK T : T = {i \in 0 .. n : f[i] = 0}
  OBVIOUS
<1>5. 0 \in T
  BY <1>3, <1>4
<1>6. \A i \in 1 .. n : i - 1 \in T => i \in T
  BY <1>3, <1>4
<1>7. \A i \in 0 .. n : i \in T
  BY <1>5, <1>6, Positions
<1> QED
  BY <1>1, <1>2, <1>4, <1>7

After(h, s, u, v) ==
  /\ Packets(h, v) /\ Len(v) = Len(s) + Len(u)
  /\ \A i \in 1 .. Len(s) : v[i] = s[i]
  /\ \A i \in 1 .. Len(u) : v[Len(s) + i] = u[i]
  /\ \A t : /\ Sum(v, t) = Sum(s, t) + Sum(u, t)
            /\ \A i \in 0 .. Len(s) : Sums(v, t)[i] = Sums(s, t)[i]

LEMMA SumConcat ==
  ASSUME NEW h \in Half, NEW s, Packets(h, s), NEW u, Packets(h, u)
  PROVE  After(h, s, u, s \o u)
<1>1. PICK n \in Nat, m \in Nat : n = Len(s) /\ m = Len(u)
  BY DEF Packets
<1>2. PICK P : P = {s[i] : i \in 1 .. n} \cup {u[i] : i \in 1 .. m}
  OBVIOUS
<1>3. s \in Seq(P) /\ u \in Seq(P)
  <2>1. s = [i \in 1 .. n |-> s[i]] /\ u = [i \in 1 .. m |-> u[i]]
    BY <1>1 DEF Packets
  <2>2. (\A i \in 1 .. n : s[i] \in P) /\ (\A i \in 1 .. m : u[i] \in P)
    BY <1>2
  <2>3. s \in [1 .. n -> P] /\ u \in [1 .. m -> P]
    BY <2>1, <2>2
  <2> QED
    BY <2>3, IsASeq
<1>4. PICK v : v = s \o u
  OBVIOUS
<1>5. /\ v \in Seq(P) /\ Len(v) = n + m
      /\ \A i \in 1 .. n + m : v[i] = IF i <= n THEN s[i] ELSE u[i - n]
  BY <1>1, <1>3, <1>4, ConcatProperties
<1>6. \A i \in 1 .. n : v[i] = s[i]
  BY <1>5
<1>7. \A i \in 1 .. m : v[n + i] = u[i]
  <2>1. SUFFICES ASSUME NEW i \in 1 .. m PROVE v[n + i] = u[i]
    OBVIOUS
  <2>2. n + i \in 1 .. n + m /\ ~(n + i <= n) /\ (n + i) - n = i
    OBVIOUS
  <2> QED
    BY <1>5, <2>2
<1>8. Packets(h, v)
  <2>1. v = [i \in 1 .. n + m |-> v[i]]
    BY <1>5, LenProperties
  <2>2. ASSUME NEW i \in 1 .. n + m PROVE Packet(h, v[i])
    <3>1. CASE i <= n
      BY <1>1, <1>5, <3>1 DEF Packets
    <3>2. CASE ~(i <= n)
      <4>1. i - n \in 1 .. m
        BY <3>2
      <4> QED
        BY <1>1, <1>5, <3>2, <4>1 DEF Packets
    <3> QED
      BY <3>1, <3>2
  <2> QED
    BY <1>5, <2>1, <2>2 DEF Packets
<1>9. ASSUME NEW t
      PROVE  /\ Sum(v, t) = Sum(s, t) + Sum(u, t)
             /\ \A i \in 0 .. n : Sums(v, t)[i] = Sums(s, t)[i]
  <2>1. \A i \in 0 .. n : Sums(v, t)[i] = Sums(s, t)[i]
    BY <1>1, <1>5, <1>6, <1>8, SumsPrefix, SMTT(30)
  <2>2. \A i \in 0 .. m : Sums(v, t)[n + i] = Sums(v, t)[n] + Sums(u, t)[i]
    <3>1. EndsWith(v, n, u)
      BY <1>1, <1>5, <1>7 DEF EndsWith
    <3>2. \A i \in 0 .. Len(u) : Sums(v, t)[n + i] = Sums(v, t)[n] + Sums(u, t)[i]
      BY <1>8, <3>1, SumsShifted
    <3> QED
      BY <1>1, <3>2
  <2> QED
    BY <1>1, <1>5, <2>1, <2>2 DEF Sum
<1> QED
  BY <1>1, <1>4, <1>5, <1>6, <1>7, <1>8, <1>9 DEF After

LEMMA SumAppend ==
  ASSUME NEW h \in Half, NEW s, Packets(h, s), NEW p, Packet(h, p)
  PROVE  /\ Packets(h, Append(s, p)) /\ Len(Append(s, p)) = Len(s) + 1
         /\ Append(s, p)[Len(s) + 1] = p
         /\ \A i \in 1 .. Len(s) : Append(s, p)[i] = s[i]
         /\ \A t : /\ Sum(Append(s, p), t) = Sum(s, t) + Tells(p, t)
                   /\ \A i \in 0 .. Len(s) : Sums(Append(s, p), t)[i] = Sums(s, t)[i]
<1>1. PICK u : u = <<p>>
  OBVIOUS
<1>2. Packets(h, u) /\ Len(u) = 1 /\ u[1] = p
  BY <1>1 DEF Packets
<1>3. \A t : Sum(u, t) = Tells(p, t)
  <2>1. SUFFICES ASSUME NEW t PROVE Sum(u, t) = Tells(p, t)
    OBVIOUS
  <2>2. Sums(u, t)[0] = 0 /\ Sums(u, t)[1] = Sums(u, t)[1 - 1] + Tells(u[1], t) /\ Tells(u[1], t) \in Int
    BY <1>2, SumsAre, SMTT(30)
  <2> QED
    BY <1>2, <2>2 DEF Sum
<1>4. Append(s, p) = s \o u
  <2>1. PICK n \in Nat : n = Len(s) /\ s = [i \in 1 .. n |-> s[i]]
    BY DEF Packets
  <2>2. PICK P : P = {s[i] : i \in 1 .. n} \cup {p}
    OBVIOUS
  <2>3. s \in Seq(P) /\ p \in P
    <3>1. s \in [1 .. n -> P]
      BY <2>1, <2>2
    <3> QED
      BY <2>2, <3>1, IsASeq
  <2> QED
    BY <1>1, <2>3, AppendIsConcat
<1>5. After(h, s, u, s \o u)
  BY <1>2, SumConcat
<1>6. 1 \in 1 .. Len(u)
  BY <1>2
<1> QED
  BY <1>2, <1>3, <1>4, <1>5, <1>6 DEF After

LEMMA SumParts ==
  ASSUME NEW h \in Half, NEW s, Packets(h, s), NEW n \in 0 .. Len(s)
  PROVE  /\ Packets(h, SubSeq(s, 1, n)) /\ Len(SubSeq(s, 1, n)) = n
         /\ Packets(h, SubSeq(s, n + 1, Len(s))) /\ Len(SubSeq(s, n + 1, Len(s))) = Len(s) - n
         /\ \A i \in 1 .. n : SubSeq(s, 1, n)[i] = s[i]
         /\ \A i \in 1 .. Len(s) - n : SubSeq(s, n + 1, Len(s))[i] = s[n + i]
         /\ \A t : /\ \A i \in 0 .. n : Sums(SubSeq(s, 1, n), t)[i] = Sums(s, t)[i]
                   /\ \A i \in 0 .. Len(s) - n :
                        Sums(s, t)[n + i] = Sums(s, t)[n] + Sums(SubSeq(s, n + 1, Len(s)), t)[i]
<1>1. PICK m \in Nat : m = Len(s) /\ s = [i \in 1 .. m |-> s[i]] /\ n \in Nat /\ n <= m
  BY DEF Packets
<1>2. PICK a, b : a = SubSeq(s, 1, n) /\ b = SubSeq(s, n + 1, m)
  OBVIOUS
<1>3. a = [i \in 1 .. n |-> s[i]]
  <2>1. a = [i \in 1 .. (n - 1 + 1) |-> s[i + 1 - 1]]
    BY <1>2 DEF SubSeq
  <2> QED
    BY <1>1, <2>1
<1>4. b = [i \in 1 .. m - n |-> s[n + i]]
  <2>1. b = [i \in 1 .. (m - (n + 1) + 1) |-> s[i + (n + 1) - 1]]
    BY <1>2 DEF SubSeq
  <2>2. m - (n + 1) + 1 = m - n /\ \A i \in 1 .. m - n : i + (n + 1) - 1 = n + i
    BY <1>1
  <2> QED
    BY <2>1, <2>2
<1>5. Len(a) = n /\ Len(b) = m - n /\ m - n \in Nat
  BY <1>1, <1>3, <1>4
<1>6. Packets(h, a)
  <2>1. \A i \in 1 .. n : i \in 1 .. m
    BY <1>1
  <2>2. \A i \in 1 .. n : Packet(h, a[i])
    BY <1>1, <1>3, <2>1 DEF Packets
  <2> QED
    BY <1>1, <1>3, <1>5, <2>2 DEF Packets
<1>7. Packets(h, b)
  <2>1. \A i \in 1 .. m - n : n + i \in 1 .. m
    BY <1>1
  <2>2. \A i \in 1 .. m - n : Packet(h, b[i])
    BY <1>1, <1>4, <2>1 DEF Packets
  <2> QED
    BY <1>4, <1>5, <2>2 DEF Packets
<1>8. ASSUME NEW t
      PROVE  /\ \A i \in 0 .. n : Sums(a, t)[i] = Sums(s, t)[i]
             /\ \A i \in 0 .. m - n : Sums(s, t)[n + i] = Sums(s, t)[n] + Sums(b, t)[i]
  <2>1. \A i \in 1 .. n : s[i] = a[i]
    BY <1>3
  <2>2. \A i \in 1 .. m - n : s[n + i] = b[i]
    BY <1>4
  <2>3. \A i \in 0 .. n : Sums(s, t)[i] = Sums(a, t)[i]
    <3>1. Len(a) <= Len(s) /\ \A i \in 1 .. Len(a) : s[i] = a[i]
      BY <1>1, <1>5, <2>1
    <3>2. \A i \in 0 .. Len(a) : Sums(s, t)[i] = Sums(a, t)[i]
      BY <1>6, <3>1, SumsPrefix
    <3> QED
      BY <1>5, <3>2
  <2>4. m = n + (m - n)
    BY <1>1
  <2>5. \A i \in 0 .. m - n : Sums(s, t)[n + i] = Sums(s, t)[n] + Sums(b, t)[i]
    <3>1. EndsWith(s, n, b)
      BY <1>1, <1>5, <2>2, <2>4 DEF EndsWith
    <3>2. \A i \in 0 .. Len(b) : Sums(s, t)[n + i] = Sums(s, t)[n] + Sums(b, t)[i]
      BY <1>1, <1>7, <3>1, SumsShifted
    <3> QED
      BY <1>5, <3>2
  <2> QED
    BY <2>3, <2>5
<1> QED
  <2>1. /\ \A i \in 1 .. n : a[i] = s[i]
        /\ \A i \in 1 .. m - n : b[i] = s[n + i]
    BY <1>3, <1>4
  <2> QED
    BY <1>1, <1>2, <1>5, <1>6, <1>7, <1>8, <2>1

---------------------------------------------------------------------------
(* The bytes from position a on, c of them: byte a + 1 to byte a + c.      *)
Run(a, c) == [j \in 1 .. c |-> a + j]

LEMMA RunIs ==
  ASSUME NEW a \in Int, NEW c \in Nat
  PROVE  Run(a, c) \in Seq(Int) /\ Len(Run(a, c)) = c
<1>1. \A j \in 1 .. c : a + j \in Int
  OBVIOUS
<1> QED
  BY <1>1 DEF Run

(* A run is a run of c bytes and the run of the n bytes after it.          *)
Joins(a, c, n) ==
  /\ Run(a, c) \o Run(a + c, n) = Run(a, c + n)
  /\ SubSeq(Run(a, c + n), 1, c) = Run(a, c)
  /\ SubSeq(Run(a, c + n), c + 1, c + n) = Run(a + c, n)

LEMMA RunParts ==
  ASSUME NEW a \in Int, NEW c \in Nat, NEW n \in 0 .. c
  PROVE  /\ SubSeq(Run(a, c), 1, n) = Run(a, n)
         /\ SubSeq(Run(a, c), n + 1, c) = Run(a + n, c - n)
<1>1. PICK s \in Seq(Int) : s = Run(a, c) /\ Len(s) = c /\ \A j \in 1 .. c : s[j] = a + j
  BY RunIs DEF Run
<1>2. SubSeq(s, 1, n) = [i \in 1 .. n |-> s[i]]
  BY <1>1
<1>3. SubSeq(s, n + 1, c) = [i \in 1 .. c - n |-> s[i + n]]
  BY <1>1
<1>4. \A i \in 1 .. n : s[i] = a + i
  BY <1>1
<1>5. \A i \in 1 .. c - n : s[i + n] = a + n + i
  <2>1. SUFFICES ASSUME NEW i \in 1 .. c - n PROVE s[i + n] = a + n + i
    OBVIOUS
  <2>2. i + n \in 1 .. c /\ a + (i + n) = a + n + i
    OBVIOUS
  <2> QED
    BY <1>1, <2>2
<1> QED
  BY <1>1, <1>2, <1>3, <1>4, <1>5 DEF Run

LEMMA RunJoin ==
  ASSUME NEW a \in Int, NEW c \in Nat, NEW n \in Nat
  PROVE  Joins(a, c, n)
<1> PICK b \in Int : b = a + c
  OBVIOUS
<1>1. PICK s \in Seq(Int) : s = Run(a, c) /\ Len(s) = c /\ \A j \in 1 .. c : s[j] = a + j
  BY RunIs DEF Run
<1>2. PICK u \in Seq(Int) : u = Run(b, n) /\ Len(u) = n /\ \A j \in 1 .. n : u[j] = b + j
  BY RunIs DEF Run
<1>3. PICK v : v = s \o u
  OBVIOUS
<1>4. /\ v \in Seq(Int) /\ Len(v) = c + n
      /\ \A i \in 1 .. c + n : v[i] = IF i <= c THEN s[i] ELSE u[i - c]
  <2>1. v \in Seq(Int) /\ Len(v) = Len(s) + Len(u)
    BY <1>3, ConcatProperties, Zenon
  <2>2. \A i \in 1 .. Len(s) + Len(u) : v[i] = IF i <= Len(s) THEN s[i] ELSE u[i - Len(s)]
    BY <1>3, ConcatProperties, Zenon
  <2> QED
    BY <1>1, <1>2, <2>1, <2>2
<1>5. ASSUME NEW i \in 1 .. c + n PROVE v[i] = a + i
  <2>1. CASE i <= c
    BY <1>1, <1>4, <2>1
  <2>2. CASE ~(i <= c)
    <3>1. i - c \in 1 .. n /\ b + (i - c) = a + i
      BY <2>2
    <3> QED
      BY <1>2, <1>4, <2>2, <3>1
  <2> QED
    BY <2>1, <2>2
<1>6. v = [i \in 1 .. c + n |-> v[i]]
  BY <1>4, LenProperties
<1>7. Run(a, c) \o Run(b, n) = Run(a, c + n)
  BY <1>1, <1>2, <1>3, <1>5, <1>6 DEF Run
<1>8. PICK e \in Nat : e = c + n /\ c \in 0 .. e /\ e - c = n
  OBVIOUS
<1>9. SubSeq(Run(a, e), 1, c) = Run(a, c) /\ SubSeq(Run(a, e), c + 1, e) = Run(a + c, e - c)
  BY <1>8, RunParts
<1> QED
  BY <1>7, <1>8, <1>9 DEF Joins

---------------------------------------------------------------------------
(* What is always true of a half.  Its buffer holds the data and, at the   *)
(* reader, the packet that is being read; a node that holds a pointer      *)
(* still has the data, or the space, that it asked for.                    *)
Fields == {"len", "max", "data", "rlen", "wlen", "bytes", "shut", "inop", "req", "pending",
           "tagUpdated", "sentEnd", "dead", "waits", "known", "seen", "tag", "mock", "sig",
           "pc", "want", "grown", "args", "asleep", "locked", "apc", "term", "win", "eof", "fpc"}
IsHalf(x) == x = [f \in Fields |-> x[f]]

Sizes(x) ==
  /\ x.len \in Int /\ x.max \in Nat /\ x.rlen \in Int /\ x.wlen \in Int
  /\ x.bytes \in Int /\ x.want \in Nat /\ x.req["read"] \in Int /\ x.req["write"] \in Int
  /\ x.req = [d \in Half |-> x.req[d]] /\ x.tag \in Int
  /\ Len(x.data) \in Nat /\ Len(x.win) \in Nat
  /\ x.args = <<x.args[1], x.args[2], x.args[3]>> /\ x.args[1] \in Int /\ x.args[2] \in Int

(* The node has a pointer, also while it waits in a call of Grow.          *)
Holds(x) == x.pc = "held" \/ (x.pc = "growwait" /\ x.args[3] = "held")

ReadGood(x) ==
  /\ Len(x.data) + Len(x.win) <= x.len
  /\ Holds(x) => x.want <= Len(x.data)
  /\ x.bytes >= Len(x.data)
  /\ x.apc # "send" /\ (x.apc # "recv" => x.win = <<>>)
WriteGood(x) ==
  /\ Len(x.data) <= x.len
  /\ Holds(x) => x.want <= x.len - Len(x.data)
  /\ x.bytes >= 0
  /\ x.apc # "recv" /\ (x.apc = "send" => Len(x.win) <= Len(x.data))

Good(h, x) ==
  /\ IsHalf(x) /\ Sizes(x)
  /\ h = "read" => ReadGood(x)
  /\ h = "write" => WriteGood(x)

(* y has the data of x.                                                    *)
Same(h, x, y) ==
  /\ Good(h, y) /\ y.data = x.data /\ y.win = x.win /\ y.bytes = x.bytes
  /\ y.apc = "send" <=> x.apc = "send"
  /\ y.apc = "recv" <=> x.apc = "recv"

LEMMA SameTwice ==
  ASSUME NEW h \in Half, NEW x, NEW y, NEW z, Same(h, x, y), Same(h, y, z)
  PROVE  Same(h, x, z)
  BY DEF Same

LEMMA SameSelf ==
  ASSUME NEW h \in Half, NEW x, Good(h, x)
  PROVE  Same(h, x, x)
  BY DEF Same

(* Nothing that Good speaks of is changed.                                 *)
Kept(x, y) ==
  /\ IsHalf(y) /\ y.len = x.len /\ y.max = x.max /\ y.rlen = x.rlen /\ y.wlen = x.wlen
  /\ y.bytes = x.bytes /\ y.want = x.want /\ y.req = x.req /\ y.data = x.data
  /\ y.win = x.win /\ y.args = x.args /\ y.apc = x.apc /\ y.pc = x.pc
  /\ y.tag = x.tag

LEMMA KeptIsSame ==
  ASSUME NEW h \in Half, NEW x, NEW y, Good(h, x), Kept(x, y)
  PROVE  Same(h, x, y)
<1>1. Sizes(y)
  BY DEF Good, Kept, Sizes
<1>2. h = "read" => ReadGood(y)
  BY DEF Good, Kept, ReadGood, Holds
<1>3. h = "write" => WriteGood(y)
  BY DEF Good, Kept, WriteGood, Holds
<1> QED
  BY <1>1, <1>2, <1>3 DEF Good, Kept, Same

LEMMA SignalSame ==
  ASSUME NEW h \in Half, NEW x, Good(h, x)
  PROVE  Kept(x, Signal(x)) /\ Same(h, x, Signal(x))
<1>1. Kept(x, Signal(x))
  BY DEF Signal, Kept, Good, IsHalf, Fields
<1> QED
  BY <1>1, KeptIsSame

LEMMA NotifySame ==
  ASSUME NEW h \in Half, NEW x, Good(h, x), NEW d
  PROVE  Same(h, x, Notify(h, x, d))
<1>1. Kept(x, [x EXCEPT !.asleep = FALSE]) /\ Kept(x, x)
  BY DEF Kept, Good, IsHalf, Fields
<1>2. Notify(h, x, d) = [x EXCEPT !.asleep = FALSE] \/ Notify(h, x, d) = x
  BY DEF Notify
<1> QED
  BY <1>1, <1>2, KeptIsSame

LEMMA ShutSame ==
  ASSUME NEW h \in Half, NEW x, Good(h, x)
  PROVE  /\ \A d : Same(h, x, ShutEnd(x, d)) /\ Kept(x, ShutEnd(x, d))
         /\ Same(h, x, UnlockedShutdown(x)) /\ Kept(x, UnlockedShutdown(x))
<1>1. ASSUME NEW d PROVE Kept(x, ShutEnd(x, d))
  BY DEF Signal, ShutEnd, Kept, Good, IsHalf, Fields
<1>2. Kept(x, UnlockedShutdown(x))
  BY DEF Signal, UnlockedShutdown, Kept, Good, IsHalf, Fields
<1> QED
  BY <1>1, <1>2, KeptIsSame

(* y may also have more space, and its node need not be where it was.      *)
Fit(x, y) ==
  /\ IsHalf(y) /\ Sizes(y)
  /\ y.len >= x.len /\ y.bytes = x.bytes /\ y.data = x.data /\ y.win = x.win
  /\ y.apc = "send" <=> x.apc = "send"
  /\ y.apc = "recv" <=> x.apc = "recv"
  /\ Holds(y) => Holds(x) /\ y.want = x.want

LEMMA FitIsSame ==
  ASSUME NEW h \in Half, NEW x, NEW y, Good(h, x), Fit(x, y)
  PROVE  Same(h, x, y)
<1>1. PICK d \in Nat, v \in Nat, l \in Int, l2 \in Int, b \in Int, w \in Nat, w2 \in Nat :
        /\ d = Len(x.data) /\ v = Len(x.win) /\ l = x.len /\ l2 = y.len /\ b = x.bytes
        /\ w = x.want /\ w2 = y.want /\ l2 >= l
  BY DEF Good, Fit, Sizes
<1>2. ASSUME h = "read" PROVE ReadGood(y)
  <2>1. d + v <= l /\ (Holds(x) => w <= d) /\ b >= d
    BY <1>1, <1>2 DEF Good, ReadGood
  <2>2. d + v <= l2 /\ (Holds(y) => w2 <= d)
    <3>1. Holds(y) => Holds(x) /\ w2 = w
      BY <1>1 DEF Fit
    <3>2. l2 >= l
      BY <1>1
    <3>3. d + v <= l2
      BY <2>1, <3>2
    <3> QED
      BY <2>1, <3>1, <3>3
  <2>3. Len(y.data) = d /\ Len(y.win) = v /\ y.bytes = b
    BY <1>1 DEF Fit
  <2>4. y.apc # "send" /\ (y.apc # "recv" => y.win = <<>>)
    BY <1>2 DEF Good, ReadGood, Fit
  <2> QED
    BY <1>1, <2>1, <2>2, <2>3, <2>4 DEF ReadGood
<1>3. ASSUME h = "write" PROVE WriteGood(y)
  <2>1. d <= l /\ (Holds(x) => w <= l - d) /\ b >= 0
    BY <1>1, <1>3 DEF Good, WriteGood
  <2>2. d <= l2 /\ (Holds(y) => w2 <= l2 - d)
    <3>1. Holds(y) => Holds(x) /\ w2 = w
      BY <1>1 DEF Fit
    <3>2. l2 >= l
      BY <1>1
    <3> QED
      BY <2>1, <3>1, <3>2
  <2>3. Len(y.data) = d /\ y.win = x.win /\ y.data = x.data /\ y.bytes = b
    BY <1>1 DEF Fit
  <2>4. y.apc # "recv" /\ (y.apc = "send" => Len(y.win) <= Len(y.data))
    BY <1>3, <2>3 DEF Good, WriteGood, Fit
  <2> QED
    BY <1>1, <2>1, <2>2, <2>3, <2>4 DEF WriteGood
<1> QED
  BY <1>2, <1>3 DEF Good, Fit, Same

---------------------------------------------------------------------------
(* Growth.                                                                 *)
LEMMA LargerIs ==
  ASSUME NEW a \in Int, NEW b \in Int
  PROVE  Larger(a, b) \in Int /\ Larger(a, b) >= a /\ Larger(a, b) >= b
  BY DEF Larger

LEMMA QueueLengthIs ==
  ASSUME NEW a \in Int, NEW b \in Int, NEW h \in Half
  PROVE  QueueLength(a, b, h) \in Int
<1>1. PICK p \in Nat, r \in Nat \ {0} : p = Alpha[1] /\ r = Alpha[2]
  BY AlphaAssumption
<1>2. a * p \in Int
  OBVIOUS
<1>3. (a * p) \div r \in Int
  BY <1>2
<1>4. PICK c \in Int : c = WriterPart(a)
  BY <1>1, <1>3 DEF WriterPart
<1>5. a - c \in Int
  OBVIOUS
<1>6. (IF h = "read" THEN a - WriterPart(a) ELSE WriterPart(a)) \in Int
  BY <1>4, <1>5
<1> QED
  BY <1>6, LargerIs DEF QueueLength

(* Only the sizes differ.                                                  *)
Wider(x, y) ==
  /\ IsHalf(y) /\ y.len \in Int /\ y.len >= x.len /\ y.max \in Nat
  /\ y.rlen \in Int /\ y.wlen \in Int
  /\ \A f \in Fields \ {"len", "max", "rlen", "wlen"} : y[f] = x[f]

LEMMA WiderFits ==
  ASSUME NEW h \in Half, NEW x, NEW y, Good(h, x), Wider(x, y)
  PROVE  Fit(x, y) /\ Same(h, x, y) /\ y.pc = x.pc
<1>1. /\ y.data = x.data /\ y.bytes = x.bytes /\ y.want = x.want /\ y.req = x.req
      /\ y.win = x.win /\ y.args = x.args /\ y.apc = x.apc /\ y.pc = x.pc /\ y.tag = x.tag
  BY DEF Wider, Fields
<1>2. Sizes(y)
  BY <1>1 DEF Good, Sizes, Wider
<1>3. Fit(x, y)
  BY <1>1, <1>2 DEF Good, Fit, Wider, Holds
<1> QED
  BY <1>1, <1>3, FitIsSame

LEMMA GrowBufferWider ==
  ASSUME NEW h \in Half, NEW x, Good(h, x), NEW a \in Int, NEW b \in Int
  PROVE  Wider(x, GrowBuffer(x, a, b)) /\ GrowBuffer(x, a, b).len >= a
<1>1. PICK l \in Int, m \in Nat : l = x.len /\ m = x.max
  BY DEF Good, Sizes
<1>2. PICK m2 \in Nat : m2 = Larger(m, b)
  BY LargerIs
<1>3. PICK l2 \in Int : l2 = Larger(Larger(l, a), m2) /\ l2 >= l /\ l2 >= a
  <2>1. PICK k \in Int : k = Larger(l, a) /\ k >= l /\ k >= a
    BY LargerIs
  <2>2. PICK j \in Int : j = Larger(k, m2) /\ j >= k
    BY LargerIs
  <2> QED
    BY <2>1, <2>2
<1>4. CASE a <= l /\ b <= m
  <2>1. GrowBuffer(x, a, b) = x
    BY <1>1, <1>4 DEF GrowBuffer
  <2> QED
    BY <1>1, <1>4, <2>1 DEF Wider, Good, Sizes
<1>5. CASE ~(a <= l /\ b <= m)
  <2>1. GrowBuffer(x, a, b) = [x EXCEPT !.max = m2, !.len = l2]
    BY <1>1, <1>2, <1>3, <1>5 DEF GrowBuffer
  <2>2. Wider(x, [x EXCEPT !.max = m2, !.len = l2]) /\ [x EXCEPT !.max = m2, !.len = l2].len = l2
    BY <1>1, <1>3 DEF Wider, Good, Sizes, IsHalf, Fields
  <2> QED
    BY <1>3, <2>1, <2>2
<1> QED
  BY <1>4, <1>5

LEMMA ResizeWider ==
  ASSUME NEW h \in Half, NEW x, Good(h, x), NEW a \in Int, NEW b \in Int
  PROVE  Wider(x, Resize(h, x, a, b))
<1>1. PICK m \in Int : m = Larger(x.max, b)
  <2>1. PICK k \in Int : k = x.max
    BY DEF Good, Sizes
  <2> QED
    BY <2>1, LargerIs
<1>2. PICK r \in Int, w \in Int : r = QueueLength(a, m, "read") /\ w = QueueLength(a, m, "write")
  BY QueueLengthIs DEF Half
<1>3. PICK y : y = [x EXCEPT !.rlen = r, !.wlen = w]
  OBVIOUS
<1>4. Wider(x, y)
  <2>1. IsHalf(y) /\ y.rlen = r /\ y.wlen = w /\ \A f \in Fields \ {"rlen", "wlen"} : y[f] = x[f]
    BY <1>3 DEF Good, IsHalf, Fields
  <2>2. y.len = x.len /\ y.max = x.max
    BY <2>1 DEF Fields
  <2> QED
    BY <2>1, <2>2, SMTT(30) DEF Wider, Good, Sizes
<1>5. Good(h, y)
  BY <1>4, WiderFits DEF Same
<1>6. PICK l \in Int : l = IF h = "read" THEN r ELSE w
  OBVIOUS
<1>7. Resize(h, x, a, b) = GrowBuffer(y, l, m)
  BY <1>1, <1>2, <1>3, <1>6 DEF Resize
<1>8. Wider(y, GrowBuffer(y, l, m))
  BY <1>5, GrowBufferWider
<1> QED
  <2>1. PICK z : z = GrowBuffer(y, l, m) /\ Wider(y, z)
    BY <1>8
  <2>2. PICK l1 \in Int, l2 \in Int, l3 \in Int : l1 = x.len /\ l2 = y.len /\ l3 = z.len /\ l1 <= l2 /\ l2 <= l3
    BY <1>4, <2>1 DEF Good, Sizes, Wider
  <2>3. Wider(x, z)
    BY <1>4, <2>1, <2>2 DEF Wider
  <2> QED
    BY <1>7, <2>1, <2>3

LEMMA UnlockedGrowSame ==
  ASSUME NEW h \in Half, NEW x, Good(h, x), NEW a \in Int, NEW b \in Int
  PROVE  Same(h, x, UnlockedGrow(h, x, a, b))
<1>1. CASE UnlockedGrow(h, x, a, b) = x
  BY <1>1, SameSelf
<1>2. CASE UnlockedGrow(h, x, a, b)
             = [Signal(x) EXCEPT !.pc = "growwait", !.locked = FALSE, !.args = <<a, b, x.pc>>]
  <2>1. PICK y : y = Signal(x) /\ Kept(x, y) /\ Same(h, x, y)
    BY SignalSame
  <2>2. PICK z : z = [y EXCEPT !.pc = "growwait", !.locked = FALSE, !.args = <<a, b, x.pc>>]
    OBVIOUS
  <2>3. /\ IsHalf(z) /\ z.pc = "growwait" /\ z.args = <<a, b, x.pc>>
        /\ \A f \in Fields \ {"pc", "locked", "args"} : z[f] = y[f]
    BY <2>1, <2>2, ZenonT(40) DEF Kept, IsHalf, Fields
  <2>4. /\ z.data = y.data /\ z.bytes = y.bytes /\ z.want = y.want /\ z.req = y.req
        /\ z.win = y.win /\ z.apc = y.apc /\ z.len = y.len /\ z.max = y.max
        /\ z.rlen = y.rlen /\ z.wlen = y.wlen /\ z.tag = y.tag
    BY <2>3 DEF Fields
  <2>5. Sizes(z)
    BY <2>1, <2>3, <2>4 DEF Same, Good, Sizes
  <2>6. Holds(z) => Holds(y)
    <3>1. z.args[3] = x.pc /\ y.pc = x.pc
      BY <2>1, <2>3 DEF Kept
    <3> QED
      BY <2>3, <3>1 DEF Holds
  <2>7. Fit(y, z)
    BY <2>1, <2>3, <2>4, <2>5, <2>6 DEF Fit, Same, Good, Sizes
  <2>8. Same(h, y, z)
    BY <2>1, <2>7, FitIsSame DEF Same
  <2> QED
    BY <1>2, <2>1, <2>2, <2>8, SameTwice
<1>3. CASE UnlockedGrow(h, x, a, b)
             = Signal([Resize(h, x, a, b) EXCEPT !.pending = @ \cup {"grow"}])
  <2>1. PICK y : y = Resize(h, x, a, b) /\ Same(h, x, y)
    BY ResizeWider, WiderFits
  <2>2. PICK z : z = [y EXCEPT !.pending = @ \cup {"grow"}]
    OBVIOUS
  <2>3. Kept(y, z)
    BY <2>1, <2>2 DEF Kept, Same, Good, IsHalf, Fields
  <2>4. Same(h, y, z)
    BY <2>1, <2>3, KeptIsSame DEF Same
  <2>5. Same(h, z, Signal(z))
    BY <2>4, SignalSame DEF Same
  <2> QED
    BY <1>3, <2>1, <2>2, <2>4, <2>5, SameTwice
<1> QED
  BY <1>1, <1>2, <1>3 DEF UnlockedGrow

---------------------------------------------------------------------------
(* The node, the file thread and the kernel leave the data alone, but for  *)
(* GiveBack.                                                               *)
Stays(h) ==
  /\ \E y : Same(h, q[h], y) /\ q' = [q EXCEPT ![h] = y]
  /\ UNCHANGED <<chan, written, out>>

LEMMA LoopGrowSame ==
  ASSUME NEW h \in Half, NEW x, Good(h, x), LoopGrow(h, x)
  PROVE  \E y : Same(h, x, y) /\ q' = [q EXCEPT ![h] = y]
<1>1. PICK z : z = [x EXCEPT !.grown = h = "write" /\ ~MaxGrows(x), !.pc = "loop", !.locked = TRUE]
  OBVIOUS
<1>2. /\ IsHalf(z) /\ z.pc = "loop" /\ \A f \in Fields \ {"grown", "pc", "locked"} : z[f] = x[f]
  BY <1>1, ZenonT(40) DEF Good, IsHalf, Fields
<1>3. /\ z.data = x.data /\ z.bytes = x.bytes /\ z.want = x.want /\ z.req = x.req
      /\ z.win = x.win /\ z.apc = x.apc /\ z.len = x.len /\ z.max = x.max
      /\ z.rlen = x.rlen /\ z.wlen = x.wlen /\ z.args = x.args /\ z.tag = x.tag
  BY <1>2 DEF Fields
<1>4. Sizes(z)
  BY <1>3 DEF Good, Sizes
<1>5. Fit(x, z)
  BY <1>2, <1>3, <1>4, SMTT(30) DEF Fit, Good, Sizes, Holds
<1>6. Same(h, x, z) /\ Good(h, z)
  BY <1>2, <1>5, FitIsSame DEF Same
<1>7. PICK a \in Int, b \in Int :
        /\ a = (IF MaxGrows(x) THEN 2 * x.want ELSE x.req[Other(h)] + x.want) /\ b = x.want
  <2>1. PICK w \in Nat, r \in Int : w = x.want /\ r = x.req[Other(h)]
    BY DEF Good, Sizes, Other, Half
  <2> QED
    BY <2>1
<1>8. PICK y : y = UnlockedGrow(h, z, a, b) /\ Same(h, z, y)
  BY <1>6, UnlockedGrowSame
<1>9. Same(h, y, Signal(y))
  BY <1>8, SignalSame DEF Same
<1>10. Same(h, x, Signal(y))
  BY <1>6, <1>8, <1>9, SameTwice
<1>11. q' = [q EXCEPT ![h] = Signal(y)]
  BY <1>1, <1>7, <1>8 DEF LoopGrow, Set
<1> QED
  BY <1>10, <1>11

LEMMA WaitingSame ==
  ASSUME NEW h \in Half, NEW x, Good(h, x)
  PROVE  Same(h, x, Waiting(h, x))
<1>1. PICK u : u = [x EXCEPT !.pending = @ \cup {"block"}]
  OBVIOUS
<1>2. Same(h, x, u)
  <2>1. Kept(x, u)
    BY <1>1 DEF Kept, Good, IsHalf, Fields
  <2> QED
    BY <2>1, KeptIsSame
<1>3. PICK y : y = Signal(u) /\ Same(h, u, y)
  BY <1>2, SignalSame DEF Same
<1>4. PICK z : z = [y EXCEPT !.req[h] = x.want, !.tagUpdated = FALSE, !.waits = @ + 1,
                             !.pc = "tagwait", !.asleep = TRUE]
  OBVIOUS
<1>5. /\ IsHalf(z) /\ z.pc = "tagwait" /\ z.req = [y.req EXCEPT ![h] = x.want]
      /\ \A f \in Fields \ {"req", "tagUpdated", "waits", "pc", "asleep"} : z[f] = y[f]
  BY <1>3, <1>4, ZenonT(40) DEF Same, Good, IsHalf, Fields
<1>6. /\ z.data = y.data /\ z.bytes = y.bytes /\ z.want = y.want
      /\ z.win = y.win /\ z.apc = y.apc /\ z.len = y.len /\ z.max = y.max
      /\ z.rlen = y.rlen /\ z.wlen = y.wlen /\ z.args = y.args /\ z.tag = y.tag
  BY <1>5 DEF Fields
<1>7. z.req["read"] \in Int /\ z.req["write"] \in Int /\ z.req = [d \in Half |-> z.req[d]]
  <2>1. PICK r : r = y.req /\ r["read"] \in Int /\ r["write"] \in Int /\ r = [d \in Half |-> r[d]]
    BY <1>3 DEF Same, Good, Sizes
  <2>2. PICK w \in Int : w = x.want
    BY SMTT(30) DEF Good, Sizes
  <2>3. PICK s : s = [r EXCEPT ![h] = w]
    OBVIOUS
  <2>4. s["read"] \in Int /\ s["write"] \in Int /\ s = [d \in Half |-> s[d]]
    BY <2>1, <2>3 DEF Half
  <2> QED
    BY <1>5, <2>1, <2>2, <2>3, <2>4
<1>8. Sizes(z)
  BY <1>3, <1>6, <1>7 DEF Same, Good, Sizes
<1>9. Fit(y, z)
  <2>1. y.len \in Int /\ z.len >= y.len /\ ~Holds(z)
    BY <1>3, <1>5, <1>6 DEF Same, Good, Sizes, Holds
  <2> QED
    BY <1>5, <1>6, <1>8, <2>1 DEF Fit
<1>10. Same(h, y, z)
  BY <1>3, <1>9, FitIsSame DEF Same
<1>11. Waiting(h, x) = z
  BY <1>1, <1>3, <1>4 DEF Waiting
<1> QED
  BY <1>2, <1>3, <1>10, <1>11, SameTwice

(* A change of fields that Good does not speak of, of pc, and of what the  *)
(* node asks for.                                                          *)
Aside == {"shut", "inop", "pending", "tagUpdated", "sentEnd", "dead", "waits", "known", "seen",
          "mock", "sig", "grown", "asleep", "locked", "term", "eof", "fpc"}
Requests(r) == r["read"] \in Int /\ r["write"] \in Int /\ r = [d \in Half |-> r[d]]
Elsewhere(x, y) ==
  /\ IsHalf(y)
  /\ y.want = x.want \/ (y.want \in Nat /\ y.pc \notin {"held", "growwait"})
  /\ y.req = x.req \/ Requests(y.req)
  /\ \/ y.pc = x.pc \/ y.pc \notin {"held", "growwait"}
     \/ x.pc = "growwait" /\ y.pc = x.args[3]
  /\ y.tag = x.tag \/ y.tag \in Int
  /\ \A f \in Fields \ (Aside \cup {"pc", "want", "req", "tag"}) : y[f] = x[f]

LEMMA ElsewhereSame ==
  ASSUME NEW h \in Half, NEW x, NEW y, Good(h, x), Elsewhere(x, y)
  PROVE  Same(h, x, y)
<1>1. /\ y.data = x.data /\ y.bytes = x.bytes
      /\ y.win = x.win /\ y.apc = x.apc /\ y.len = x.len /\ y.max = x.max
      /\ y.rlen = x.rlen /\ y.wlen = x.wlen /\ y.args = x.args
  BY DEF Elsewhere, Fields, Aside
<1>2. y.want \in Nat /\ y.tag \in Int
  BY DEF Elsewhere, Good, Sizes
<1>3. Requests(y.req)
  <2>1. Requests(x.req)
    BY DEF Good, Sizes, Requests
  <2> QED
    BY <2>1 DEF Elsewhere
<1>4. Sizes(y)
  BY <1>1, <1>2, <1>3 DEF Good, Sizes, Requests
<1>5. y.len >= x.len
  BY <1>1 DEF Good, Sizes
<1>6. Holds(y) => Holds(x) /\ y.want = x.want
  <2>1. y.args = x.args
    BY <1>1
  <2> QED
    BY <2>1 DEF Elsewhere, Holds
<1>7. Fit(x, y)
  BY <1>1, <1>4, <1>5, <1>6 DEF Fit, Elsewhere
<1> QED
  BY <1>7, FitIsSame

LEMMA RequestZero ==
  ASSUME NEW h \in Half, NEW x, Good(h, x), NEW d \in Half, NEW n \in Int
  PROVE  Requests([x.req EXCEPT ![d] = n])
<1>1. PICK r : r = x.req /\ r["read"] \in Int /\ r["write"] \in Int /\ r = [e \in Half |-> r[e]]
  BY DEF Good, Sizes
<1>2. PICK s : s = [r EXCEPT ![d] = n]
  OBVIOUS
<1>3. s["read"] \in Int /\ s["write"] \in Int /\ s = [e \in Half |-> s[e]]
  BY <1>1, <1>2 DEF Half
<1> QED
  BY <1>1, <1>2, <1>3 DEF Requests

LEMMA HeldSame ==
  ASSUME NEW h \in Half, NEW x, Good(h, x), Gives(h, x, x.want), NEW y,
         y = [x EXCEPT !.inop = @ \cup {h}, !.pc = "held"]
  PROVE  Same(h, x, y)
<1>1. IsHalf(y) /\ \A f \in Fields \ {"inop", "pc"} : y[f] = x[f]
  BY DEF Good, IsHalf, Fields
<1>2. /\ y.data = x.data /\ y.bytes = x.bytes /\ y.want = x.want /\ y.req = x.req
      /\ y.win = x.win /\ y.apc = x.apc /\ y.len = x.len /\ y.max = x.max
      /\ y.rlen = x.rlen /\ y.wlen = x.wlen /\ y.args = x.args
  BY <1>1 DEF Fields
<1>3. Sizes(y)
  BY <1>2 DEF Good, Sizes
<1>4. ASSUME h = "read" PROVE ReadGood(y)
  BY <1>2, <1>4 DEF Good, ReadGood, Gives
<1>5. ASSUME h = "write" PROVE WriteGood(y)
  BY <1>2, <1>5 DEF Good, WriteGood, Gives, Free
<1> QED
  BY <1>1, <1>2, <1>3, <1>4, <1>5 DEF Good, Same

LEMMA IterateSame ==
  ASSUME NEW h \in Half, NEW z, Good(h, z), z.pc # "held", Iterate(h, z)
  PROVE  \E y : Same(h, z, y) /\ q' = [q EXCEPT ![h] = y]
<1>1. PICK x : x = [z EXCEPT !.locked = FALSE]
  OBVIOUS
<1>2. Same(h, z, x) /\ Good(h, x) /\ x.pc # "held"
  <2>1. Elsewhere(z, x) /\ x.pc = z.pc
    BY <1>1 DEF Elsewhere, Good, IsHalf, Fields, Aside
  <2> QED
    BY <2>1, ElsewhereSame DEF Same
<1>3. \/ Gives(h, x, x.want) /\ Set(h, [x EXCEPT !.inop = @ \cup {h}, !.pc = "held"])
      \/ Set(h, [x EXCEPT !.pc = IF h = "read" /\ "write" \in x.shut THEN "idle" ELSE "ending"])
      \/ LoopGrow(h, x)
      \/ Set(h, [x EXCEPT !.pc = "ending"])
      \/ Set(h, Waiting(h, x))
  BY <1>1 DEF Iterate
<1>4. CASE Gives(h, x, x.want) /\ Set(h, [x EXCEPT !.inop = @ \cup {h}, !.pc = "held"])
  <2>1. PICK y : y = [x EXCEPT !.inop = @ \cup {h}, !.pc = "held"]
    OBVIOUS
  <2>2. Same(h, x, y)
    BY <1>2, <1>4, <2>1, HeldSame
  <2> QED
    BY <1>2, <1>4, <2>1, <2>2, SameTwice DEF Set
<1>5. ASSUME NEW p, p \notin {"held", "growwait"}, Set(h, [x EXCEPT !.pc = p])
      PROVE  \E y : Same(h, z, y) /\ q' = [q EXCEPT ![h] = y]
  <2>1. PICK y : y = [x EXCEPT !.pc = p]
    OBVIOUS
  <2>2. Elsewhere(x, y)
    BY <1>2, <1>5, <2>1 DEF Elsewhere, Good, IsHalf, Fields, Aside
  <2>3. Same(h, x, y)
    BY <1>2, <2>2, ElsewhereSame
  <2> QED
    BY <1>2, <1>5, <2>1, <2>3, SameTwice DEF Set
<1>6. CASE LoopGrow(h, x)
  BY <1>2, <1>6, LoopGrowSame, SameTwice
<1>7. CASE Set(h, Waiting(h, x))
  BY <1>2, <1>7, WaitingSame, SameTwice DEF Set
<1> QED
  BY <1>3, <1>4, <1>5, <1>6, <1>7

LEMMA CallStays ==
  ASSUME NEW h \in Half, Good(h, q[h]), Call(h)
  PROVE  Stays(h)
<1>1. PICK x : x = q[h]
  OBVIOUS
<1>2. CASE Set(h, [x EXCEPT !.pc = "ending"])
  <2>1. Elsewhere(x, [x EXCEPT !.pc = "ending"])
    BY <1>1 DEF Elsewhere, Good, IsHalf, Fields, Aside
  <2> QED
    BY <1>1, <1>2, <2>1, ElsewhereSame DEF Stays, Set, Call, Local, dvars
<1>3. ASSUME NEW th \in Thresholds, Iterate(h, [x EXCEPT !.want = th, !.grown = FALSE])
      PROVE  Stays(h)
  <2>1. PICK z : z = [x EXCEPT !.want = th, !.grown = FALSE]
    OBVIOUS
  <2>2. th \in Nat /\ x.pc = "idle"
    BY <1>1, NodeAssumption DEF Call
  <2>3. Elsewhere(x, z) /\ z.pc # "held"
    BY <1>1, <2>1, <2>2 DEF Elsewhere, Good, IsHalf, Fields, Aside
  <2>4. Same(h, x, z) /\ Good(h, z)
    BY <1>1, <2>3, ElsewhereSame DEF Same
  <2>5. PICK y : Same(h, z, y) /\ q' = [q EXCEPT ![h] = y]
    BY <1>3, <2>1, <2>3, <2>4, IterateSame
  <2> QED
    BY <1>1, <2>4, <2>5, SameTwice DEF Stays, Call, Local, dvars
<1> QED
  BY <1>1, <1>2, <1>3 DEF Call

LEMMA LoopStays ==
  ASSUME NEW h \in Half, Good(h, q[h]), Loop(h)
  PROVE  Stays(h)
  BY IterateSame DEF Loop, Stays, Local, dvars

(* The arguments of a growth are gone once it has been done.               *)
LEMMA NoArgsSame ==
  ASSUME NEW h \in Half, NEW x, Good(h, x)
  PROVE  Same(h, x, [x EXCEPT !.args = NoArgs])
<1>1. PICK y : y = [x EXCEPT !.args = NoArgs]
  OBVIOUS
<1>2. /\ IsHalf(y) /\ y.args = NoArgs /\ y.data = x.data /\ y.bytes = x.bytes /\ y.want = x.want
      /\ y.req = x.req /\ y.win = x.win /\ y.apc = x.apc /\ y.pc = x.pc /\ y.tag = x.tag
      /\ y.len = x.len /\ y.max = x.max /\ y.rlen = x.rlen /\ y.wlen = x.wlen
  BY <1>1 DEF Good, IsHalf, Fields
<1>3. y.args[1] = 0 /\ y.args[2] = 0 /\ y.args[3] = "loop"
  BY <1>2 DEF NoArgs
<1>4. Sizes(y)
  BY <1>2, <1>3 DEF Good, Sizes, NoArgs
<1>5. Holds(y) => Holds(x)
  BY <1>2, <1>3 DEF Holds
<1>6. y.len >= x.len
  BY <1>2 DEF Good, Sizes
<1>7. Fit(x, y)
  BY <1>2, <1>4, <1>5, <1>6 DEF Fit
<1> QED
  BY <1>1, <1>7, FitIsSame

LEMMA GrowWaitedStays ==
  ASSUME NEW h \in Half, Good(h, q[h]), GrowWaited(h)
  PROVE  Stays(h)
<1>1. PICK x : x = q[h]
  OBVIOUS
<1>2. PICK a \in Int, b \in Int : a = x.args[1] /\ b = x.args[2]
  BY <1>1 DEF Good, Sizes
<1>3. PICK y : y = Resize(h, x, a, b) /\ Wider(x, y)
  BY <1>1, ResizeWider
<1>4. Same(h, x, y) /\ Good(h, y)
  BY <1>1, <1>3, WiderFits DEF Same
<1>5. PICK z : z = [y EXCEPT !.pending = @ \cup {"grow"}, !.pc = x.args[3],
                             !.locked = x.args[3] = "loop"]
  OBVIOUS
<1>6. y.pc = "growwait" /\ y.args = x.args
  BY <1>1, <1>3 DEF GrowWaited, Wider, Fields
<1>7. Elsewhere(y, z)
  BY <1>4, <1>5, <1>6, ZenonT(40) DEF Elsewhere, Good, IsHalf, Fields, Aside
<1>8. PICK v : v = [z EXCEPT !.args = NoArgs] /\ Same(h, y, v) /\ Good(h, v)
  <2>1. Same(h, y, z) /\ Good(h, z)
    BY <1>4, <1>7, ElsewhereSame DEF Same
  <2>2. Same(h, z, [z EXCEPT !.args = NoArgs])
    BY <2>1, NoArgsSame
  <2>3. Same(h, y, [z EXCEPT !.args = NoArgs])
    BY <2>1, <2>2, SameTwice
  <2> QED
    BY <2>3 DEF Same
<1>9. Same(h, x, Signal(v))
  BY <1>4, <1>8, SignalSame, SameTwice
<1>10. v = [y EXCEPT !.pending = @ \cup {"grow"}, !.pc = x.args[3], !.args = NoArgs,
                     !.locked = x.args[3] = "loop"]
  BY <1>4, <1>5, <1>8 DEF Good, IsHalf, Fields
<1>11. q' = [q EXCEPT ![h] = Signal(v)]
  BY <1>1, <1>2, <1>3, <1>10 DEF GrowWaited, Set
<1> QED
  BY <1>1, <1>9, <1>11 DEF Stays, GrowWaited, Local, dvars

LEMMA GrowStays ==
  ASSUME NEW h \in Half, Good(h, q[h]), Grow(h)
  PROVE  Stays(h)
<1>1. PICK x : x = q[h]
  OBVIOUS
<1>2. PICK a \in GrowArgs : Set(h, UnlockedGrow(h, x, a[1], a[2]))
  BY <1>1 DEF Grow
<1>3. a[1] \in Int /\ a[2] \in Int
  BY NodeAssumption
<1>4. Same(h, x, UnlockedGrow(h, x, a[1], a[2]))
  BY <1>1, <1>3, UnlockedGrowSame
<1> QED
  BY <1>1, <1>2, <1>4 DEF Stays, Grow, Set, Local, dvars

LEMMA WakeupStays ==
  ASSUME NEW h \in Half, Good(h, q[h]), Wakeup(h)
  PROVE  Stays(h)
<1>1. PICK x : x = q[h] /\ x.pc \in {"tagwait", "d4r"}
  BY DEF Wakeup
<1>2. CASE Set(h, [x EXCEPT !.pc = "ending"])
  <2>1. Elsewhere(x, [x EXCEPT !.pc = "ending"])
    BY <1>1 DEF Elsewhere, Good, IsHalf, Fields, Aside
  <2> QED
    BY <1>1, <1>2, <2>1, ElsewhereSame DEF Stays, Set, Wakeup, Local, dvars
<1>3. CASE Set(h, [x EXCEPT !.asleep = TRUE, !.pc = IF Fresh(x) THEN "d4r" ELSE @])
  <2>1. PICK z : z = [x EXCEPT !.asleep = TRUE, !.pc = IF Fresh(x) THEN "d4r" ELSE @]
    OBVIOUS
  <2>2. Elsewhere(x, z)
    BY <1>1, <2>1 DEF Elsewhere, Good, IsHalf, Fields, Aside
  <2> QED
    BY <1>1, <1>3, <2>1, <2>2, ElsewhereSame DEF Stays, Set, Wakeup, Local, dvars
<1>4. CASE Iterate(h, [x EXCEPT !.req[h] = 0])
  <2>1. PICK z : z = [x EXCEPT !.req[h] = 0]
    OBVIOUS
  <2>2. Requests([x.req EXCEPT ![h] = 0])
    BY <1>1, RequestZero
  <2>3. Elsewhere(x, z) /\ z.pc # "held"
    BY <1>1, <2>1, <2>2 DEF Elsewhere, Good, IsHalf, Fields, Aside
  <2>4. Same(h, x, z) /\ Good(h, z)
    BY <1>1, <2>3, ElsewhereSame DEF Same
  <2>5. PICK y : Same(h, z, y) /\ q' = [q EXCEPT ![h] = y]
    BY <1>4, <2>1, <2>3, <2>4, IterateSame
  <2> QED
    BY <1>1, <2>4, <2>5, SameTwice DEF Stays, Wakeup, Local, dvars
<1> QED
  BY <1>1, <1>2, <1>3, <1>4 DEF Wakeup

LEMMA TagChangeStays ==
  ASSUME NEW h \in Half, Good(h, q[h]), TagChange(h)
  PROVE  Stays(h)
<1>1. PICK x : x = q[h]
  OBVIOUS
<1>2. PICK n : n = x.tag + 1 /\ n \in Int
  BY <1>1, SMTT(30) DEF Good, Sizes
<1>3. Elsewhere(x, [x EXCEPT !.tag = n, !.sig = TRUE])
  BY <1>1, <1>2 DEF Elsewhere, Good, IsHalf, Fields, Aside
<1> QED
  BY <1>1, <1>2, <1>3, ElsewhereSame DEF Stays, Set, TagChange, Local, dvars

LEMMA SignalTagChangedStays ==
  ASSUME NEW h \in Half, Good(h, q[h]), SignalTagChanged(h)
  PROVE  Stays(h)
<1>1. PICK x : x = q[h]
  OBVIOUS
<1>2. PICK z : z = [x EXCEPT !.sig = FALSE, !.pending = @ \cup {"tag"}]
  OBVIOUS
<1>3. Elsewhere(x, z)
  BY <1>1, <1>2 DEF Elsewhere, Good, IsHalf, Fields, Aside
<1>4. Same(h, x, z) /\ Good(h, z)
  BY <1>1, <1>3, ElsewhereSame DEF Same
<1>5. Same(h, x, Signal(z))
  BY <1>4, SignalSame, SameTwice
<1> QED
  BY <1>1, <1>2, <1>5 DEF Stays, Set, SignalTagChanged, Local, dvars

LEMMA DetectStays ==
  ASSUME Good("write", q["write"]), Detect
  PROVE  Stays("write")
<1>1. PICK x : x = q["write"]
  OBVIOUS
<1>2. PICK a \in Int, b \in Int : a = Count("write", x) + x.req["write"] /\ b = x.req["write"]
  <2>1. PICK d \in Nat, c \in Int, r \in Int : d = Len(x.data) /\ c = x.bytes /\ r = x.req["write"]
    BY <1>1 DEF Good, Sizes
  <2>2. Count("write", x) = d + c
    BY <2>1 DEF Count
  <2> QED
    BY <2>1, <2>2
<1>3. Same("write", x, UnlockedGrow("write", x, a, b))
  BY <1>1, UnlockedGrowSame DEF Half
<1>4. q' = [q EXCEPT !["write"] = UnlockedGrow("write", x, a, b)]
  BY <1>1, <1>2 DEF Detect, Set
<1> QED
  BY <1>1, <1>3, <1>4 DEF Stays, Detect, Local, dvars

LEMMA ShutdownStays ==
  ASSUME NEW h \in Half, Good(h, q[h]), Shutdown(h)
  PROVE  Stays(h)
<1>1. PICK x : x = q[h]
  OBVIOUS
<1>2. PICK y : y = ShutEnd(x, h) /\ Same(h, x, y) /\ Good(h, y)
  BY <1>1, ShutSame DEF Same
<1>3. Elsewhere(y, [y EXCEPT !.pc = "done", !.want = 0, !.grown = FALSE])
  BY <1>2, ZenonT(40) DEF Elsewhere, Good, IsHalf, Fields, Aside
<1>4. Same(h, x, [y EXCEPT !.pc = "done", !.want = 0, !.grown = FALSE])
  BY <1>2, <1>3, ElsewhereSame, SameTwice
<1> QED
  BY <1>1, <1>2, <1>4 DEF Stays, Set, Shutdown, Local, dvars

LEMMA FileStays ==
  ASSUME NEW h \in Half, Good(h, q[h]), File(h)
  PROVE  Stays(h)
<1>1. PICK x : x = q[h]
  OBVIOUS
<1>2. PICK y : y = Signal(x) /\ Same(h, x, y) /\ Good(h, y)
  BY <1>1, SignalSame DEF Same
<1>3. Elsewhere(y, [y EXCEPT !.fpc = "tick"])
  BY <1>2 DEF Elsewhere, Good, IsHalf, Fields, Aside
<1>4. Same(h, x, [y EXCEPT !.fpc = "tick"])
  BY <1>2, <1>3, ElsewhereSame, SameTwice
<1>5. Elsewhere(x, [x EXCEPT !.fpc = "done"])
  BY <1>1 DEF Elsewhere, Good, IsHalf, Fields, Aside
<1>6. Same(h, x, [x EXCEPT !.fpc = "done"])
  BY <1>1, <1>5, ElsewhereSame
<1>7. CASE FilePoll(h)
  BY <1>1, <1>2, <1>4, <1>7 DEF Stays, Set, FilePoll, Local, dvars
<1>8. CASE FileEnd(h)
  BY <1>1, <1>6, <1>8 DEF Stays, Set, FileEnd, Local, dvars
<1> QED
  BY <1>7, <1>8 DEF File

LEMMA ForcedShutdownStays ==
  ASSUME NEW h \in Half, Good(h, q[h]), ForcedShutdown(h)
  PROVE  Stays(h)
  BY ShutSame DEF Stays, Set, ForcedShutdown, Local, dvars

---------------------------------------------------------------------------
(* Where every byte is.  k packets of a channel have been taken already.   *)
Rest(c, k, t) == Sum(c, t) - Sums(c, t)[k]
Sending(w) == IF w.apc = "send" THEN Len(w.win) ELSE 0
Base(r, o) == Len(o) + Len(r.data) + Len(r.win)

(* The data of every packet follows that of the packets before it, from    *)
(* position a on.                                                          *)
Aligned(c, k, a) ==
  \A i \in k + 1 .. Len(c) : c[i].type = "enqueue" =>
    c[i].data = Run(a + Sums(c, "enqueue")[i - 1] - Sums(c, "enqueue")[k], c[i].n)

Order(r, w, c, k, o, n) ==
  /\ o = Run(0, Len(o)) /\ r.data = Run(Len(o), Len(r.data))
  /\ r.win = Run(Len(o) + Len(r.data), Len(r.win))
  /\ w.data = Run(n - Len(w.data), Len(w.data))
  /\ Aligned(c, k, Base(r, o))
  /\ Base(r, o) + Rest(c, k, "enqueue") = n - Len(w.data) + Sending(w)

Bytes(r, w, a, j, c, k) ==
  w.bytes + Sending(w)
    = r.bytes + Len(r.win) + Rest(c, k, "enqueue") + Rest(a, j, "dequeue")

(* The part of the inductive invariant that is about the data.             *)
DInv ==
  /\ q = [h \in Half |-> q[h]] /\ chan = [h \in Half |-> chan[h]]
  /\ \A h \in Half : Good(h, q[h]) /\ Packets(h, chan[h])
  /\ written \in Nat /\ Len(out) \in Nat
  /\ Order(q["read"], q["write"], chan["write"], 0, out, written)
  /\ Bytes(q["read"], q["write"], chan["read"], 0, chan["write"], 0)

LEMMA OrderSame ==
  ASSUME NEW r, NEW w, NEW c, NEW k, NEW o, NEW n, Order(r, w, c, k, o, n)
  PROVE  /\ \A x : Same("read", r, x) => Order(x, w, c, k, o, n)
         /\ \A x : Same("write", w, x) => Order(r, x, c, k, o, n)
<1>1. ASSUME NEW x, Same("read", r, x) PROVE Order(x, w, c, k, o, n)
  <2>1. x.data = r.data /\ x.win = r.win
    BY <1>1 DEF Same
  <2>2. Base(x, o) = Base(r, o)
    BY <2>1 DEF Base
  <2> QED
    BY <2>1, <2>2 DEF Order
<1>2. ASSUME NEW x, Same("write", w, x) PROVE Order(r, x, c, k, o, n)
  <2>1. x.data = w.data /\ Sending(x) = Sending(w)
    BY <1>2 DEF Same, Sending
  <2> QED
    BY <2>1 DEF Order
<1> QED
  BY <1>1, <1>2

LEMMA BytesSame ==
  ASSUME NEW r, NEW w, NEW a, NEW j, NEW c, NEW k, Bytes(r, w, a, j, c, k)
  PROVE  /\ \A x : Same("read", r, x) => Bytes(x, w, a, j, c, k)
         /\ \A x : Same("write", w, x) => Bytes(r, x, a, j, c, k)
<1>1. ASSUME NEW x, Same("read", r, x) PROVE Bytes(x, w, a, j, c, k)
  <2>1. x.bytes = r.bytes /\ x.win = r.win
    BY <1>1 DEF Same
  <2> QED
    BY <2>1 DEF Bytes
<1>2. ASSUME NEW x, Same("write", w, x) PROVE Bytes(r, x, a, j, c, k)
  <2>1. x.bytes = w.bytes /\ Sending(x) = Sending(w)
    BY <1>2 DEF Same, Sending
  <2> QED
    BY <2>1 DEF Bytes
<1> QED
  BY <1>1, <1>2

LEMMA StaysStep ==
  ASSUME DInv, NEW h \in Half, Stays(h)
  PROVE  DInv'
<1>1. PICK y : Same(h, q[h], y) /\ q' = [q EXCEPT ![h] = y]
  BY DEF Stays
<1>2. chan' = chan /\ written' = written /\ out' = out
  BY DEF Stays
<1>3. /\ q' = [g \in Half |-> q'[g]] /\ q'[h] = y
      /\ \A g \in Half : g # h => q'[g] = q[g]
  BY <1>1 DEF DInv
<1>4. \A g \in Half : Good(g, q'[g])
  BY <1>1, <1>3 DEF DInv, Same
<1>5. Order(q'["read"], q'["write"], chan["write"], 0, out, written)
  <2>1. CASE h = "read"
    BY <1>1, <1>3, <2>1, OrderSame DEF DInv, Half
  <2>2. CASE h = "write"
    BY <1>1, <1>3, <2>2, OrderSame DEF DInv, Half
  <2> QED
    BY <2>1, <2>2 DEF Half
<1>6. Bytes(q'["read"], q'["write"], chan["read"], 0, chan["write"], 0)
  <2>1. CASE h = "read"
    BY <1>1, <1>3, <2>1, BytesSame DEF DInv, Half
  <2>2. CASE h = "write"
    BY <1>1, <1>3, <2>2, BytesSame DEF DInv, Half
  <2> QED
    BY <2>1, <2>2 DEF Half
<1> QED
  BY <1>2, <1>3, <1>4, <1>5, <1>6 DEF DInv

LEMMA QuietStep ==
  ASSUME DInv, UNCHANGED <<q, chan, written, out>>
  PROVE  DInv'
  BY DEF DInv

---------------------------------------------------------------------------
(* GiveBack: what a read takes off the reader's half is read next, and     *)
(* what is written comes after what has been written.                      *)
Given(h, x, y) ==
  /\ IsHalf(y) /\ y.pc \notin {"held", "growwait"} /\ y.want \in Nat
  /\ \A f \in Fields \ (Aside \cup {"pc", "want", "data"}) : y[f] = x[f]

LEMMA GivenFields ==
  ASSUME NEW h \in Half, NEW x, NEW y, Good(h, x), Given(h, x, y), Len(y.data) \in Nat
  PROVE  /\ Sizes(y) /\ ~Holds(y)
         /\ y.len = x.len /\ y.bytes = x.bytes /\ y.win = x.win /\ y.apc = x.apc
<1>1. /\ y.bytes = x.bytes /\ y.req = x.req
      /\ y.win = x.win /\ y.apc = x.apc /\ y.len = x.len /\ y.max = x.max
      /\ y.rlen = x.rlen /\ y.wlen = x.wlen /\ y.args = x.args /\ y.tag = x.tag
  BY DEF Given, Fields, Aside
<1>2. Sizes(y)
  BY <1>1 DEF Good, Sizes, Given
<1> QED
  BY <1>1, <1>2 DEF Given, Holds

HasLen(o) == Len(o) \in Nat
Takes(x, y, n) == n <= Len(x.data) /\ y.data = SubSeq(x.data, n + 1, Len(x.data))

LEMMA ReadGiven ==
  ASSUME NEW x, NEW y, NEW w, NEW c, NEW k, NEW o, NEW m, NEW n \in Nat,
         Good("read", x), Given("read", x, y), HasLen(o), Order(x, w, c, k, o, m),
         Takes(x, y, n)
  PROVE  /\ Good("read", y) /\ Order(y, w, c, k, o \o SubSeq(x.data, 1, n), m)
         /\ HasLen(o \o SubSeq(x.data, 1, n))
<1>1. PICK d \in Nat, v \in Nat, l \in Int, b \in Int, p \in Nat :
        /\ d = Len(x.data) /\ v = Len(x.win) /\ l = x.len /\ b = x.bytes /\ p = Len(o)
        /\ n <= d
  BY DEF Good, Sizes, Takes, HasLen
<1>2. d + v <= l /\ b >= d /\ x.apc # "send" /\ (x.apc # "recv" => x.win = <<>>)
  BY <1>1 DEF Good, ReadGood
<1>3. o = Run(0, p) /\ x.data = Run(p, d) /\ x.win = Run(p + d, v)
  BY <1>1 DEF Order
<1>4. n \in 0 .. d
  BY <1>1
<1>5. PICK e \in Nat, s \in Nat : e = d - n /\ s = p + n /\ s + e = p + d
  BY <1>4
<1>6. SubSeq(x.data, 1, n) = Run(p, n) /\ y.data = Run(s, e)
  <2>1. SubSeq(Run(p, d), 1, n) = Run(p, n) /\ SubSeq(Run(p, d), n + 1, d) = Run(s, e)
    <3>1. Joins(p, n, e)
      BY RunJoin
    <3>2. n + e = d
      BY <1>5
    <3> QED
      BY <1>5, <3>1, <3>2 DEF Joins
  <2>2. y.data = SubSeq(Run(p, d), n + 1, d)
    BY <1>1, <1>3 DEF Takes
  <2> QED
    BY <1>3, <1>5, <2>1, <2>2
<1>7. Len(y.data) = e
  BY <1>6, RunIs
<1>8. /\ Sizes(y) /\ ~Holds(y)
      /\ y.len = x.len /\ y.bytes = x.bytes /\ y.win = x.win /\ y.apc = x.apc
  BY <1>7, GivenFields DEF Half
<1>9. ReadGood(y)
  <2>1. d + v <= l /\ b >= d
    BY <1>2
  <2>2. e + v <= l /\ b >= e
    BY <1>4, <1>5, <2>1
  <2> QED
    BY <1>1, <1>2, <1>7, <1>8, <2>2 DEF ReadGood, Given
<1>10. Good("read", y)
  BY <1>8, <1>9 DEF Good, Given
<1>11. PICK u : u = o \o SubSeq(x.data, 1, n) /\ u = Run(0, s) /\ Len(u) = s
  <2>1. Run(0, p) \o Run(p, n) = Run(0, s)
    <3>1. Joins(0, p, n)
      BY RunJoin
    <3>2. 0 + p = p
      OBVIOUS
    <3> QED
      BY <1>5, <3>1, <3>2 DEF Joins
  <2>2. Len(Run(0, s)) = s
    BY RunIs
  <2> QED
    BY <1>3, <1>6, <2>1, <2>2
<1>12. Base(y, u) = Base(x, o)
  <2>1. Base(y, u) = s + e + v /\ Base(x, o) = p + d + v
    BY <1>1, <1>7, <1>8, <1>11 DEF Base
  <2> QED
    BY <1>5, <2>1
<1>13. y.win = Run(s + e, v) /\ Len(y.win) = v
  BY <1>1, <1>3, <1>5, <1>8
<1>14. Order(y, w, c, k, u, m)
  <2>1. u = Run(0, Len(u)) /\ y.data = Run(Len(u), Len(y.data))
    BY <1>6, <1>7, <1>11
  <2>2. y.win = Run(Len(u) + Len(y.data), Len(y.win))
    BY <1>7, <1>11, <1>13
  <2> QED
    BY <1>12, <2>1, <2>2 DEF Order
<1> QED
  BY <1>10, <1>11, <1>14 DEF HasLen

LEMMA WriteGiven ==
  ASSUME NEW x, NEW y, NEW r, NEW c, NEW k, NEW o, NEW m \in Nat, NEW n \in Nat,
         Good("write", x), Given("write", x, y), Order(r, x, c, k, o, m),
         n <= x.len - Len(x.data), y.data = x.data \o [i \in 1 .. n |-> m + i]
  PROVE  Good("write", y) /\ Order(r, y, c, k, o, m + n)
<1>1. PICK d \in Nat, v \in Nat, l \in Int, b \in Int :
        d = Len(x.data) /\ v = Len(x.win) /\ l = x.len /\ b = x.bytes /\ n <= l - d
  BY DEF Good, Sizes
<1>2. d <= l /\ b >= 0 /\ x.apc # "recv" /\ (x.apc = "send" => v <= d)
  BY <1>1 DEF Good, WriteGood
<1>3. PICK z \in Int : z = m - d /\ z + d = m
  OBVIOUS
<1>4. x.data = Run(z, d)
  BY <1>1, <1>3 DEF Order
<1>5. y.data = Run(z, d + n)
  <2>1. y.data = Run(z, d) \o Run(m, n) /\ m = z + d
    BY <1>3, <1>4 DEF Run
  <2>2. Joins(z, d, n)
    BY RunJoin
  <2> QED
    BY <2>1, <2>2 DEF Joins
<1>6. PICK e \in Nat : e = d + n
  OBVIOUS
<1>7. Len(y.data) = e
  BY <1>5, <1>6, RunIs
<1>8. /\ Sizes(y) /\ ~Holds(y)
      /\ y.len = x.len /\ y.bytes = x.bytes /\ y.win = x.win /\ y.apc = x.apc
  BY <1>7, GivenFields DEF Half
<1>9. WriteGood(y)
  <2>1. e <= l /\ (x.apc = "send" => v <= e)
    BY <1>1, <1>2, <1>6
  <2> QED
    BY <1>1, <1>2, <1>7, <1>8, <2>1 DEF WriteGood, Given
<1>10. Good("write", y)
  BY <1>8, <1>9 DEF Good, Given
<1>11. Sending(y) = Sending(x)
  BY <1>8 DEF Sending
<1>12. (m + n) - e = z
  BY <1>3, <1>6
<1>13. (m + n) - Len(y.data) = m - Len(x.data)
  BY <1>1, <1>3, <1>7, <1>12
<1>14. Order(r, y, c, k, o, m + n)
  BY <1>5, <1>6, <1>7, <1>11, <1>12, <1>13 DEF Order
<1> QED
  BY <1>10, <1>14

LEMMA GivenBytes ==
  ASSUME NEW h \in Half, NEW x, NEW y, Given(h, x, y), NEW r, NEW w, NEW a, NEW j, NEW c, NEW k
  PROVE  /\ Bytes(x, w, a, j, c, k) => Bytes(y, w, a, j, c, k)
         /\ Bytes(r, x, a, j, c, k) => Bytes(r, y, a, j, c, k)
<1>1. y.bytes = x.bytes /\ y.win = x.win /\ Sending(y) = Sending(x)
  BY DEF Given, Fields, Aside, Sending
<1> QED
  BY <1>1 DEF Bytes

LEMMA GiveBackStep ==
  ASSUME DInv, NEW h \in Half, NEW n \in 1 .. MaxItems, GiveBack(h, n)
  PROVE  DInv'
<1>1. PICK x : x = q[h] /\ Good(h, x) /\ x.pc = "held"
  BY DEF DInv, GiveBack
<1>2. PICK y : /\ y = [x EXCEPT !.inop = @ \ {h}, !.want = 0, !.grown = FALSE,
                                !.pc = IF h \in x.shut THEN "ending" ELSE "idle"]
               /\ IsHalf(y) /\ y.pc \notin {"held", "growwait"} /\ y.want = 0 /\ y.data = x.data
               /\ \A f \in Fields \ {"inop", "want", "grown", "pc"} : y[f] = x[f]
  <2>1. PICK p : p = (IF h \in x.shut THEN "ending" ELSE "idle") /\ p \notin {"held", "growwait"}
    OBVIOUS
  <2>2. PICK y : y = [x EXCEPT !.inop = @ \ {h}, !.want = 0, !.grown = FALSE, !.pc = p]
    OBVIOUS
  <2>3. /\ IsHalf(y) /\ y.pc = p /\ y.want = 0 /\ y.data = x.data
        /\ \A f \in Fields \ {"inop", "want", "grown", "pc"} : y[f] = x[f]
    BY <1>1, <2>2, ZenonT(40) DEF Good, IsHalf, Fields
  <2> QED
    BY <2>1, <2>2, <2>3, ZenonT(40)
<1>3. n \in Nat /\ MaxItems \in Nat /\ chan' = chan
  BY NodeAssumption DEF GiveBack, Local
<1>4. CASE h \in x.shut
  <2>1. Elsewhere(x, y)
    BY <1>2 DEF Elsewhere, Fields, Aside
  <2>2. q' = [q EXCEPT ![h] = y] /\ UNCHANGED dvars
    BY <1>1, <1>2, <1>4 DEF GiveBack, Set
  <2>3. Stays(h)
    BY <1>1, <1>3, <2>1, <2>2, ElsewhereSame DEF Stays, dvars
  <2> QED
    BY <2>3, StaysStep
<1>5. CASE h \notin x.shut /\ h = "read"
  <2>1. PICK z : z = [y EXCEPT !.data = SubSeq(@, n + 1, Len(@))]
    OBVIOUS
  <2>2. PICK s : s = Signal(z)
    OBVIOUS
  <2>3. /\ IsHalf(s) /\ s.pc \notin {"held", "growwait"} /\ s.want = 0 /\ s.data = SubSeq(x.data, n + 1, Len(x.data))
        /\ \A f \in Fields \ (Aside \cup {"pc", "want", "data"}) : s[f] = x[f]
    <3>1. PICK v : v = SubSeq(x.data, n + 1, Len(x.data))
      OBVIOUS
    <3>2. z = [y EXCEPT !.data = v]
      BY <1>2, <2>1, <3>1
    <3>3. IsHalf(z) /\ z.data = v /\ \A f \in Fields \ {"data"} : z[f] = y[f]
      <4>1. IsHalf(y)
        BY <1>2
      <4> QED
        BY <3>2, <4>1 DEF IsHalf, Fields
    <3>4. IsHalf(s) /\ \A f \in Fields \ {"pending", "asleep"} : s[f] = z[f]
      BY <2>2, <3>3 DEF Signal, IsHalf, Fields
    <3> QED
      BY <1>2, <3>1, <3>3, <3>4 DEF Fields, Aside
  <2>4. Given("read", x, s)
    BY <2>3 DEF Given
  <2>5. Takes(x, s, n)
    <3>1. PICK w \in Nat, d \in Nat : w = x.want /\ d = Len(x.data) /\ w <= d
      BY <1>1, <1>5 DEF Good, Sizes, ReadGood, Holds
    <3>2. n <= w
      BY <1>1, <3>1 DEF GiveBack
    <3> QED
      BY <1>3, <2>3, <3>1, <3>2 DEF Takes
  <2>6. /\ q' = [q EXCEPT !["read"] = s] /\ out' = out \o SubSeq(x.data, 1, n)
        /\ written' = written
    BY <1>1, <1>2, <1>5, <2>1, <2>2 DEF GiveBack, Set
  <2>7. /\ q' = [g \in Half |-> q'[g]] /\ q'["read"] = s /\ q'["write"] = q["write"]
    BY <2>6 DEF DInv, Half
  <2>8. /\ Good("read", s) /\ Len(out') \in Nat
        /\ Order(s, q["write"], chan["write"], 0, out', written)
    BY <1>1, <1>3, <1>5, <2>3, <2>4, <2>5, <2>6, ReadGiven DEF DInv, HasLen
  <2>9. Bytes(s, q["write"], chan["read"], 0, chan["write"], 0)
    BY <1>1, <1>5, <2>4, GivenBytes DEF DInv, Half
  <2> QED
    BY <1>3, <2>6, <2>7, <2>8, <2>9 DEF DInv, Half
<1>6. CASE h \notin x.shut /\ h = "write"
  <2>1. PICK z : z = [y EXCEPT !.data = @ \o [i \in 1 .. n |-> written + i]]
    OBVIOUS
  <2>2. PICK s : s = Signal(z)
    OBVIOUS
  <2>3. /\ IsHalf(s) /\ s.pc \notin {"held", "growwait"} /\ s.want = 0 /\ s.data = x.data \o [i \in 1 .. n |-> written + i]
        /\ \A f \in Fields \ (Aside \cup {"pc", "want", "data"}) : s[f] = x[f]
    <3>1. PICK v : v = x.data \o [i \in 1 .. n |-> written + i]
      OBVIOUS
    <3>2. z = [y EXCEPT !.data = v]
      BY <1>2, <2>1, <3>1
    <3>3. IsHalf(z) /\ z.data = v /\ \A f \in Fields \ {"data"} : z[f] = y[f]
      <4>1. IsHalf(y)
        BY <1>2
      <4> QED
        BY <3>2, <4>1 DEF IsHalf, Fields
    <3>4. IsHalf(s) /\ \A f \in Fields \ {"pending", "asleep"} : s[f] = z[f]
      BY <2>2, <3>3 DEF Signal, IsHalf, Fields
    <3> QED
      BY <1>2, <3>1, <3>3, <3>4 DEF Fields, Aside
  <2>4. Given("write", x, s)
    BY <2>3 DEF Given
  <2>5. n <= x.len - Len(x.data)
    <3>1. PICK w \in Nat, d \in Int : w = x.want /\ d = x.len - Len(x.data) /\ w <= d
      BY <1>1, <1>6, SMTT(30) DEF Good, Sizes, WriteGood, Holds
    <3>2. n <= w
      BY <1>1, <3>1 DEF GiveBack
    <3>3. n <= d
      BY <1>3, <3>1, <3>2
    <3> QED
      BY <3>1, <3>3
  <2>6. q' = [q EXCEPT !["write"] = s] /\ out' = out /\ written' = written + n
    BY <1>1, <1>2, <1>6, <2>1, <2>2 DEF GiveBack, Set
  <2>7. /\ q' = [g \in Half |-> q'[g]] /\ q'["write"] = s /\ q'["read"] = q["read"]
    BY <2>6 DEF DInv, Half
  <2>8. Good("write", s) /\ Order(q["read"], s, chan["write"], 0, out, written + n)
    BY <1>1, <1>3, <1>6, <2>3, <2>4, <2>5, WriteGiven DEF DInv
  <2>9. Bytes(q["read"], s, chan["read"], 0, chan["write"], 0)
    BY <1>1, <1>6, <2>4, GivenBytes DEF DInv, Half
  <2>10. written + n \in Nat
    BY <1>3 DEF DInv
  <2> QED
    BY <1>3, <2>6, <2>7, <2>8, <2>9, <2>10 DEF DInv, Half
<1> QED
  BY <1>4, <1>5, <1>6 DEF Half

---------------------------------------------------------------------------
(* A packet at the end of a channel, and a packet taken from its front.    *)
LEMMA RestIs ==
  ASSUME NEW h \in Half, NEW c, Packets(h, c), NEW k \in 0 .. Len(c), NEW t
  PROVE  /\ Rest(c, k, t) \in Int /\ Sum(c, t) \in Int /\ Sums(c, t)[k] \in Int
         /\ Rest(c, 0, t) = Sum(c, t)
<1>1. PICK n \in Nat : n = Len(c) /\ 0 \in 0 .. n /\ n \in 0 .. n
  BY DEF Packets
<1>2. Sums(c, t)[0] = 0 /\ \A i \in 0 .. Len(c) : Sums(c, t)[i] \in Int
  BY SumsAre
<1>3. PICK a \in Int, b \in Int : a = Sums(c, t)[k] /\ b = Sum(c, t)
  BY <1>1, <1>2 DEF Sum
<1> QED
  BY <1>2, <1>3 DEF Rest

LEMMA RestAppend ==
  ASSUME NEW h \in Half, NEW c, Packets(h, c), NEW p, Packet(h, p), NEW t
  PROVE  /\ Rest(Append(c, p), 0, t) = Rest(c, 0, t) + Tells(p, t)
         /\ Rest(c, 0, t) \in Int /\ Tells(p, t) \in Int /\ Packets(h, Append(c, p))
<1>1. Packets(h, Append(c, p)) /\ Sum(Append(c, p), t) = Sum(c, t) + Tells(p, t)
  BY SumAppend
<1>2. (\A d : Packets(h, d) => 0 \in 0 .. Len(d)) /\ Tells(p, t) \in Int
  BY DEF Packets, Packet, Tells
<1> QED
  BY <1>1, <1>2, RestIs

LEMMA AlignedAppend ==
  ASSUME NEW h \in Half, NEW c, Packets(h, c), NEW p, Packet(h, p), NEW a \in Int,
         Aligned(c, 0, a), p.type = "enqueue" => p.data = Run(a + Rest(c, 0, "enqueue"), p.n)
  PROVE  Aligned(Append(c, p), 0, a)
<1>1. PICK d : d = Append(c, p)
  OBVIOUS
<1>2. PICK n \in Nat : n = Len(c)
  BY DEF Packets
<1>3. PICK f, g : f = Sums(c, "enqueue") /\ g = Sums(d, "enqueue")
  OBVIOUS
<1>4. /\ Len(d) = n + 1 /\ d[n + 1] = p /\ \A i \in 1 .. n : d[i] = c[i]
      /\ \A i \in 0 .. n : g[i] = f[i]
  BY <1>1, <1>2, <1>3, SumAppend
<1>5. f[0] = 0 /\ g[0] = 0 /\ f[n] \in Int /\ f[n] = Rest(c, 0, "enqueue")
  <2>1. f[0] = 0 /\ f[n] \in Int
    BY <1>2, <1>3, SumsAre
  <2>2. f[n] = Rest(c, 0, "enqueue")
    BY <1>2, <1>3, RestIs DEF Sum
  <2> QED
    BY <1>4, <2>1, <2>2
<1>6. ASSUME NEW i \in 1 .. n + 1, d[i].type = "enqueue"
      PROVE  d[i].data = Run(a + g[i - 1] - g[0], d[i].n)
  <2>1. CASE i \in 1 .. n
    <3>1. i - 1 \in 0 .. n /\ i \in 0 + 1 .. n
      BY <2>1
    <3>2. c[i].data = Run(a + f[i - 1] - f[0], c[i].n)
      BY <1>2, <1>3, <1>4, <1>6, <2>1, <3>1 DEF Aligned
    <3> QED
      BY <1>4, <1>5, <2>1, <3>1, <3>2
  <2>2. CASE i = n + 1
    <3>1. i - 1 = n
      BY <2>2
    <3>2. PICK b \in Int : b = f[n] /\ a + b - 0 = a + b
      BY <1>5
    <3>3. d[i] = p /\ g[i - 1] = b
      BY <1>4, <2>2, <3>1, <3>2
    <3>4. p.data = Run(a + b, p.n)
      BY <1>5, <1>6, <3>2, <3>3
    <3> QED
      BY <1>5, <3>2, <3>3, <3>4
  <2> QED
    BY <2>1, <2>2
<1>7. 0 + 1 .. Len(d) = 1 .. n + 1
  BY <1>4
<1> QED
  BY <1>1, <1>3, <1>6, <1>7 DEF Aligned

LEMMA RestNext ==
  ASSUME NEW h \in Half, NEW c, Packets(h, c), NEW k \in Nat, k < Len(c), NEW t
  PROVE  /\ Rest(c, k + 1, t) = Rest(c, k, t) - Tells(c[k + 1], t)
         /\ Rest(c, k, t) \in Int /\ Tells(c[k + 1], t) \in Int
         /\ Sums(c, t)[k + 1] = Sums(c, t)[k] + Tells(c[k + 1], t)
         /\ Sums(c, t)[k] \in Int
<1>1. PICK n \in Nat : n = Len(c) /\ k \in 0 .. n /\ k + 1 \in 1 .. n /\ k + 1 \in 0 .. n
  BY DEF Packets
<1>2. PICK a \in Int, s \in Int : a = Sums(c, t)[k] /\ s = Sum(c, t)
  BY <1>1, RestIs
<1>3. PICK b \in Int : b = Tells(c[k + 1], t)
  BY <1>1, SumsAre
<1>4. (k + 1) - 1 = k
  OBVIOUS
<1>5. Sums(c, t)[k + 1] = a + b
  BY <1>1, <1>2, <1>3, <1>4, SumsAre
<1>6. Rest(c, k, t) = s - a /\ Rest(c, k + 1, t) = s - (a + b)
  BY <1>2, <1>5 DEF Rest
<1>7. s - (a + b) = (s - a) - b
  OBVIOUS
<1> QED
  BY <1>2, <1>3, <1>5, <1>6, <1>7

LEMMA AlignedNext ==
  ASSUME NEW h \in Half, NEW c, Packets(h, c), NEW k \in Nat, k < Len(c), NEW a \in Int,
         Aligned(c, k, a)
  PROVE  /\ Aligned(c, k + 1, a + Tells(c[k + 1], "enqueue"))
         /\ c[k + 1].type = "enqueue" => c[k + 1].data = Run(a, c[k + 1].n)
<1>1. PICK n \in Nat : n = Len(c) /\ k + 1 \in k + 1 .. n
  BY DEF Packets
<1>2. PICK f : f = Sums(c, "enqueue")
  OBVIOUS
<1>3. PICK x \in Int, b \in Int : x = f[k] /\ b = Tells(c[k + 1], "enqueue") /\ f[k + 1] = x + b
  BY <1>2, RestNext, SMTT(30)
<1>4. \A i \in 0 .. n : f[i] \in Int
  BY <1>1, <1>2, SumsAre
<1>5. \A i \in k + 1 .. n : c[i].type = "enqueue" => c[i].data = Run(a + f[i - 1] - f[k], c[i].n)
  BY <1>1, <1>2 DEF Aligned
<1>6. ASSUME NEW i \in (k + 1) + 1 .. n, c[i].type = "enqueue"
      PROVE  c[i].data = Run((a + b) + f[i - 1] - f[k + 1], c[i].n)
  <2>1. i \in k + 1 .. n /\ i - 1 \in 0 .. n
    OBVIOUS
  <2>2. PICK y \in Int : y = f[i - 1]
    BY <1>4, <2>1
  <2>3. c[i].data = Run(a + y - x, c[i].n)
    BY <1>3, <1>5, <1>6, <2>1, <2>2
  <2>4. a + y - x = (a + b) + y - (x + b)
    OBVIOUS
  <2> QED
    BY <1>3, <2>2, <2>3, <2>4
<1>7. ASSUME c[k + 1].type = "enqueue" PROVE c[k + 1].data = Run(a, c[k + 1].n)
  <2>1. (k + 1) - 1 = k /\ a + x - x = a
    OBVIOUS
  <2> QED
    BY <1>1, <1>3, <1>5, <1>7, <2>1
<1> QED
  BY <1>1, <1>2, <1>3, <1>6, <1>7 DEF Aligned

IsTail(c, k, d) == k \in 0 .. Len(c) /\ d = SubSeq(c, k + 1, Len(c))

LEMMA RestTail ==
  ASSUME NEW h \in Half, NEW c, Packets(h, c), NEW k, NEW d, IsTail(c, k, d)
  PROVE  /\ Packets(h, d) /\ \A t : Rest(d, 0, t) = Rest(c, k, t)
         /\ \A a \in Int : Aligned(c, k, a) => Aligned(d, 0, a)
<1>1. PICK n \in Nat : n = Len(c) /\ k \in 0 .. n
  BY DEF Packets, IsTail
<1>2. PICK m \in Nat : m = n - k
  <2>1. k \in 0 .. n
    BY <1>1
  <2> QED
    BY <2>1
<1>3. /\ Packets(h, d) /\ Len(d) = m /\ \A i \in 1 .. m : d[i] = c[k + i]
      /\ \A t : \A i \in 0 .. m : Sums(c, t)[k + i] = Sums(c, t)[k] + Sums(d, t)[i]
  BY <1>1, <1>2, SumParts DEF IsTail
<1>4. ASSUME NEW t PROVE Rest(d, 0, t) = Rest(c, k, t)
  <2>1. m \in 0 .. m /\ k + m = n /\ 0 \in 0 .. m
    BY <1>1, <1>2
  <2>2. PICK a \in Int, b \in Int : a = Sums(c, t)[k] /\ b = Sum(d, t) /\ Rest(d, 0, t) = b
    BY <1>1, <1>3, <2>1, RestIs
  <2>3. Sum(c, t) = a + b
    BY <1>1, <1>3, <2>1, <2>2, SMTT(30) DEF Sum
  <2>4. (a + b) - a = b
    OBVIOUS
  <2> QED
    BY <2>2, <2>3, <2>4 DEF Rest
<1>5. ASSUME NEW a \in Int, Aligned(c, k, a) PROVE Aligned(d, 0, a)
  <2>1. PICK f, g : f = Sums(c, "enqueue") /\ g = Sums(d, "enqueue")
    OBVIOUS
  <2>2. PICK x \in Int : x = f[k]
    BY <2>1, RestIs DEF IsTail
  <2>3. g[0] = 0 /\ \A i \in 0 .. m : g[i] \in Int
    BY <1>3, <2>1, SumsAre
  <2>4. \A i \in 0 .. m : f[k + i] = x + g[i]
    BY <1>3, <2>1, <2>2
  <2>5. ASSUME NEW i \in 0 + 1 .. m, d[i].type = "enqueue"
        PROVE  d[i].data = Run(a + g[i - 1] - g[0], d[i].n)
    <3>1. /\ i \in 1 .. m /\ i - 1 \in 0 .. m /\ k + i \in k + 1 .. n
          /\ (k + i) - 1 = k + (i - 1)
      BY <1>1, <1>2
    <3>2. PICK y \in Int : y = g[i - 1]
      BY <2>3, <3>1
    <3>3. d[i] = c[k + i] /\ f[k + (i - 1)] = x + y
      BY <1>3, <2>4, <3>1, <3>2
    <3>4. c[k + i].data = Run(a + f[(k + i) - 1] - f[k], c[k + i].n)
      BY <1>1, <1>5, <2>1, <2>5, <3>1, <3>3 DEF Aligned
    <3>5. a + (x + y) - x = a + y - 0
      OBVIOUS
    <3> QED
      BY <2>2, <2>3, <3>1, <3>2, <3>3, <3>4, <3>5
  <2> QED
    BY <1>3, <2>1, <2>5 DEF Aligned
<1> QED
  BY <1>3, <1>4, <1>5

---------------------------------------------------------------------------
(* The action thread of half h under way: the half is x by now, k packets  *)
(* have been read and the packets s have been sent.                        *)
Mid(h, x, k, s) ==
  /\ Good(h, x) /\ Packets(h, s) /\ k \in 0 .. Len(chan[Other(h)])
  /\ h = "read" => /\ Order(x, q["write"], chan["write"], k, out, written)
                   /\ Bytes(x, q["write"], chan["read"] \o s, 0, chan["write"], k)
  /\ h = "write" => /\ Order(q["read"], x, chan["write"] \o s, 0, out, written)
                    /\ Bytes(q["read"], x, chan["read"], k, chan["write"] \o s, 0)

LEMMA MidSame ==
  ASSUME NEW h \in Half, NEW x, NEW k, NEW s, Mid(h, x, k, s), NEW y, Same(h, x, y)
  PROVE  Mid(h, y, k, s)
<1>1. Good(h, y)
  BY DEF Same
<1>2. CASE h = "read"
  BY <1>1, <1>2, OrderSame, BytesSame DEF Mid
<1>3. CASE h = "write"
  BY <1>1, <1>3, OrderSame, BytesSame DEF Mid
<1> QED
  BY <1>2, <1>3 DEF Half

LEMMA NoneYet ==
  ASSUME NEW h \in Half, NEW s, Packets(h, s)
  PROVE  s \o <<>> = s /\ Packets(h, <<>>)
<1>1. PICK n \in Nat : n = Len(s) /\ s = [i \in 1 .. n |-> s[i]]
  BY DEF Packets
<1>2. PICK P : P = {s[i] : i \in 1 .. n}
  OBVIOUS
<1>3. s \in Seq(P)
  <2>1. s \in [1 .. n -> P]
    BY <1>1, <1>2
  <2> QED
    BY <2>1, IsASeq
<1>4. s \o <<>> = s
  BY <1>3, ConcatEmptySeq
<1>5. Packets(h, <<>>)
  BY DEF Packets
<1> QED
  BY <1>4, <1>5

LEMMA MidStart ==
  ASSUME DInv, NEW h \in Half
  PROVE  Mid(h, q[h], 0, <<>>)
<1>1. /\ chan["read"] \o <<>> = chan["read"] /\ chan["write"] \o <<>> = chan["write"]
      /\ Packets(h, <<>>)
  BY NoneYet DEF DInv, Half
<1>2. 0 \in 0 .. Len(chan[Other(h)])
  BY DEF DInv, Packets, Other, Half
<1> QED
  BY <1>1, <1>2 DEF DInv, Mid, Half

LEMMA BaseIs ==
  ASSUME NEW r, Good("read", r), NEW o, Len(o) \in Nat
  PROVE  Base(r, o) \in Int
<1>1. PICK d \in Nat, v \in Nat, p \in Nat : d = Len(r.data) /\ v = Len(r.win) /\ p = Len(o)
  BY DEF Good, Sizes
<1> QED
  BY <1>1 DEF Base

LEMMA MidEnd ==
  ASSUME DInv, NEW h \in Half, NEW x, NEW k, NEW s, Mid(h, x, k, s),
         q' = [q EXCEPT ![h] = x], UNCHANGED <<written, out>>,
         chan' = [chan EXCEPT ![h] = @ \o s, ![Other(h)] = SubSeq(@, k + 1, Len(@))]
  PROVE  DInv'
<1>1. PICK o : o = Other(h) /\ o \in Half /\ o # h /\ \A g \in Half : g = h \/ g = o
  BY DEF Other, Half
<1>2. PICK c, d : c = chan[o] /\ d = SubSeq(c, k + 1, Len(c))
  OBVIOUS
<1>3. /\ chan' = [g \in Half |-> chan'[g]] /\ chan'[h] = chan[h] \o s /\ chan'[o] = d
  BY <1>1, <1>2 DEF DInv
<1>4. /\ q' = [g \in Half |-> q'[g]] /\ q'[h] = x /\ q'[o] = q[o]
  BY <1>1 DEF DInv
<1>5. Packets(o, c) /\ k \in 0 .. Len(c)
  BY <1>1, <1>2 DEF DInv, Mid
<1>6. Packets(o, d) /\ \A t : Rest(d, 0, t) = Rest(c, k, t)
  <2>1. IsTail(c, k, d)
    BY <1>2, <1>5 DEF IsTail
  <2> QED
    BY <1>1, <1>5, <2>1, RestTail
<1>7. \A a \in Int : Aligned(c, k, a) => Aligned(d, 0, a)
  <2>1. IsTail(c, k, d)
    BY <1>2, <1>5 DEF IsTail
  <2> QED
    BY <1>1, <1>5, <2>1, RestTail
<1>8. Packets(h, chan[h] \o s)
  BY SumConcat DEF After, DInv, Mid
<1>9. \A g \in Half : Good(g, q'[g]) /\ Packets(g, chan'[g])
  BY <1>1, <1>3, <1>4, <1>6, <1>8 DEF DInv, Mid
<1>10. CASE h = "read"
  <2>1. o = "write"
    BY <1>1, <1>10 DEF Other
  <2>2. Order(x, q["write"], c, k, out, written)
    BY <1>2, <1>10, <2>1 DEF Mid
  <2>3. Base(x, out) \in Int
    BY <1>10, BaseIs DEF DInv, Mid
  <2>4. Order(x, q["write"], d, 0, out, written)
    BY <1>6, <1>7, <2>2, <2>3 DEF Order
  <2>5. Bytes(x, q["write"], chan["read"] \o s, 0, c, k)
    BY <1>2, <1>10, <2>1 DEF Mid
  <2>6. Bytes(x, q["write"], chan["read"] \o s, 0, d, 0)
    BY <1>6, <2>5 DEF Bytes
  <2> QED
    BY <1>3, <1>4, <1>9, <1>10, <2>1, <2>4, <2>6 DEF DInv
<1>11. CASE h = "write"
  <2>1. o = "read"
    BY <1>1, <1>11 DEF Other
  <2>2. Order(q["read"], x, chan["write"] \o s, 0, out, written)
    BY <1>11 DEF Mid
  <2>3. Bytes(q["read"], x, c, k, chan["write"] \o s, 0)
    BY <1>2, <1>11, <2>1 DEF Mid
  <2>4. Bytes(q["read"], x, d, 0, chan["write"] \o s, 0)
    BY <1>6, <2>3 DEF Bytes
  <2> QED
    BY <1>3, <1>4, <1>9, <1>11, <2>1, <2>2, <2>4 DEF DInv
<1> QED
  BY <1>10, <1>11 DEF Half

(* A packet that carries and tells nothing is sent.                        *)
AppendLast(h, c, s, p) ==
  Packets(h, c \o s) /\ c \o Append(s, p) = Append(c \o s, p)

LEMMA ConcatAppend ==
  ASSUME NEW h \in Half, NEW c, Packets(h, c), NEW s, Packets(h, s), NEW p, Packet(h, p)
  PROVE  AppendLast(h, c, s, p)
<1>1. PICK n \in Nat, m \in Nat : n = Len(c) /\ m = Len(s) /\ c = [i \in 1 .. n |-> c[i]]
                                  /\ s = [i \in 1 .. m |-> s[i]]
  BY DEF Packets
<1>2. PICK P : P = {c[i] : i \in 1 .. n} \cup {s[i] : i \in 1 .. m} \cup {p}
  OBVIOUS
<1>3. c \in Seq(P) /\ s \in Seq(P) /\ p \in P
  <2>1. c \in [1 .. n -> P] /\ s \in [1 .. m -> P]
    BY <1>1, <1>2
  <2> QED
    BY <1>2, <2>1, IsASeq
<1>4. c \o Append(s, p) = Append(c \o s, p)
  <2>1. s \o <<p>> = Append(s, p) /\ (c \o s) \o <<p>> = Append(c \o s, p) /\ <<p>> \in Seq(P)
    BY <1>3, AppendIsConcat, ConcatProperties
  <2>2. c \o (s \o <<p>>) = (c \o s) \o <<p>>
    BY <1>3, <2>1, ConcatAssociative
  <2> QED
    BY <2>1, <2>2
<1> QED
  BY <1>4, SumConcat DEF After, AppendLast

LEMMA MidPlain ==
  ASSUME DInv, NEW h \in Half, NEW x, NEW k, NEW s, Mid(h, x, k, s),
         NEW p, Packet(h, p), p.type \notin {"enqueue", "dequeue"}
  PROVE  Mid(h, x, k, Append(s, p))
<1>1. PICK c : c = chan[h] \o s /\ chan[h] \o Append(s, p) = Append(c, p) /\ Packets(h, c)
  <2>1. AppendLast(h, chan[h], s, p)
    BY ConcatAppend DEF DInv, Mid
  <2> QED
    BY <2>1 DEF AppendLast
<1>2. Packets(h, Append(s, p))
  BY SumAppend DEF Mid
<1>3. Tells(p, "enqueue") = 0 /\ Tells(p, "dequeue") = 0
  BY DEF Tells
<1>4. \A t \in {"enqueue", "dequeue"} : Rest(Append(c, p), 0, t) = Rest(c, 0, t)
  <2>1. SUFFICES ASSUME NEW t \in {"enqueue", "dequeue"} PROVE Rest(Append(c, p), 0, t) = Rest(c, 0, t)
    OBVIOUS
  <2>2. PICK a \in Int : a = Rest(c, 0, t) /\ Rest(Append(c, p), 0, t) = a + Tells(p, t)
    BY <1>1, RestAppend
  <2>3. Tells(p, t) = 0
    BY <1>3
  <2> QED
    BY <2>2, <2>3
<1>5. CASE h = "read"
  <2>1. Bytes(x, q["write"], c, 0, chan["write"], k)
    BY <1>1, <1>5 DEF Mid
  <2>2. Bytes(x, q["write"], Append(c, p), 0, chan["write"], k)
    BY <1>4, <2>1 DEF Bytes
  <2> QED
    BY <1>1, <1>2, <1>5, <2>2 DEF Mid
<1>6. CASE h = "write"
  <2>1. Order(q["read"], x, c, 0, out, written) /\ Bytes(q["read"], x, chan["read"], k, c, 0)
    BY <1>1, <1>6 DEF Mid
  <2>2. Base(q["read"], out) \in Int
    BY BaseIs DEF DInv, Half
  <2>3. Aligned(Append(c, p), 0, Base(q["read"], out))
    BY <1>1, <2>1, <2>2, AlignedAppend DEF Order
  <2>4. Order(q["read"], x, Append(c, p), 0, out, written)
    BY <1>4, <2>1, <2>3 DEF Order
  <2>5. Bytes(q["read"], x, chan["read"], k, Append(c, p), 0)
    BY <1>4, <2>1 DEF Bytes
  <2> QED
    BY <1>1, <1>2, <1>6, <2>4, <2>5 DEF Mid
<1> QED
  BY <1>5, <1>6 DEF Half

---------------------------------------------------------------------------
(* The steps of the action thread that move data, or tell of it.           *)
LEMMA RunNone ==
  ASSUME NEW a \in Int
  PROVE  Run(a, 0) = <<>>
  BY DEF Run

LEMMA SumsNat ==
  ASSUME NEW h \in Half, NEW c, Packets(h, c), NEW k \in 0 .. Len(c),
         NEW t \in {"enqueue", "dequeue"}
  PROVE  Rest(c, k, t) \in Nat
<1>1. PICK n \in Nat : n = Len(c) /\ k \in 0 .. n
  BY DEF Packets
<1>2. PICK f : f = Sums(c, t)
  OBVIOUS
<1>3. \A i \in 1 .. n : Tells(c[i], t) \in Nat
  BY <1>1 DEF Packets, Packet, Tells
<1>4. /\ \A i \in 1 .. n : f[i] = f[i - 1] + Tells(c[i], t)
      /\ \A i \in 0 .. n : f[i] \in Int
  BY <1>1, <1>2, SumsAre
<1>5. PICK a \in Int : a = f[k]
  BY <1>1, <1>4
<1>6. PICK T : T = {i \in 0 .. n : i < k \/ f[i] >= a}
  OBVIOUS
<1>7. 0 \in T
  <2>1. CASE k = 0
    BY <1>5, <1>6, <2>1
  <2>2. CASE k # 0
    <3>1. 0 < k /\ 0 \in 0 .. n
      BY <1>1, <2>2
    <3> QED
      BY <1>6, <3>1
  <2> QED
    BY <2>1, <2>2
<1>8. ASSUME NEW i \in 1 .. n, i - 1 \in T PROVE i \in T
  <2>1. PICK b \in Int, e \in Nat : b = f[i - 1] /\ e = Tells(c[i], t) /\ f[i] = b + e
    <3>1. i - 1 \in 0 .. n
      OBVIOUS
    <3> QED
      BY <1>3, <1>4, <3>1
  <2>2. i - 1 < k \/ b >= a
    BY <1>6, <1>8, <2>1
  <2>3. CASE i < k
    <3>1. i \in 0 .. n
      OBVIOUS
    <3> QED
      BY <1>6, <2>3, <3>1
  <2>4. CASE i = k
    <3>1. i \in 0 .. n /\ a >= a
      OBVIOUS
    <3> QED
      BY <1>5, <1>6, <2>4, <3>1
  <2>5. CASE b >= a
    <3>1. i \in 0 .. n /\ b + e >= a
      BY <2>5
    <3> QED
      BY <1>6, <2>1, <3>1
  <2> QED
    BY <1>1, <2>2, <2>3, <2>4, <2>5
<1>9. n \in T
  <2>1. \A i \in 0 .. n : i \in T
    BY <1>7, <1>8, Positions
  <2> QED
    BY <2>1
<1>10. PICK s \in Int : s = f[n] /\ s >= a
  <2>1. f[n] \in Int /\ (n < k \/ f[n] >= a)
    BY <1>4, <1>6, <1>9
  <2> QED
    BY <1>1, <2>1
<1>11. Rest(c, k, t) = s - a
  BY <1>1, <1>2, <1>5, <1>10 DEF Rest, Sum
<1> QED
  BY <1>10, <1>11

LEMMA OrderRead ==
  ASSUME NEW r, NEW w, NEW c, NEW k, NEW o, NEW n, Order(r, w, c, k, o, n),
         NEW x, x.data = r.data, x.win = r.win
  PROVE  Order(x, w, c, k, o, n)
<1>1. Base(x, o) = Base(r, o)
  BY DEF Base
<1> QED
  BY <1>1 DEF Order

(* Only these fields of a half have changed, and pc has not.               *)
Apart(x, y, F) ==
  /\ IsHalf(y) /\ F \subseteq {"bytes", "data", "win", "apc", "req"}
  /\ \A f \in Fields \ (Aside \cup F) : y[f] = x[f]

LEMMA ApartFields ==
  ASSUME NEW h \in Half, NEW x, NEW y, NEW F, Good(h, x), Apart(x, y, F),
         y.bytes \in Int, Len(y.data) \in Nat, Len(y.win) \in Nat, Requests(y.req)
  PROVE  /\ Sizes(y) /\ (Holds(y) <=> Holds(x)) /\ y.len = x.len /\ y.pc = x.pc /\ y.want = x.want
         /\ \A f \in {"bytes", "data", "win", "apc", "req"} \ F : y[f] = x[f]
<1>1. /\ y.want = x.want /\ y.len = x.len /\ y.max = x.max
      /\ y.rlen = x.rlen /\ y.wlen = x.wlen /\ y.args = x.args /\ y.pc = x.pc /\ y.tag = x.tag
      /\ \A f \in {"bytes", "data", "win", "apc", "req"} \ F : y[f] = x[f]
  BY DEF Apart, Fields, Aside
<1>2. Sizes(y)
  BY <1>1 DEF Good, Sizes, Requests
<1> QED
  BY <1>1, <1>2 DEF Holds

LEMMA MidDequeued ==
  ASSUME DInv, NEW x, NEW k, NEW s, Mid("read", x, k, s), NEW n \in Int, n > 0,
         n = x.bytes - Len(x.data), NEW y, y = [x EXCEPT !.bytes = @ - n],
         NEW p, Packet("read", p), p.type = "dequeue", p.n = n
  PROVE  Mid("read", y, k, Append(s, p))
<1>1. PICK c : c = chan["read"] \o s /\ chan["read"] \o Append(s, p) = Append(c, p)
               /\ Packets("read", c)
  <2>1. AppendLast("read", chan["read"], s, p)
    BY ConcatAppend DEF DInv, Mid, Half
  <2> QED
    BY <2>1 DEF AppendLast
<1>2. Packets("read", Append(s, p))
  BY SumAppend DEF Mid, Half
<1>3. PICK b \in Int, d \in Nat, v \in Nat, l \in Int :
        b = x.bytes /\ d = Len(x.data) /\ v = Len(x.win) /\ l = x.len /\ Good("read", x)
  BY DEF Good, Sizes, Mid
<1>4. n = b - d /\ b - n = d
  BY <1>3
<1>5. /\ IsHalf(y) /\ y.bytes = x.bytes - n /\ \A f \in Fields \ {"bytes"} : y[f] = x[f]
  BY <1>3 DEF Good, IsHalf, Fields
<1>6. y.data = x.data /\ y.win = x.win /\ y.bytes = d /\ y.req = x.req /\ y.apc = x.apc
  BY <1>3, <1>4, <1>5 DEF Fields
<1>7. Sizes(y) /\ (Holds(y) <=> Holds(x)) /\ y.len = x.len /\ y.pc = x.pc /\ y.want = x.want
  <2>1. Apart(x, y, {"bytes"})
    BY <1>5 DEF Apart
  <2>2. y.bytes \in Int /\ Len(y.data) \in Nat /\ Len(y.win) \in Nat /\ Requests(y.req)
    BY <1>3, <1>6 DEF Good, Sizes, Requests
  <2> QED
    BY <1>3, <2>1, <2>2, ApartFields, ZenonT(40) DEF Half
<1>8. ReadGood(y)
  <2>1. ReadGood(x)
    BY <1>3 DEF Good
  <2>2. Len(y.data) = Len(x.data) /\ Len(y.win) = Len(x.win) /\ y.bytes >= Len(y.data)
    BY <1>3, <1>6
  <2> QED
    BY <1>6, <1>7, <2>1, <2>2 DEF ReadGood
<1>9. Good("read", y)
  BY <1>5, <1>7, <1>8 DEF Good
<1>10. Order(y, q["write"], chan["write"], k, out, written)
  BY <1>6, OrderRead DEF Mid
<1>11. Bytes(y, q["write"], Append(c, p), 0, chan["write"], k)
  <2>1. Bytes(x, q["write"], c, 0, chan["write"], k)
    BY <1>1 DEF Mid
  <2>2. PICK e \in Int : e = Rest(c, 0, "dequeue") /\ Rest(Append(c, p), 0, "dequeue") = e + n
    <3>1. Tells(p, "dequeue") = n
      BY DEF Tells
    <3> QED
      BY <1>1, <3>1, RestAppend DEF Half
  <2>3. PICK g \in Int : g = Rest(chan["write"], k, "enqueue")
    BY RestIs DEF DInv, Mid, Other, Half
  <2>4. b + v + g + e = d + v + g + (e + n)
    BY <1>4
  <2> QED
    BY <1>3, <1>6, <2>1, <2>2, <2>3, <2>4 DEF Bytes
<1> QED
  BY <1>1, <1>2, <1>9, <1>10, <1>11 DEF Mid

(* SendEnqueuePacket sends the oldest bytes that have not been sent.       *)
LEMMA PortionIs ==
  ASSUME NEW x, Good("write", x), MaySend(x)
  PROVE  Portion(x) \in Nat /\ Portion(x) <= Len(x.data)
<1>1. PICK d \in Nat, m \in Nat, r \in Int, b \in Int, w \in Nat :
        d = Len(x.data) /\ m = x.max /\ r = x.rlen /\ b = x.bytes /\ w = MaxWrite
  BY LengthAssumption DEF Good, Sizes
<1>2. b < r
  BY <1>1 DEF MaySend
<1>3. PICK g \in Int : g = Larger(r, m) /\ g >= r
  BY LargerIs
<1>4. PICK e \in Nat : e = g - b
  BY <1>2, <1>3
<1>5. PICK f \in Nat : f = IF w > 0 THEN w ELSE d
  OBVIOUS
<1>6. Portion(x) = Lesser(Lesser(d, f), Lesser(m, e))
  BY <1>1, <1>3, <1>4, <1>5 DEF Portion
<1>7. Lesser(Lesser(d, f), Lesser(m, e)) \in Nat /\ Lesser(Lesser(d, f), Lesser(m, e)) <= d
  BY DEF Lesser
<1> QED
  BY <1>1, <1>6, <1>7

Packed(p, d) == p.type = "enqueue" /\ p.n = Len(d) /\ p.data = d
OutOf(x, d, n) == n <= Len(x.data) /\ d = SubSeq(x.data, 1, n)

LEMMA MidEnqueued ==
  ASSUME DInv, NEW x, NEW k, NEW s, Mid("write", x, k, s), x.apc # "send",
         NEW n \in Nat, NEW d, OutOf(x, d, n),
         NEW y, y = [x EXCEPT !.inop = @ \cup {"read"}, !.win = d, !.apc = "send"],
         NEW p, Packet("write", p), Packed(p, d)
  PROVE  Mid("write", y, k, Append(s, p))
<1>1. PICK c : c = chan["write"] \o s /\ chan["write"] \o Append(s, p) = Append(c, p)
               /\ Packets("write", c)
  <2>1. AppendLast("write", chan["write"], s, p)
    BY ConcatAppend DEF DInv, Mid, Half
  <2> QED
    BY <2>1 DEF AppendLast
<1>2. Packets("write", Append(s, p))
  BY SumAppend DEF Mid, Half
<1>3. PICK b \in Int, u \in Nat, l \in Int, m \in Nat :
        b = x.bytes /\ u = Len(x.data) /\ l = x.len /\ m = written /\ Good("write", x)
  BY DEF Good, Sizes, Mid, DInv
<1>4. PICK r : r = q["read"] /\ Good("read", r) /\ Order(r, x, c, 0, out, written)
               /\ Bytes(r, x, chan["read"], k, c, 0)
  BY <1>1 DEF Mid, DInv, Half
<1>5. PICK e \in Nat : e = u - n /\ n + e = u
  <2>1. n <= u
    BY <1>3 DEF OutOf
  <2> QED
    BY <2>1
<1>6. PICK z \in Int : z = m - u /\ x.data = Run(z, u)
  BY <1>3, <1>4 DEF Order
<1>7. d = Run(z, n) /\ Len(d) = n
  <2>1. Joins(z, n, e)
    BY RunJoin
  <2>2. SubSeq(Run(z, u), 1, n) = Run(z, n)
    BY <1>5, <2>1 DEF Joins
  <2>3. d = Run(z, n)
    BY <1>6, <2>2 DEF OutOf
  <2> QED
    BY <2>3, RunIs
<1>8. /\ IsHalf(y) /\ y.win = d /\ y.apc = "send"
      /\ \A f \in Fields \ {"inop", "win", "apc"} : y[f] = x[f]
  BY <1>3 DEF Good, IsHalf, Fields
<1>9. y.data = x.data /\ y.bytes = x.bytes /\ y.req = x.req
  BY <1>8 DEF Fields
<1>10. Sizes(y) /\ (Holds(y) <=> Holds(x)) /\ y.len = x.len /\ y.pc = x.pc /\ y.want = x.want
  <2>1. Apart(x, y, {"win", "apc"})
    BY <1>8 DEF Apart, Aside, Fields
  <2>2. y.bytes \in Int /\ Len(y.data) \in Nat /\ Len(y.win) \in Nat /\ Requests(y.req)
    BY <1>3, <1>7, <1>8, <1>9 DEF Good, Sizes, Requests
  <2> QED
    BY <1>3, <2>1, <2>2, ApartFields DEF Half
<1>11. Good("write", y)
  <2>1. WriteGood(x)
    BY <1>3 DEF Good
  <2>2. Len(y.win) <= Len(y.data)
    BY <1>7, <1>8, <1>9 DEF OutOf
  <2>3. WriteGood(y)
    BY <1>8, <1>9, <1>10, <2>1, <2>2 DEF WriteGood
  <2> QED
    BY <1>8, <1>10, <2>3 DEF Good
<1>12. PICK a \in Int, g \in Int : a = Base(r, out) /\ g = Rest(c, 0, "enqueue") /\ a + g = z
  <2>1. PICK a \in Int, g \in Int : a = Base(r, out) /\ g = Rest(c, 0, "enqueue")
    BY <1>1, <1>4, BaseIs, RestAppend DEF DInv, Half
  <2>2. Sending(x) = 0
    BY DEF Sending
  <2>3. a + g = (m - u) + 0
    BY <1>3, <1>4, <2>1, <2>2 DEF Order
  <2> QED
    BY <1>6, <2>1, <2>3
<1>13. Rest(Append(c, p), 0, "enqueue") = g + n /\ Sending(y) = n /\ p.n = n /\ p.data = Run(z, n)
  <2>1. Tells(p, "enqueue") = n /\ p.n = n /\ p.data = d
    BY <1>7 DEF Tells, Packed
  <2>2. Rest(Append(c, p), 0, "enqueue") = g + n
    BY <1>1, <1>12, <2>1, RestAppend DEF Half
  <2> QED
    BY <1>7, <1>8, <2>1, <2>2 DEF Sending
<1>14. Order(r, y, Append(c, p), 0, out, written)
  <2>1. Aligned(c, 0, a)
    BY <1>4, <1>12 DEF Order
  <2>2. Aligned(Append(c, p), 0, a)
    BY <1>1, <1>12, <1>13, <2>1, AlignedAppend DEF Half
  <2>3. a + (g + n) = (m - u) + n
    BY <1>6, <1>12
  <2> QED
    BY <1>3, <1>4, <1>9, <1>12, <1>13, <2>2, <2>3 DEF Order
<1>15. Bytes(r, y, chan["read"], k, Append(c, p), 0)
  <2>1. PICK v \in Nat, i \in Int : v = Len(r.win) /\ i = r.bytes
    BY <1>4 DEF Good, Sizes
  <2>2. PICK f \in Int : f = Rest(chan["read"], k, "dequeue")
    BY RestIs DEF DInv, Mid, Other, Half
  <2>3. b + 0 = i + v + g + f
    <3>1. Sending(x) = 0
      BY DEF Sending
    <3> QED
      BY <1>3, <1>4, <1>12, <2>1, <2>2, <3>1 DEF Bytes
  <2>4. b + n = i + v + (g + n) + f
    BY <2>3
  <2> QED
    BY <1>3, <1>9, <1>13, <2>1, <2>2, <2>4 DEF Bytes
<1> QED
  BY <1>1, <1>2, <1>4, <1>11, <1>14, <1>15 DEF Mid

(* The rest of SendEnqueuePacket.                                          *)
Shorter(x) ==
  [x EXCEPT !.inop = @ \ {"read"}, !.win = <<>>, !.bytes = @ + Len(x.win),
            !.data = SubSeq(@, Len(x.win) + 1, Len(@)), !.apc = "read"]

LEMMA MidSent ==
  ASSUME DInv, NEW x, x = q["write"], x.apc = "send", NEW y, y = Shorter(x)
  PROVE  Mid("write", y, 0, <<>>) /\ y.apc = "read"
<1>1. PICK b \in Int, u \in Nat, l \in Int, m \in Nat, w \in Nat, n \in Nat :
        /\ b = x.bytes /\ u = Len(x.data) /\ l = x.len /\ m = written /\ w = x.want
        /\ Good("write", x) /\ n = Len(x.win) /\ n <= u
  BY DEF Good, Sizes, WriteGood, DInv, Half
<1>2. PICK r, c : r = q["read"] /\ c = chan["write"] /\ Good("read", r)
                  /\ Order(r, x, c, 0, out, written) /\ Bytes(r, x, chan["read"], 0, c, 0)
  BY DEF DInv, Half
<1>3. n <= u
  BY <1>1
<1>4. PICK e \in Nat, z \in Int : e = u - n /\ n + e = u /\ z = m - u /\ z + n = m - e
  BY <1>3
<1>5. x.data = Run(z, u)
  BY <1>1, <1>2, <1>4 DEF Order
<1>6. PICK d : d = SubSeq(x.data, n + 1, Len(x.data)) /\ d = Run(z + n, e) /\ Len(d) = e
  <2>1. Joins(z, n, e)
    BY RunJoin
  <2>2. SubSeq(Run(z, u), n + 1, u) = Run(z + n, e)
    BY <1>4, <2>1 DEF Joins
  <2>3. Len(Run(z + n, e)) = e
    BY RunIs
  <2> QED
    BY <1>1, <1>5, <2>2, <2>3
<1>7. /\ IsHalf(y) /\ y.win = <<>> /\ y.bytes = b + n /\ y.data = d /\ y.apc = "read"
      /\ \A f \in Fields \ {"inop", "win", "bytes", "data", "apc"} : y[f] = x[f]
  <2>1. IsHalf(x) /\ x.bytes + n = b + n
    BY <1>1 DEF Good
  <2>2. y = [x EXCEPT !.inop = @ \ {"read"}, !.win = <<>>, !.bytes = b + n, !.data = d,
                      !.apc = "read"]
    BY <1>1, <1>6, <2>1 DEF Shorter
  <2> QED
    BY <2>1, <2>2, ZenonT(40) DEF IsHalf, Fields
<1>8. Sizes(y) /\ (Holds(y) <=> Holds(x)) /\ y.len = x.len /\ y.pc = x.pc /\ y.want = x.want
  <2>1. Apart(x, y, {"bytes", "data", "win", "apc"}) /\ y.req = x.req
    BY <1>7 DEF Apart, Aside, Fields
  <2>2. Len(y.win) = 0 /\ Len(y.data) = e /\ y.bytes = b + n
    BY <1>6, <1>7
  <2>3. y.bytes \in Int /\ Len(y.data) \in Nat /\ Len(y.win) \in Nat
    BY <1>1, <1>6, <2>2, SMTT(30)
  <2>4. Requests(y.req)
    BY <1>1, <2>1 DEF Good, Sizes, Requests
  <2> QED
    BY <1>1, <2>1, <2>3, <2>4, ApartFields DEF Half
<1>9. Good("write", y)
  <2>1. u <= l /\ (Holds(x) => w <= l - u) /\ b >= 0
    BY <1>1 DEF Good, WriteGood
  <2>2. e <= l /\ (Holds(x) => w <= l - e) /\ b + n >= 0
    BY <1>3, <1>4, <2>1
  <2>3. WriteGood(y)
    BY <1>1, <1>6, <1>7, <1>8, <2>2 DEF WriteGood
  <2> QED
    BY <1>7, <1>8, <2>3 DEF Good
<1>10. Sending(x) = n /\ Sending(y) = 0
  BY <1>1, <1>7 DEF Sending
<1>11. PICK a \in Int, g \in Int : a = Base(r, out) /\ g = Rest(c, 0, "enqueue") /\ a + g = (m - u) + n
  <2>1. PICK a \in Int : a = Base(r, out)
    BY <1>2, BaseIs DEF DInv
  <2>2. PICK g \in Int : g = Rest(c, 0, "enqueue")
    <3>1. Packets("write", c) /\ 0 \in 0 .. Len(c)
      BY <1>2 DEF DInv, Packets, Half
    <3> QED
      BY <3>1, RestIs DEF Half
  <2>3. a + g = (m - u) + n
    BY <1>1, <1>2, <1>10, <2>1, <2>2 DEF Order
  <2> QED
    BY <2>1, <2>2, <2>3
<1>12. Order(r, y, c, 0, out, written)
  <2>1. a + g = (m - e) + 0
    BY <1>4, <1>11
  <2>2. y.data = Run(m - e, e) /\ Len(y.data) = e
    BY <1>4, <1>6, <1>7
  <2> QED
    BY <1>1, <1>2, <1>10, <1>11, <2>1, <2>2 DEF Order
<1>13. Bytes(r, y, chan["read"], 0, c, 0)
  <2>1. PICK R : R = r.bytes + Len(r.win) + Rest(c, 0, "enqueue") + Rest(chan["read"], 0, "dequeue")
    OBVIOUS
  <2>2. b + n = R
    BY <1>1, <1>2, <1>10, <2>1 DEF Bytes
  <2>3. (b + n) + 0 = R
    BY <2>2
  <2> QED
    BY <1>7, <1>10, <2>1, <2>3 DEF Bytes
<1>14. Mid("write", x, 0, <<>>) /\ chan["write"] \o <<>> = chan["write"]
  BY MidStart, NoneYet DEF DInv, Half
<1> QED
  BY <1>2, <1>7, <1>9, <1>12, <1>13, <1>14 DEF Mid

(* The rest of EnqueuePacket: what has been read from the socket is now    *)
(* behind the data.                                                        *)
Longer(x) ==
  [x EXCEPT !.inop = @ \ {"write"}, !.data = @ \o x.win,
            !.bytes = @ + Len(x.win), !.win = <<>>, !.req["write"] = 0,
            !.apc = "read"]

LEMMA MidArrived ==
  ASSUME DInv, NEW x, x = q["read"], NEW y, y = Longer(x)
  PROVE  Mid("read", y, 0, <<>>) /\ y.apc = "read"
<1>1. PICK b \in Int, d \in Nat, v \in Nat, l \in Int, o \in Nat, w \in Nat :
        /\ b = x.bytes /\ d = Len(x.data) /\ v = Len(x.win) /\ l = x.len /\ o = Len(out)
        /\ w = x.want /\ Good("read", x)
  BY DEF Good, Sizes, DInv, Half
<1>2. PICK c : c = chan["write"] /\ Order(x, q["write"], c, 0, out, written)
               /\ Bytes(x, q["write"], chan["read"], 0, c, 0)
  BY DEF DInv
<1>3. PICK e \in Nat : e = d + v
  OBVIOUS
<1>4. PICK z : z = x.data \o x.win /\ z = Run(o, e) /\ Len(z) = e
  <2>1. Joins(o, d, v)
    BY RunJoin
  <2>2. x.data = Run(o, d) /\ x.win = Run(o + d, v)
    BY <1>1, <1>2 DEF Order
  <2>3. Run(o, d) \o Run(o + d, v) = Run(o, e)
    BY <1>3, <2>1 DEF Joins
  <2>4. Len(Run(o, e)) = e
    BY RunIs
  <2> QED
    BY <2>2, <2>3, <2>4
<1>5. /\ IsHalf(y) /\ y.win = <<>> /\ y.bytes = b + v /\ y.data = z /\ y.apc = "read"
      /\ y.req = [x.req EXCEPT !["write"] = 0]
      /\ \A f \in Fields \ {"inop", "data", "bytes", "win", "req", "apc"} : y[f] = x[f]
  <2>1. IsHalf(x) /\ x.bytes + Len(x.win) = b + v
    BY <1>1 DEF Good
  <2>2. y = [x EXCEPT !.inop = @ \ {"write"}, !.data = z, !.bytes = b + v, !.win = <<>>,
                      !.req["write"] = 0, !.apc = "read"]
    BY <1>4, <2>1 DEF Longer
  <2> QED
    BY <2>1, <2>2, ZenonT(40) DEF IsHalf, Fields
<1>6. Sizes(y) /\ (Holds(y) <=> Holds(x)) /\ y.len = x.len /\ y.pc = x.pc /\ y.want = x.want
  <2>1. Apart(x, y, {"bytes", "data", "win", "apc", "req"})
    BY <1>5 DEF Apart, Aside, Fields
  <2>2. Len(y.win) = 0 /\ Len(y.data) = e /\ y.bytes = b + v /\ Requests(y.req)
    BY <1>1, <1>4, <1>5, RequestZero DEF Half
  <2>3. y.bytes \in Int /\ Len(y.data) \in Nat /\ Len(y.win) \in Nat
    BY <2>2
  <2> QED
    BY <1>1, <2>1, <2>2, <2>3, ApartFields, SMTT(30) DEF Half
<1>7. Good("read", y)
  <2>1. d + v <= l /\ (Holds(x) => w <= d) /\ b >= d
    BY <1>1 DEF Good, ReadGood
  <2>2. e + 0 <= l /\ (Holds(x) => w <= e) /\ b + v >= e
    BY <1>3, <2>1
  <2>3. Len(y.win) = 0
    BY <1>5
  <2>4. ReadGood(y)
    BY <1>1, <1>4, <1>5, <1>6, <2>2, <2>3 DEF ReadGood
  <2> QED
    BY <1>5, <1>6, <2>4 DEF Good
<1>8. Base(y, out) = Base(x, out)
  <2>1. Len(y.win) = 0
    BY <1>5
  <2>2. Base(y, out) = o + e + 0 /\ Base(x, out) = o + d + v
    BY <1>1, <1>4, <1>5, <2>1 DEF Base
  <2> QED
    BY <1>3, <2>2
<1>9. Order(y, q["write"], c, 0, out, written)
  <2>1. y.win = Run(o + e, 0) /\ Len(y.win) = 0
    BY <1>5, RunNone
  <2>2. y.data = Run(o, e) /\ Len(y.data) = e
    BY <1>4, <1>5
  <2> QED
    BY <1>1, <1>2, <1>8, <2>1, <2>2 DEF Order
<1>10. Bytes(y, q["write"], chan["read"], 0, c, 0)
  <2>1. Len(y.win) = 0 /\ b + v = (b + v) + 0
    BY <1>5
  <2> QED
    BY <1>1, <1>2, <1>5, <2>1 DEF Bytes
<1>11. Mid("read", x, 0, <<>>) /\ chan["read"] \o <<>> = chan["read"]
  BY MidStart, NoneYet DEF DInv, Half
<1> QED
  BY <1>2, <1>5, <1>7, <1>9, <1>10, <1>11 DEF Mid

---------------------------------------------------------------------------
(* A packet is taken from the channel.                                     *)
Taken(h, k, p) == k \in Nat /\ k < Len(chan[Other(h)]) /\ p = chan[Other(h)][k + 1]

LEMMA TakenIs ==
  ASSUME DInv, NEW h \in Half, NEW k, NEW p, Taken(h, k, p)
  PROVE  /\ Packet(Other(h), p) /\ Packets(Other(h), chan[Other(h)]) /\ Other(h) \in Half
         /\ k \in Nat /\ k + 1 \in 0 .. Len(chan[Other(h)])
         /\ \A t : /\ Rest(chan[Other(h)], k + 1, t) = Rest(chan[Other(h)], k, t) - Tells(p, t)
                   /\ Rest(chan[Other(h)], k, t) \in Int /\ Tells(p, t) \in Int
         /\ \A a \in Int : Aligned(chan[Other(h)], k, a) =>
                /\ Aligned(chan[Other(h)], k + 1, a + Tells(p, "enqueue"))
                /\ p.type = "enqueue" => p.data = Run(a, p.n)
<1>1. PICK o, c : o = Other(h) /\ c = chan[o] /\ o \in Half /\ Packets(o, c)
  BY DEF DInv, Other, Half
<1>2. k \in Nat /\ k < Len(c) /\ p = c[k + 1]
  BY <1>1 DEF Taken
<1>3. PICK n \in Nat : n = Len(c) /\ k + 1 \in 1 .. n
  BY <1>1, <1>2 DEF Packets
<1>4. Packet(o, p) /\ k + 1 \in 0 .. Len(c)
  BY <1>1, <1>2, <1>3 DEF Packets
<1>5. \A t : /\ Rest(c, k + 1, t) = Rest(c, k, t) - Tells(p, t)
             /\ Rest(c, k, t) \in Int /\ Tells(p, t) \in Int
  BY <1>1, <1>2, RestNext
<1>6. \A a \in Int : Aligned(c, k, a) =>
        /\ Aligned(c, k + 1, a + Tells(p, "enqueue"))
        /\ p.type = "enqueue" => p.data = Run(a, p.n)
  BY <1>1, <1>2, AlignedNext
<1> QED
  BY <1>1, <1>2, <1>4, <1>5, <1>6

(* One that carries and tells nothing,                                     *)
LEMMA MidTaken ==
  ASSUME DInv, NEW h \in Half, NEW x, NEW k, NEW s, Mid(h, x, k, s),
         NEW p, Taken(h, k, p), p.type \notin {"enqueue", "dequeue"}
  PROVE  Mid(h, x, k + 1, s)
<1>1. PICK o, c : o = Other(h) /\ c = chan[o]
  OBVIOUS
<1>2. Tells(p, "enqueue") = 0 /\ Tells(p, "dequeue") = 0
  BY DEF Tells
<1>3. k + 1 \in 0 .. Len(c)
  BY <1>1, TakenIs
<1>4. \A t \in {"enqueue", "dequeue"} : Rest(c, k + 1, t) = Rest(c, k, t)
  <2>1. SUFFICES ASSUME NEW t \in {"enqueue", "dequeue"} PROVE Rest(c, k + 1, t) = Rest(c, k, t)
    OBVIOUS
  <2>2. PICK a \in Int : a = Rest(c, k, t) /\ Rest(c, k + 1, t) = a - Tells(p, t)
    BY <1>1, TakenIs
  <2>3. Tells(p, t) = 0
    BY <1>2
  <2> QED
    BY <2>2, <2>3
<1>5. CASE h = "read"
  <2>1. c = chan["write"]
    BY <1>1, <1>5 DEF Other
  <2>2. Order(x, q["write"], c, k, out, written) /\ Bytes(x, q["write"], chan["read"] \o s, 0, c, k)
    BY <1>5, <2>1 DEF Mid
  <2>3. PICK a \in Int : a = Base(x, out) /\ a + 0 = a
    BY <1>5, BaseIs DEF DInv, Mid
  <2>4. Aligned(c, k + 1, a)
    BY <1>1, <1>2, <2>2, <2>3, TakenIs DEF Order
  <2>5. Order(x, q["write"], c, k + 1, out, written)
    BY <1>4, <2>2, <2>3, <2>4 DEF Order
  <2>6. Bytes(x, q["write"], chan["read"] \o s, 0, c, k + 1)
    BY <1>4, <2>2 DEF Bytes
  <2> QED
    BY <1>1, <1>3, <1>5, <2>1, <2>5, <2>6 DEF Mid
<1>6. CASE h = "write"
  <2>1. c = chan["read"]
    BY <1>1, <1>6 DEF Other
  <2>2. Bytes(q["read"], x, c, k, chan["write"] \o s, 0)
    BY <1>6, <2>1 DEF Mid
  <2>3. Bytes(q["read"], x, c, k + 1, chan["write"] \o s, 0)
    BY <1>4, <2>2 DEF Bytes
  <2> QED
    BY <1>1, <1>3, <1>6, <2>1, <2>3 DEF Mid
<1> QED
  BY <1>5, <1>6 DEF Half

(* a dequeue packet: the count falls by what it tells, and stays above 0,  *)
LEMMA MidTold ==
  ASSUME DInv, NEW x, NEW k, NEW s, Mid("write", x, k, s), x.apc # "send",
         NEW p, Taken("write", k, p), p.type = "dequeue", NEW y, y = DequeuePacket(x, p)
  PROVE  Mid("write", y, k + 1, s) /\ y.apc = x.apc
<1>1. PICK c : c = chan["read"] /\ c = chan[Other("write")]
  BY DEF Other
<1>2. /\ Packet("read", p) /\ Packets("read", c) /\ k \in Nat /\ k + 1 \in 0 .. Len(c)
  BY <1>1, TakenIs DEF Other, Half
<1>3. PICK b \in Int, l \in Int, n \in Nat : b = x.bytes /\ l = x.len /\ n = p.n /\ Good("write", x)
  BY <1>2 DEF Good, Sizes, Mid, Packet
<1>4. PICK r, w : /\ r = q["read"] /\ Good("read", r) /\ w = chan["write"] \o s /\ Packets("write", w)
                  /\ Order(r, x, w, 0, out, written) /\ Bytes(r, x, c, k, w, 0)
  <2>1. Packets("write", chan["write"] \o s)
    BY SumConcat DEF DInv, Mid, After, Half
  <2> QED
    BY <1>1, <2>1 DEF Mid, DInv, Half
<1>5. PICK f \in Int, e \in Nat :
        f = Rest(c, k, "dequeue") /\ e = Rest(c, k + 1, "dequeue") /\ e = f - n
  <2>1. Tells(p, "dequeue") = n
    BY <1>3 DEF Tells
  <2>2. Rest(c, k, "dequeue") \in Int /\ Rest(c, k + 1, "dequeue") = Rest(c, k, "dequeue") - n
    BY <1>1, <2>1, TakenIs DEF Half
  <2>3. Rest(c, k + 1, "dequeue") \in Nat
    BY <1>2, SumsNat DEF Half
  <2> QED
    BY <2>2, <2>3
<1>6. PICK i \in Nat, v \in Nat, g \in Nat : i = r.bytes /\ v = Len(r.win) /\ g = Rest(w, 0, "enqueue")
  <2>1. r.bytes \in Nat /\ Len(r.win) \in Nat
    <3>1. PICK d \in Nat, j \in Int : d = Len(r.data) /\ j = r.bytes /\ j >= d
      BY <1>4 DEF Good, Sizes, ReadGood
    <3> QED
      BY <1>4, <3>1 DEF Good, Sizes
  <2>2. 0 \in 0 .. Len(w)
    BY <1>4 DEF Packets
  <2> QED
    BY <1>4, <2>1, <2>2, SumsNat DEF Half
<1>7. b + 0 = i + v + g + f
  <2>1. Sending(x) = 0
    BY DEF Sending
  <2> QED
    BY <1>3, <1>4, <1>5, <1>6, <2>1 DEF Bytes
<1>8. PICK b2 \in Nat : b2 = b - n /\ b2 + 0 = i + v + g + e
  BY <1>5, <1>7
<1>9. /\ IsHalf(y) /\ y.bytes = b2 /\ y.req = [x.req EXCEPT !["read"] = 0]
      /\ \A f2 \in Fields \ {"bytes", "req"} : y[f2] = x[f2]
  <2>1. IsHalf(x) /\ x.bytes - p.n = b2
    BY <1>3, <1>8 DEF Good
  <2>2. y = [x EXCEPT !.req["read"] = 0, !.bytes = b2]
    BY <2>1 DEF DequeuePacket
  <2> QED
    BY <2>1, <2>2 DEF IsHalf, Fields
<1>10. y.data = x.data /\ y.win = x.win /\ y.apc = x.apc
  BY <1>9 DEF Fields
<1>11. Sizes(y) /\ (Holds(y) <=> Holds(x)) /\ y.len = x.len /\ y.pc = x.pc /\ y.want = x.want
  <2>1. Apart(x, y, {"bytes", "req"})
    BY <1>9 DEF Apart, Aside, Fields
  <2>2. Requests(y.req)
    BY <1>3, <1>9, RequestZero DEF Half
  <2>3. y.bytes \in Int /\ Len(y.data) \in Nat /\ Len(y.win) \in Nat
    BY <1>3, <1>9, <1>10 DEF Good, Sizes
  <2> QED
    BY <1>3, <2>1, <2>2, <2>3, ApartFields DEF Half
<1>12. Good("write", y)
  <2>1. WriteGood(x)
    BY <1>3 DEF Good
  <2>2. y.bytes >= 0
    BY <1>9
  <2>3. WriteGood(y)
    BY <1>10, <1>11, <2>1, <2>2 DEF WriteGood
  <2> QED
    BY <1>9, <1>11, <2>3 DEF Good
<1>13. Order(r, y, w, 0, out, written) /\ Sending(y) = 0
  <2>1. Sending(y) = Sending(x) /\ Sending(x) = 0
    BY <1>10 DEF Sending
  <2> QED
    BY <1>4, <1>10, <2>1 DEF Order
<1>14. Bytes(r, y, c, k + 1, w, 0)
  BY <1>5, <1>6, <1>8, <1>9, <1>13 DEF Bytes
<1> QED
  BY <1>1, <1>2, <1>4, <1>10, <1>12, <1>13, <1>14 DEF Mid

(* and an enqueue packet: its data is the next the reader has not got.     *)
LEMMA MidOpened ==
  ASSUME DInv, NEW x, NEW k, NEW s, Mid("read", x, k, s), x.apc # "recv",
         NEW p, Taken("read", k, p), p.type = "enqueue", NEW y, y = EnqueuePacket(x, p)
  PROVE  Mid("read", y, k + 1, s) /\ y.apc = "recv"
<1>1. PICK c : c = chan["write"] /\ c = chan[Other("read")]
  BY DEF Other
<1>2. /\ Packet("write", p) /\ Packets("write", c) /\ k \in Nat /\ k + 1 \in 0 .. Len(c)
  BY <1>1, TakenIs DEF Other, Half
<1>3. PICK b \in Int, d \in Nat, l \in Int, n \in Nat, o \in Nat, w \in Nat, m \in Nat :
        /\ b = x.bytes /\ d = Len(x.data) /\ l = x.len /\ n = p.n /\ n = Len(p.data)
        /\ o = Len(out) /\ w = x.want /\ m = x.max /\ Good("read", x)
  BY <1>2 DEF Good, Sizes, Mid, Packet, DInv
<1>4. x.win = <<>> /\ Len(x.win) = 0
  BY <1>3 DEF Good, ReadGood
<1>5. PICK z : /\ z = (IF p.n > Free(x) \/ p.n > x.max THEN GrowBuffer(x, Len(x.data) + p.n, p.n) ELSE x)
               /\ Good("read", z) /\ Same("read", x, z) /\ z.len \in Int /\ z.len >= d + n
  <2>1. CASE p.n > Free(x) \/ p.n > x.max
    <3>1. PICK z : z = GrowBuffer(x, Len(x.data) + p.n, p.n)
      OBVIOUS
    <3>2. PICK a \in Int : a = d + n
      OBVIOUS
    <3>3. z = GrowBuffer(x, a, n)
      BY <1>3, <3>1, <3>2
    <3>4. Wider(x, z) /\ z.len >= a
      BY <1>3, <3>3, GrowBufferWider DEF Half
    <3>5. Same("read", x, z)
      BY <1>3, <3>4, WiderFits DEF Half
    <3> QED
      BY <2>1, <3>1, <3>2, <3>4, <3>5 DEF Same, Wider
  <2>2. CASE ~(p.n > Free(x) \/ p.n > x.max)
    <3>1. Free(x) = l - d
      BY <1>3 DEF Free
    <3>2. ~(n > l - d)
      BY <1>3, <2>2, <3>1
    <3>3. l >= d + n
      BY <3>2
    <3> QED
      BY <1>3, <2>2, <3>3, SameSelf DEF Half
  <2> QED
    BY <2>1, <2>2
<1>6. z.data = x.data /\ z.bytes = x.bytes
  BY <1>5 DEF Same
<1>7. /\ IsHalf(y) /\ y.win = p.data /\ y.apc = "recv"
      /\ \A f \in Fields \ {"inop", "win", "apc"} : y[f] = z[f]
  <2>1. IsHalf(z)
    BY <1>5 DEF Good
  <2>2. y = [z EXCEPT !.inop = @ \cup {"write"}, !.win = p.data, !.apc = "recv"]
    BY <1>5 DEF EnqueuePacket
  <2> QED
    BY <2>1, <2>2 DEF IsHalf, Fields
<1>8. y.data = z.data /\ y.bytes = z.bytes /\ y.req = z.req
  BY <1>7 DEF Fields
<1>9. Sizes(y) /\ (Holds(y) <=> Holds(z)) /\ y.len = z.len /\ y.pc = z.pc /\ y.want = z.want
  <2>1. Apart(z, y, {"win", "apc"})
    BY <1>7 DEF Apart, Aside, Fields
  <2>2. Len(y.win) \in Nat
    BY <1>3, <1>7
  <2>3. y.bytes \in Int /\ Len(y.data) \in Nat /\ Requests(y.req)
    BY <1>5, <1>8 DEF Good, Sizes, Requests
  <2> QED
    BY <1>5, <2>1, <2>2, <2>3, ApartFields DEF Half
<1>10. Good("read", y)
  <2>1. ReadGood(z)
    BY <1>5 DEF Good
  <2>2. Len(y.data) = d /\ Len(y.win) = n
    BY <1>3, <1>6, <1>7, <1>8
  <2>3. Len(y.data) + Len(y.win) <= y.len
    <3>1. PICK l2 \in Int : l2 = z.len /\ d + n <= l2
      BY <1>5
    <3> QED
      BY <1>9, <2>2, <3>1
  <2>4. ReadGood(y)
    BY <1>7, <1>8, <1>9, <2>1, <2>3 DEF ReadGood
  <2> QED
    BY <1>7, <1>9, <2>4 DEF Good
<1>11. Order(x, q["write"], c, k, out, written) /\ Bytes(x, q["write"], chan["read"] \o s, 0, c, k)
  BY <1>1 DEF Mid
<1>12. PICK a \in Int : a = Base(x, out) /\ a = o + d /\ Base(y, out) = a + n
  <2>1. Base(x, out) = o + d + 0
    BY <1>3, <1>4 DEF Base
  <2>2. Base(y, out) = o + d + n
    BY <1>3, <1>6, <1>7, <1>8 DEF Base
  <2>3. PICK a \in Int : a = o + d
    OBVIOUS
  <2> QED
    BY <2>1, <2>2, <2>3
<1>13. Tells(p, "enqueue") = n
  BY <1>3 DEF Tells
<1>14. Aligned(c, k + 1, a + n) /\ p.data = Run(a, n)
  <2>1. Aligned(c, k, a)
    BY <1>11, <1>12 DEF Order
  <2>2. Aligned(c, k + 1, a + Tells(p, "enqueue")) /\ p.data = Run(a, p.n)
    BY <1>1, <2>1, TakenIs DEF Half
  <2>3. p.n = n
    BY <1>3
  <2> QED
    BY <1>13, <2>2, <2>3
<1>15. PICK g \in Int : g = Rest(c, k, "enqueue") /\ Rest(c, k + 1, "enqueue") = g - n
  BY <1>1, <1>13, TakenIs DEF Half
<1>16. Order(y, q["write"], c, k + 1, out, written)
  <2>1. (a + n) + (g - n) = a + g
    OBVIOUS
  <2>2. Base(y, out) + Rest(c, k + 1, "enqueue") = Base(x, out) + Rest(c, k, "enqueue")
    BY <1>12, <1>15, <2>1
  <2>3. y.win = Run(Len(out) + Len(y.data), Len(y.win))
    BY <1>3, <1>6, <1>7, <1>8, <1>12, <1>14
  <2> QED
    BY <1>6, <1>8, <1>11, <1>12, <1>14, <2>2, <2>3 DEF Order
<1>17. Bytes(y, q["write"], chan["read"] \o s, 0, c, k + 1)
  <2>1. y.bytes = b /\ Len(y.win) = n
    BY <1>3, <1>6, <1>7, <1>8
  <2>2. b + n + (g - n) = b + 0 + g
    OBVIOUS
  <2> QED
    BY <1>3, <1>4, <1>11, <1>15, <2>1, <2>2 DEF Bytes
<1> QED
  BY <1>1, <1>2, <1>7, <1>10, <1>16, <1>17 DEF Mid

LEMMA BlockPacketSame ==
  ASSUME NEW h \in Half, NEW x, Good(h, x), NEW p, p.n \in Int
  PROVE  Same(h, x, ReadBlockPacket(x, p)) /\ Same(h, x, WriteBlockPacket(x, p))
<1>1. ASSUME NEW d \in Half, NEW P, NEW y, y = [x EXCEPT !.req[d] = p.n, !.pending = P]
      PROVE  Same(h, x, y)
  <2>1. PICK r : r = [x.req EXCEPT ![d] = p.n] /\ Requests(r)
    BY RequestZero
  <2>2. y = [x EXCEPT !.req = r, !.pending = P]
    BY <1>1, <2>1
  <2>3. Elsewhere(x, y)
    BY <2>1, <2>2 DEF Elsewhere, Good, IsHalf, Fields, Aside
  <2> QED
    BY <2>3, ElsewhereSame
<1>2. PICK P, Q : /\ ReadBlockPacket(x, p) = [x EXCEPT !.req["read"] = p.n, !.pending = P]
                  /\ WriteBlockPacket(x, p) = [x EXCEPT !.req["write"] = p.n, !.pending = Q]
  <2>1. PICK P : P = IF p.n > Len(x.data) + x.bytes /\ UseD4R THEN x.pending \cup {"tag"} ELSE x.pending
    OBVIOUS
  <2>2. PICK Q : Q = IF p.n + Len(x.data) > x.rlen /\ UseD4R THEN x.pending \cup {"tag"} ELSE x.pending
    OBVIOUS
  <2>3. ReadBlockPacket(x, p) = [x EXCEPT !.req["read"] = p.n, !.pending = P]
    BY <2>1 DEF ReadBlockPacket
  <2>4. WriteBlockPacket(x, p) = [x EXCEPT !.req["write"] = p.n, !.pending = Q]
    BY <2>2 DEF WriteBlockPacket
  <2> QED
    BY <2>3, <2>4
<1> QED
  BY <1>1, <1>2 DEF Half

LEMMA TagPacketSame ==
  ASSUME NEW h \in Half, NEW x, Good(h, x), NEW p
  PROVE  Same(h, x, D4RTagPacket(x, p))
<1>1. PICK y : y = [x EXCEPT !.tagUpdated = TRUE, !.mock = p.n]
  OBVIOUS
<1>2. Elsewhere(x, y)
  BY <1>1 DEF Elsewhere, Good, IsHalf, Fields, Aside
<1>3. Same(h, x, y) /\ Good(h, y)
  BY <1>2, ElsewhereSame DEF Same
<1> QED
  BY <1>1, <1>3, SignalSame, SameTwice DEF D4RTagPacket

LEMMA HandleStep ==
  ASSUME DInv, NEW h \in Half, NEW x, NEW k, NEW s, Mid(h, x, k, s),
         x.apc # "send", x.apc # "recv", NEW p, Taken(h, k, p), NEW y, y = Handle(h, x, p)
  PROVE  Mid(h, y, k + 1, s) /\ y.apc # "send" /\ (p.type # "enqueue" => y.apc # "recv")
<1>1. PICK z : z = [x EXCEPT !.known = p.wait, !.seen = p.ack]
  OBVIOUS
<1>2. Mid(h, z, k, s) /\ Good(h, z) /\ z.apc # "send" /\ z.apc # "recv"
  <2>1. Elsewhere(x, z)
    BY <1>1 DEF Mid, Elsewhere, Good, IsHalf, Fields, Aside
  <2>2. Same(h, x, z)
    BY <2>1, ElsewhereSame DEF Mid
  <2> QED
    BY <2>2, MidSame DEF Same
<1>3. Packet(Other(h), p)
  BY TakenIs
<1>4. CASE p.type = "enqueue"
  <2>1. h = "read"
    BY <1>3, <1>4 DEF Packet, Other
  <2>2. y = EnqueuePacket(z, p)
    BY <1>1, <1>4 DEF Handle
  <2>3. Mid("read", y, k + 1, s) /\ y.apc = "recv"
    BY <1>2, <1>4, <2>1, <2>2, MidOpened
  <2> QED
    BY <1>4, <2>1, <2>3
<1>5. CASE p.type = "dequeue"
  <2>1. h = "write"
    BY <1>3, <1>5 DEF Packet, Other, Half
  <2>2. y = DequeuePacket(z, p)
    BY <1>1, <1>5 DEF Handle
  <2>3. Mid("write", y, k + 1, s) /\ y.apc = z.apc
    BY <1>2, <1>5, <2>1, <2>2, MidTold
  <2> QED
    BY <1>2, <2>1, <2>3
<1>6. CASE p.type \notin {"enqueue", "dequeue"}
  <2>1. Mid(h, z, k + 1, s)
    BY <1>2, <1>6, MidTaken
  <2>2. p.n \in Int /\ p.size \in Int /\ p.type \in Types
    BY <1>3 DEF Packet
  <2>3. Same(h, z, y)
    <3>1. CASE p.type = "readblock"
      <4>1. y = ReadBlockPacket(z, p)
        BY <1>1, <3>1 DEF Handle
      <4> QED
        BY <1>2, <2>2, <4>1, BlockPacketSame
    <3>2. CASE p.type = "writeblock"
      <4>1. y = WriteBlockPacket(z, p)
        BY <1>1, <3>2 DEF Handle
      <4> QED
        BY <1>2, <2>2, <4>1, BlockPacketSame
    <3>3. CASE p.type = "endofwrite"
      <4>1. y = ShutEnd(z, "write")
        BY <1>1, <3>3 DEF Handle
      <4> QED
        BY <1>2, <4>1, ShutSame
    <3>4. CASE p.type = "endofread"
      <4>1. y = ShutEnd(z, "read")
        BY <1>1, <3>4 DEF Handle
      <4> QED
        BY <1>2, <4>1, ShutSame
    <3>5. CASE p.type = "grow"
      <4>1. y = Resize(h, z, p.size, p.n)
        BY <1>1, <3>5 DEF Handle
      <4>2. Wider(z, y)
        BY <1>2, <2>2, <4>1, ResizeWider
      <4> QED
        BY <1>2, <4>2, WiderFits
    <3>6. CASE p.type = "d4rtag"
      <4>1. y = D4RTagPacket(z, p)
        BY <1>1, <3>6 DEF Handle
      <4> QED
        BY <1>2, <4>1, TagPacketSame
    <3> QED
      BY <1>6, <2>2, <3>1, <3>2, <3>3, <3>4, <3>5, <3>6 DEF Types
  <2>4. Mid(h, y, k + 1, s)
    BY <2>1, <2>3, MidSame
  <2> QED
    BY <1>2, <2>3, <2>4 DEF Same
<1> QED
  BY <1>4, <1>5, <1>6

---------------------------------------------------------------------------
(* Ends and pointers: no packet comes after an end, and no buffer grows    *)
(* under two pointers.                                                     *)
Ends == {"endofread", "endofwrite"}
EndOf(h) == IF h = "read" THEN "endofread" ELSE "endofwrite"

(* The node's pointer and that of the action thread.                       *)
Pointers(h, x) ==
  x.inop = (IF Holds(x) THEN {h} ELSE {})
           \cup (IF x.apc \in {"send", "recv"} THEN {Other(h)} ELSE {})

(* Nothing is sent after an end, and a half that has heard of the end of   *)
(* the other has heard of everything.                                      *)
Closing(h, x, c) ==
  \A i \in 1 .. Len(c) : c[i].type \in Ends =>
    c[i].type = EndOf(h) /\ x.sentEnd /\ i = Len(c)
Heard(h, x, y, c) == h \in y.shut => x.sentEnd /\ c = <<>>

(* The inductive invariant.                                                *)
IInv ==
  /\ DInv /\ PacketsInOrder
  /\ \A h \in Half :
       /\ Pointers(h, q[h]) /\ Closing(h, q[h], chan[h])
       /\ Heard(h, q[h], q[Other(h)], chan[h])

(* y has the data, the pointers and the ends of x; Firm: or pointers that  *)
(* are as right.                                                           *)
Steady(x, y) ==
  /\ IsHalf(y) /\ y.inop = x.inop /\ y.sentEnd = x.sentEnd /\ y.apc = x.apc /\ y.shut = x.shut
  /\ y.data = x.data /\ y.dead = x.dead /\ y.eof = x.eof /\ y.term = x.term
  /\ Holds(y) <=> Holds(x)

LEMMA SteadyTwice ==
  ASSUME NEW x, NEW y, NEW z, Steady(x, y), Steady(y, z)
  PROVE  Steady(x, z)
  BY DEF Steady

LEMMA SignalSteady ==
  ASSUME NEW x, IsHalf(x)
  PROVE  Steady(x, Signal(x)) /\ \A h, d : Steady(x, Notify(h, x, d))
<1>1. PICK P : P = x.pending \cup {"action"}
  OBVIOUS
<1>2. Steady(x, [x EXCEPT !.pending = P, !.asleep = FALSE])
  BY DEF Steady, IsHalf, Fields, Holds
<1>3. Steady(x, [x EXCEPT !.asleep = FALSE]) /\ Steady(x, x)
  BY DEF Steady, IsHalf, Fields, Holds
<1>4. Signal(x) = [x EXCEPT !.pending = P, !.asleep = FALSE]
  BY <1>1 DEF Signal
<1>5. \A h, d : Notify(h, x, d) = x \/ Notify(h, x, d) = [x EXCEPT !.asleep = FALSE]
  BY DEF Notify
<1> QED
  BY <1>2, <1>3, <1>4, <1>5

LEMMA ResizeSteady ==
  ASSUME NEW x, IsHalf(x), NEW h, NEW a, NEW b
  PROVE  Steady(x, GrowBuffer(x, a, b)) /\ Steady(x, Resize(h, x, a, b))
<1>1. ASSUME NEW y, IsHalf(y), NEW c, NEW d PROVE Steady(y, GrowBuffer(y, c, d))
  <2>1. PICK m, l : m = Larger(y.max, d) /\ l = Larger(Larger(y.len, c), m)
    OBVIOUS
  <2>2. Steady(y, [y EXCEPT !.max = m, !.len = l]) /\ Steady(y, y)
    BY <1>1 DEF Steady, IsHalf, Fields, Holds
  <2>3. GrowBuffer(y, c, d) = y \/ GrowBuffer(y, c, d) = [y EXCEPT !.max = m, !.len = l]
    BY <2>1 DEF GrowBuffer
  <2> QED
    BY <2>2, <2>3
<1>2. PICK m, r, w : /\ m = Larger(x.max, b) /\ r = QueueLength(a, m, "read")
                     /\ w = QueueLength(a, m, "write")
  OBVIOUS
<1>3. PICK y, l : y = [x EXCEPT !.rlen = r, !.wlen = w] /\ l = (IF h = "read" THEN r ELSE w)
  OBVIOUS
<1>4. Steady(x, y) /\ IsHalf(y)
  BY <1>3 DEF Steady, IsHalf, Fields, Holds
<1>5. Resize(h, x, a, b) = GrowBuffer(y, l, m)
  BY <1>2, <1>3 DEF Resize
<1>6. Steady(y, GrowBuffer(y, l, m))
  BY <1>1, <1>4
<1> QED
  BY <1>1, <1>4, <1>5, <1>6, SteadyTwice

LEMMA UnlockedGrowSteady ==
  ASSUME NEW x, IsHalf(x), NEW h, NEW a, NEW b, x.pc # "growwait"
  PROVE  Steady(x, UnlockedGrow(h, x, a, b))
<1>1. PICK y : y = Signal(x) /\ Steady(x, y) /\ IsHalf(y)
  BY SignalSteady DEF Steady
<1>2. PICK z : z = [y EXCEPT !.pc = "growwait", !.locked = FALSE, !.args = <<a, b, x.pc>>]
  OBVIOUS
<1>3. Steady(x, z)
  <2>1. IsHalf(z) /\ z.pc = "growwait" /\ z.args = <<a, b, x.pc>> /\ z.inop = y.inop /\ z.sentEnd = y.sentEnd
        /\ z.apc = y.apc /\ z.shut = y.shut /\ z.data = y.data /\ z.dead = y.dead
        /\ z.eof = y.eof /\ z.term = y.term
    BY <1>1, <1>2, ZenonT(40) DEF IsHalf, Fields
  <2>2. Holds(z) <=> Holds(x)
    <3>1. z.args[3] = x.pc
      BY <2>1
    <3> QED
      BY <2>1, <3>1 DEF Holds
  <2> QED
    BY <1>1, <2>1, <2>2, SMTT(30) DEF Steady
<1>4. PICK u : u = Resize(h, x, a, b) /\ Steady(x, u) /\ IsHalf(u)
  BY ResizeSteady DEF Steady
<1>5. PICK P, v : P = u.pending \cup {"grow"} /\ v = [u EXCEPT !.pending = P]
  OBVIOUS
<1>6. Steady(u, v) /\ IsHalf(v)
  BY <1>4, <1>5 DEF Steady, IsHalf, Fields, Holds
<1>7. Steady(x, Signal(v))
  BY <1>4, <1>6, SignalSteady, SteadyTwice
<1>8. Steady(x, x)
  BY DEF Steady
<1>9. UnlockedGrow(h, x, a, b) \in {x, z, Signal(v)}
  BY <1>1, <1>2, <1>4, <1>5 DEF UnlockedGrow
<1> QED
  BY <1>3, <1>7, <1>8, <1>9

Firm(h, x, y) ==
  /\ Pointers(h, x) => Pointers(h, y)
  /\ y.sentEnd = x.sentEnd
  /\ Other(h) \in y.shut <=> Other(h) \in x.shut

LEMMA SteadyFirm ==
  ASSUME NEW h, NEW x, NEW y, Steady(x, y)
  PROVE  Firm(h, x, y)
  BY DEF Steady, Firm, Pointers

LEMMA FirmTwice ==
  ASSUME NEW h, NEW x, NEW y, NEW z, Firm(h, x, y), Firm(h, y, z)
  PROVE  Firm(h, x, z)
  BY DEF Firm

(* What the node, the file thread and the kernel of h may do to it: they   *)
(* shut no end but their own, and add no data after that.                  *)
Calm(h, x, y) ==
  /\ Firm(h, x, y) /\ x.shut \subseteq y.shut /\ (h \in x.shut => y.data = x.data)
  /\ y.apc = x.apc /\ y.eof = x.eof /\ y.term = x.term /\ (y.dead = x.dead \/ terminated[h])

(* What matters to the ends is as it was: Mild leaves out the pointers.     *)
Halted(t) == \E d \in Half : t[d]
Mild(h, x, y) ==
  /\ y.sentEnd = x.sentEnd /\ x.shut \subseteq y.shut
  /\ Other(h) \in y.shut <=> Other(h) \in x.shut
  /\ h = "write" /\ h \in x.shut /\ x.data = <<>> => y.data = <<>>
  /\ y.eof = x.eof /\ (y.term => x.term \/ terminated[h])
  /\ y.dead = x.dead \/ Halted(terminated)

LEMMA CalmMild ==
  ASSUME NEW h \in Half, NEW x, NEW y
  PROVE  Calm(h, x, y) \/ Steady(x, y) => Mild(h, x, y)
  BY DEF Calm, Firm, Steady, Mild, Halted

LEMMA MildTwice ==
  ASSUME NEW h, NEW x, NEW y, NEW z, Mild(h, x, y), Mild(h, y, z)
  PROVE  Mild(h, x, z)
  BY DEF Mild

LEMMA SteadyCalm ==
  ASSUME NEW h, NEW x, NEW y, Steady(x, y)
  PROVE  Calm(h, x, y)
  BY SteadyFirm DEF Steady, Calm

LEMMA CalmTwice ==
  ASSUME NEW h, NEW x, NEW y, NEW z, Calm(h, x, y), Calm(h, y, z)
  PROVE  Calm(h, x, z)
<1>1. Firm(h, x, z)
  BY FirmTwice DEF Calm
<1> QED
  BY <1>1 DEF Calm

(* With one pointer a buffer may grow, and the ASSERT against two is only  *)
(* for a node that has called Grow with one.                               *)
LEMMA GrowFree ==
  ASSUME NEW h \in Half, NEW x, Pointers(h, x), ~Holds(x) \/ x.apc \notin {"send", "recv"}
  PROVE  \A y, c : GrowAsserts(x, y, c) = {}
<1>1. x.inop # Half
  BY DEF Pointers, Half, Other
<1> QED
  BY <1>1 DEF GrowAsserts

LEMMA GrowCalled ==
  ASSUME NEW h \in Half, NEW x, Pointers(h, x), NEW y, NEW c, c = "held" \/ ~Holds(x)
  PROVE  GrowAsserts(x, y, c) \subseteq {"call"}
<1>1. CASE ~Holds(x)
  BY <1>1, GrowFree
<1>2. CASE c = "held"
  BY <1>2 DEF GrowAsserts
<1> QED
  BY <1>1, <1>2

(* A step of the node of h, its file thread or its kernel.                 *)
Keeps(h) ==
  /\ \E y : Calm(h, q[h], y) /\ q' = [q EXCEPT ![h] = y]
  /\ UNCHANGED chan /\ failed' \subseteq failed \cup {"call"}

LEMMA LoopGrowKeeps ==
  ASSUME NEW h \in Half, NEW x, IsHalf(x), Pointers(h, x), x.pc \notin {"held", "growwait"},
         LoopGrow(h, x)
  PROVE  /\ \E y : Calm(h, x, y) /\ q' = [q EXCEPT ![h] = y]
         /\ failed' \subseteq failed
<1>1. PICK b, z : /\ b = (h = "write" /\ ~MaxGrows(x))
                  /\ z = [x EXCEPT !.grown = b, !.pc = "loop", !.locked = TRUE]
  OBVIOUS
<1>2. PICK a : a = (IF MaxGrows(x) THEN 2 * x.want ELSE x.req[Other(h)] + x.want)
  OBVIOUS
<1>3. PICK y : y = UnlockedGrow(h, z, a, x.want)
  OBVIOUS
<1>4. Set(h, Signal(y)) /\ failed' = failed \cup GrowAsserts(x, y, "loop")
  BY <1>1, <1>2, <1>3, SMTT(30) DEF LoopGrow
<1>5. Steady(x, z) /\ IsHalf(z) /\ z.pc # "growwait"
  BY <1>1, ZenonT(40) DEF Steady, IsHalf, Fields, Holds
<1>6. Steady(z, y) /\ IsHalf(y)
  BY <1>3, <1>5, UnlockedGrowSteady DEF Steady
<1>7. Steady(y, Signal(y))
  BY <1>6, SignalSteady
<1>8. Calm(h, x, Signal(y))
  BY <1>5, <1>6, <1>7, SteadyTwice, SteadyCalm
<1>9. GrowAsserts(x, y, "loop") = {}
  BY GrowFree DEF Holds
<1> QED
  BY <1>4, <1>8, <1>9 DEF Set

LEMMA WaitingSteady ==
  ASSUME NEW h \in Half, NEW x, IsHalf(x), x.pc \notin {"held", "growwait"}
  PROVE  Steady(x, Waiting(h, x))
<1>1. PICK P, y : P = x.pending \cup {"block"} /\ y = [x EXCEPT !.pending = P]
  OBVIOUS
<1>2. Steady(x, y) /\ IsHalf(y)
  BY <1>1 DEF Steady, IsHalf, Fields, Holds
<1>3. PICK u : u = Signal(y) /\ Steady(y, u) /\ IsHalf(u)
  BY <1>2, SignalSteady DEF Steady
<1>4. PICK r, n : r = [u.req EXCEPT ![h] = x.want] /\ n = u.waits + 1
  OBVIOUS
<1>5. PICK z : z = [u EXCEPT !.req = r, !.tagUpdated = FALSE, !.waits = n, !.pc = "tagwait",
                             !.asleep = TRUE]
  OBVIOUS
<1>6. /\ IsHalf(z) /\ z.inop = u.inop /\ z.sentEnd = u.sentEnd /\ z.apc = u.apc
      /\ z.shut = u.shut /\ z.pc = "tagwait" /\ z.data = u.data /\ z.dead = u.dead
      /\ z.eof = u.eof /\ z.term = u.term
  BY <1>3, <1>5, ZenonT(40) DEF IsHalf, Fields
<1>7. Waiting(h, x) = z
  BY <1>1, <1>3, <1>4, <1>5 DEF Waiting
<1>8. Steady(x, u)
  BY <1>2, <1>3, SteadyTwice
<1> QED
  BY <1>6, <1>7, <1>8 DEF Steady, Holds

LEMMA IterateKeeps ==
  ASSUME NEW h \in Half, NEW z, IsHalf(z), z.pc \notin {"held", "growwait"}, Pointers(h, z), Calm(h, q[h], z),
         Iterate(h, z), UNCHANGED chan
  PROVE  Keeps(h)
<1>1. PICK x : x = [z EXCEPT !.locked = FALSE]
  OBVIOUS
<1>2. Steady(z, x) /\ IsHalf(x) /\ x.pc \notin {"held", "growwait"}
  BY <1>1 DEF Steady, IsHalf, Fields, Holds
<1>3. Calm(h, q[h], x) /\ Pointers(h, x)
  <2>1. Calm(h, z, x)
    BY <1>2, SteadyCalm
  <2>2. Calm(h, q[h], x)
    BY <2>1, CalmTwice
  <2> QED
    BY <2>1, <2>2 DEF Calm, Firm
<1>4. \/ Set(h, [x EXCEPT !.inop = @ \cup {h}, !.pc = "held"]) /\ UNCHANGED failed
      \/ \E c \in {"idle", "ending"} : Set(h, [x EXCEPT !.pc = c]) /\ UNCHANGED failed
      \/ LoopGrow(h, x)
      \/ Set(h, Waiting(h, x)) /\ UNCHANGED failed
  BY <1>1 DEF Iterate
<1>5. CASE Set(h, [x EXCEPT !.inop = @ \cup {h}, !.pc = "held"]) /\ UNCHANGED failed
  <2>1. PICK I, y : I = x.inop \cup {h} /\ y = [x EXCEPT !.inop = I, !.pc = "held"]
    OBVIOUS
  <2>2. /\ y.inop = I /\ y.pc = "held" /\ y.apc = x.apc /\ y.sentEnd = x.sentEnd
        /\ y.shut = x.shut /\ y.data = x.data /\ y.dead = x.dead /\ y.eof = x.eof
        /\ y.term = x.term
    BY <1>2, <2>1 DEF IsHalf, Fields
  <2>3. Calm(h, x, y)
    BY <1>2, <2>1, <2>2 DEF Calm, Firm, Pointers, Holds
  <2>4. q' = [q EXCEPT ![h] = y]
    BY <1>5, <2>1 DEF Set
  <2> QED
    BY <1>3, <1>5, <2>3, <2>4, CalmTwice DEF Keeps
<1>6. ASSUME NEW c \in {"idle", "ending"}, Set(h, [x EXCEPT !.pc = c]) /\ UNCHANGED failed
      PROVE  Keeps(h)
  <2>1. Steady(x, [x EXCEPT !.pc = c])
    BY <1>2 DEF Steady, IsHalf, Fields, Holds
  <2>2. Calm(h, q[h], [x EXCEPT !.pc = c])
    BY <1>3, <2>1, SteadyCalm, CalmTwice
  <2> QED
    BY <1>6, <2>2 DEF Keeps, Set
<1>7. CASE LoopGrow(h, x)
  <2>1. PICK y : Calm(h, x, y) /\ q' = [q EXCEPT ![h] = y] /\ failed' \subseteq failed
    BY <1>2, <1>3, <1>7, LoopGrowKeeps
  <2> QED
    BY <1>3, <2>1, CalmTwice DEF Keeps
<1>8. CASE Set(h, Waiting(h, x)) /\ UNCHANGED failed
  <2>1. Calm(h, q[h], Waiting(h, x))
    BY <1>2, <1>3, WaitingSteady, SteadyCalm, CalmTwice
  <2> QED
    BY <1>8, <2>1 DEF Keeps, Set
<1> QED
  BY <1>4, <1>5, <1>6, <1>7, <1>8

LEMMA SetKeeps ==
  ASSUME NEW h \in Half, NEW y, Steady(q[h], y), q' = [q EXCEPT ![h] = y],
         UNCHANGED chan, failed' \subseteq failed \cup {"call"}
  PROVE  Keeps(h)
  BY SteadyCalm DEF Keeps

LEMMA CallKeeps ==
  ASSUME NEW h \in Half, IsHalf(q[h]), Pointers(h, q[h]), Call(h)
  PROVE  Keeps(h)
<1>1. PICK x : x = q[h]
  OBVIOUS
<1>2. x.pc = "idle" /\ UNCHANGED chan
  BY <1>1 DEF Call, Local
<1>3. CASE Set(h, [x EXCEPT !.pc = "ending"]) /\ UNCHANGED failed
  <2>1. Steady(x, [x EXCEPT !.pc = "ending"])
    BY <1>1, <1>2 DEF Steady, IsHalf, Fields, Holds
  <2> QED
    BY <1>1, <1>2, <1>3, <2>1, SetKeeps DEF Set
<1>4. ASSUME NEW t, Iterate(h, [x EXCEPT !.want = t, !.grown = FALSE]) PROVE Keeps(h)
  <2>1. PICK z : z = [x EXCEPT !.want = t, !.grown = FALSE]
    OBVIOUS
  <2>2. Steady(x, z) /\ IsHalf(z) /\ z.pc \notin {"held", "growwait"}
    BY <1>1, <1>2, <2>1 DEF Steady, IsHalf, Fields, Holds
  <2>3. Calm(h, q[h], z) /\ Pointers(h, z)
    <3>1. Steady(x, z)
      BY <2>2
    <3>2. Calm(h, x, z) /\ Firm(h, x, z)
      BY <3>1, SteadyCalm, SteadyFirm
    <3> QED
      BY <1>1, <3>2 DEF Firm
  <2> QED
    BY <1>2, <1>4, <2>1, <2>2, <2>3, IterateKeeps
<1> QED
  BY <1>1, <1>3, <1>4 DEF Call

LEMMA LoopKeeps ==
  ASSUME NEW h \in Half, IsHalf(q[h]), Pointers(h, q[h]), Loop(h)
  PROVE  Keeps(h)
<1>1. Calm(h, q[h], q[h])
  BY DEF Calm, Firm
<1> QED
  BY <1>1, IterateKeeps DEF Loop, Local

LEMMA GrowWaitedKeeps ==
  ASSUME NEW h \in Half, Good(h, q[h]), Pointers(h, q[h]), GrowWaited(h)
  PROVE  Keeps(h)
<1>1. PICK x : x = q[h] /\ IsHalf(x) /\ x.pc = "growwait"
  BY DEF Good, GrowWaited
<1>2. PICK u : u = Resize(h, x, x.args[1], x.args[2]) /\ Steady(x, u) /\ IsHalf(u)
  BY <1>1, ResizeSteady DEF Steady
<1>3. PICK P, c, b : P = u.pending \cup {"grow"} /\ c = x.args[3] /\ b = (x.args[3] = "loop")
  OBVIOUS
<1>4. PICK y : y = [u EXCEPT !.pending = P, !.pc = c, !.args = NoArgs, !.locked = b]
  OBVIOUS
<1>5. /\ IsHalf(y) /\ y.inop = u.inop /\ y.sentEnd = u.sentEnd /\ y.apc = u.apc
      /\ y.shut = u.shut /\ y.pc = c /\ y.data = u.data /\ y.dead = u.dead
      /\ y.eof = u.eof /\ y.term = u.term /\ y.args = NoArgs
  BY <1>2, <1>4 DEF IsHalf, Fields
<1>6. Steady(x, y) /\ (Holds(x) <=> c = "held")
  <2>1. y.args[3] # "held"
    BY <1>5 DEF NoArgs
  <2>2. Holds(x) <=> c = "held"
    BY <1>1, <1>3 DEF Holds
  <2>3. Holds(y) <=> c = "held"
    BY <1>3, <1>5, <2>1 DEF Holds
  <2> QED
    BY <1>1, <1>2, <1>3, <1>5, <2>2, <2>3 DEF Steady
<1>7. Steady(x, Signal(y))
  BY <1>5, <1>6, SignalSteady, SteadyTwice
<1>8. Set(h, Signal(y)) /\ failed' = failed \cup GrowAsserts(x, y, c) /\ UNCHANGED chan
  BY <1>1, <1>2, <1>3, <1>4, <1>5 DEF GrowWaited, Local
<1>9. GrowAsserts(x, y, c) \subseteq {"call"}
  BY <1>1, <1>6, GrowCalled
<1> QED
  BY <1>1, <1>7, <1>8, <1>9, SetKeeps DEF Set

LEMMA UnlockedGrowKeeps ==
  ASSUME NEW h \in Half, IsHalf(q[h]), Pointers(h, q[h]), q[h].pc # "growwait", NEW a, NEW b, NEW y,
         y = UnlockedGrow(h, q[h], a, b), Set(h, y), UNCHANGED chan,
         failed' = failed \cup GrowAsserts(q[h], y, q[h].pc)
  PROVE  Keeps(h)
<1>1. Steady(q[h], y)
  BY UnlockedGrowSteady
<1>2. GrowAsserts(q[h], y, q[h].pc) \subseteq {"call"}
  BY GrowCalled DEF Holds
<1> QED
  BY <1>1, <1>2, SetKeeps DEF Set

LEMMA GrowKeeps ==
  ASSUME NEW h \in Half, IsHalf(q[h]), Pointers(h, q[h]), Grow(h)
  PROVE  Keeps(h)
<1>1. PICK a : LET y == UnlockedGrow(h, q[h], a[1], a[2])
               IN  Set(h, y) /\ failed' = failed \cup GrowAsserts(q[h], y, q[h].pc)
  BY DEF Grow
<1>2. q[h].pc # "growwait" /\ UNCHANGED chan
  BY DEF Grow, Local
<1> QED
  BY <1>1, <1>2, UnlockedGrowKeeps

LEMMA DetectKeeps ==
  ASSUME IsHalf(q["write"]), Pointers("write", q["write"]), Detect
  PROVE  Keeps("write")
<1>1. PICK a, b, y : /\ y = UnlockedGrow("write", q["write"], a, b) /\ Set("write", y)
                     /\ failed' = failed \cup GrowAsserts(q["write"], y, q["write"].pc)
  BY DEF Detect
<1>2. q["write"].pc # "growwait" /\ UNCHANGED chan
  BY DEF Detect, Local
<1> QED
  BY <1>1, <1>2, UnlockedGrowKeeps DEF Half

LEMMA WakeupKeeps ==
  ASSUME NEW h \in Half, IsHalf(q[h]), Pointers(h, q[h]), Wakeup(h)
  PROVE  Keeps(h)
<1>1. PICK x : x = q[h]
  OBVIOUS
<1>2. x.pc \notin {"held", "growwait"} /\ UNCHANGED chan
  BY <1>1 DEF Wakeup, Local
<1>3. CASE Set(h, [x EXCEPT !.pc = "ending"]) /\ UNCHANGED failed
  <2>1. Steady(x, [x EXCEPT !.pc = "ending"])
    BY <1>1, <1>2 DEF Steady, IsHalf, Fields, Holds
  <2> QED
    BY <1>1, <1>2, <1>3, <2>1, SetKeeps DEF Set
<1>4. CASE Set(h, [x EXCEPT !.asleep = TRUE, !.pc = IF Fresh(x) THEN "d4r" ELSE @])
           /\ UNCHANGED failed
  <2>1. PICK c : c = (IF Fresh(x) THEN "d4r" ELSE x.pc) /\ c \notin {"held", "growwait"}
    BY <1>2
  <2>2. Steady(x, [x EXCEPT !.asleep = TRUE, !.pc = c])
    BY <1>1, <1>2, <2>1 DEF Steady, IsHalf, Fields, Holds
  <2>3. Set(h, [x EXCEPT !.asleep = TRUE, !.pc = c])
    BY <1>4, <2>1
  <2> QED
    BY <1>1, <1>2, <1>4, <2>2, <2>3, SetKeeps DEF Set
<1>5. CASE Iterate(h, [x EXCEPT !.req[h] = 0])
  <2>1. PICK r, z : r = [x.req EXCEPT ![h] = 0] /\ z = [x EXCEPT !.req = r]
    OBVIOUS
  <2>2. Steady(x, z) /\ IsHalf(z) /\ z.pc \notin {"held", "growwait"}
    BY <1>1, <1>2, <2>1 DEF Steady, IsHalf, Fields, Holds
  <2>3. Calm(h, q[h], z) /\ Pointers(h, z)
    BY <1>1, <2>2, SteadyCalm DEF Calm, Firm
  <2>4. Iterate(h, z)
    BY <1>5, <2>1
  <2> QED
    BY <1>2, <2>2, <2>3, <2>4, IterateKeeps
<1> QED
  BY <1>1, <1>3, <1>4, <1>5 DEF Wakeup

LEMMA TagChangeKeeps ==
  ASSUME NEW h \in Half, IsHalf(q[h]), TagChange(h)
  PROVE  Keeps(h)
<1>1. PICK x, n : x = q[h] /\ n = x.tag + 1
  OBVIOUS
<1>2. Steady(x, [x EXCEPT !.tag = n, !.sig = TRUE])
  BY <1>1 DEF Steady, IsHalf, Fields, Holds
<1>3. Set(h, [x EXCEPT !.tag = n, !.sig = TRUE]) /\ UNCHANGED <<chan, failed>>
  BY <1>1 DEF TagChange, Local
<1> QED
  BY <1>1, <1>2, <1>3, SetKeeps DEF Set

LEMMA SignalTagChangedKeeps ==
  ASSUME NEW h \in Half, IsHalf(q[h]), SignalTagChanged(h)
  PROVE  Keeps(h)
<1>1. PICK x, P : x = q[h] /\ P = x.pending \cup {"tag"}
  OBVIOUS
<1>2. PICK z : z = [x EXCEPT !.sig = FALSE, !.pending = P]
  OBVIOUS
<1>3. Steady(x, z) /\ IsHalf(z)
  BY <1>1, <1>2 DEF Steady, IsHalf, Fields, Holds
<1>4. Steady(x, Signal(z))
  BY <1>3, SignalSteady, SteadyTwice
<1>5. Set(h, Signal(z)) /\ UNCHANGED <<chan, failed>>
  BY <1>1, <1>2 DEF SignalTagChanged, Local
<1> QED
  BY <1>1, <1>4, <1>5, SetKeeps DEF Set

(* A node that releases its end, or a kernel that makes the half do so,    *)
(* tells it nothing of the other end.                                      *)
LEMMA ShutCalm ==
  ASSUME NEW h \in Half, NEW x, IsHalf(x)
  PROVE  /\ Calm(h, x, ShutEnd(x, h)) /\ IsHalf(ShutEnd(x, h)) /\ ShutEnd(x, h).pc = x.pc
         /\ ShutEnd(x, h).inop = x.inop /\ ShutEnd(x, h).apc = x.apc
         /\ Firm(h, x, UnlockedShutdown(x)) /\ (terminated[h] => Calm(h, x, UnlockedShutdown(x)))
<1>1. PICK S, y : S = x.shut \cup {h} /\ y = [x EXCEPT !.shut = S]
  OBVIOUS
<1>2. /\ IsHalf(y) /\ y.inop = x.inop /\ y.sentEnd = x.sentEnd /\ y.apc = x.apc
      /\ y.shut = S /\ y.pc = x.pc /\ y.data = x.data /\ y.dead = x.dead
      /\ y.eof = x.eof /\ y.term = x.term /\ y.args = x.args
  BY <1>1 DEF IsHalf, Fields
<1>3. Calm(h, x, y)
  <2>1. Firm(h, x, y)
    BY <1>1, <1>2 DEF Firm, Pointers, Half, Other, Holds
  <2> QED
    BY <1>1, <1>2, <2>1 DEF Calm
<1>4. ShutEnd(x, h) = Signal(y)
  BY <1>1 DEF ShutEnd
<1>5. Steady(y, Signal(y)) /\ Signal(y).pc = y.pc
  BY <1>2, SignalSteady DEF Signal, IsHalf, Fields
<1>6. PICK z : z = [x EXCEPT !.dead = TRUE]
  OBVIOUS
<1>7. /\ IsHalf(z) /\ z.inop = x.inop /\ z.sentEnd = x.sentEnd /\ z.apc = x.apc
      /\ z.shut = x.shut /\ z.pc = x.pc /\ z.data = x.data /\ z.eof = x.eof /\ z.term = x.term
      /\ z.args = x.args
  BY <1>6 DEF IsHalf, Fields
<1>8. Firm(h, x, z) /\ (terminated[h] => Calm(h, x, z))
  <2>1. Firm(h, x, z)
    BY <1>7 DEF Firm, Pointers, Holds
  <2> QED
    BY <1>7, <2>1 DEF Calm
<1>9. UnlockedShutdown(x) = Signal(z) /\ Steady(z, Signal(z))
  BY <1>6, <1>7, SignalSteady DEF UnlockedShutdown
<1>10. Firm(h, x, Signal(z)) /\ (terminated[h] => Calm(h, x, Signal(z)))
  BY <1>8, <1>9, SteadyFirm, FirmTwice, SteadyCalm, CalmTwice
<1>11. Calm(h, x, Signal(y))
  BY <1>3, <1>5, SteadyCalm, CalmTwice
<1> QED
  BY <1>2, <1>4, <1>5, <1>6, <1>9, <1>10, <1>11 DEF Steady

LEMMA ShutdownKeeps ==
  ASSUME NEW h \in Half, IsHalf(q[h]), Shutdown(h)
  PROVE  Keeps(h)
<1>1. PICK x : x = q[h] /\ x.pc \notin {"held", "growwait"} /\ IsHalf(x)
  BY DEF Shutdown
<1>2. PICK y : y = ShutEnd(x, h) /\ Calm(h, x, y) /\ IsHalf(y) /\ y.pc = x.pc
  BY <1>1, ShutCalm
<1>3. PICK z : z = [y EXCEPT !.pc = "done", !.want = 0, !.grown = FALSE]
  OBVIOUS
<1>4. Steady(y, z)
  BY <1>1, <1>2, <1>3, ZenonT(40) DEF Steady, IsHalf, Fields, Holds
<1>5. Calm(h, x, z)
  BY <1>2, <1>4, SteadyCalm, CalmTwice
<1>6. Set(h, z) /\ UNCHANGED <<chan, failed>>
  BY <1>1, <1>2, <1>3 DEF Shutdown, Local
<1> QED
  BY <1>1, <1>5, <1>6 DEF Keeps, Set

LEMMA FileKeeps ==
  ASSUME NEW h \in Half, IsHalf(q[h]), File(h)
  PROVE  Keeps(h)
<1>1. PICK x : x = q[h] /\ IsHalf(x)
  OBVIOUS
<1>2. PICK y : y = Signal(x) /\ Steady(x, y) /\ IsHalf(y)
  BY <1>1, SignalSteady DEF Steady
<1>3. Steady(y, [y EXCEPT !.fpc = "tick"]) /\ Steady(x, [x EXCEPT !.fpc = "done"])
  BY <1>1, <1>2, ZenonT(40) DEF Steady, IsHalf, Fields, Holds
<1>4. Steady(x, [y EXCEPT !.fpc = "tick"])
  BY <1>2, <1>3, SteadyTwice
<1>5. /\ Set(h, [y EXCEPT !.fpc = "tick"]) \/ Set(h, [x EXCEPT !.fpc = "done"])
      /\ UNCHANGED <<chan, failed>>
  BY <1>1, <1>2 DEF File, FilePoll, FileEnd, Local
<1> QED
  BY <1>1, <1>3, <1>4, <1>5, SetKeeps DEF Set

LEMMA ForcedShutdownKeeps ==
  ASSUME NEW h \in Half, IsHalf(q[h]), ForcedShutdown(h)
  PROVE  Keeps(h)
  BY ShutCalm DEF ForcedShutdown, Set, Local, Keeps

LEMMA GiveBackKeeps ==
  ASSUME NEW h \in Half, IsHalf(q[h]), NEW n, GiveBack(h, n)
  PROVE  Keeps(h)
<1>1. PICK x : x = q[h] /\ IsHalf(x) /\ x.pc = "held"
  BY DEF GiveBack
<1>2. PICK I, c : I = x.inop \ {h} /\ c = (IF h \in x.shut THEN "ending" ELSE "idle")
  OBVIOUS
<1>3. PICK y : y = [x EXCEPT !.inop = I, !.want = 0, !.grown = FALSE, !.pc = c]
  OBVIOUS
<1>4. PICK d : d = (IF h = "read" THEN SubSeq(x.data, n + 1, Len(x.data))
                    ELSE x.data \o [i \in 1 .. n |-> written + i])
  OBVIOUS
<1>5. PICK z : z = [y EXCEPT !.data = d]
  OBVIOUS
<1>6. /\ IsHalf(y) /\ y.inop = I /\ y.pc = c /\ y.apc = x.apc /\ y.shut = x.shut
      /\ y.sentEnd = x.sentEnd /\ y.data = x.data /\ y.dead = x.dead /\ y.eof = x.eof
      /\ y.term = x.term
  BY <1>1, <1>3, ZenonT(40) DEF IsHalf, Fields
<1>7. Calm(h, x, y)
  <2>1. Firm(h, x, y)
    BY <1>1, <1>2, <1>6 DEF Firm, Pointers, Half, Other, Holds
  <2> QED
    BY <1>6, <2>1 DEF Calm
<1>8. h \notin x.shut => Calm(h, y, z) /\ IsHalf(z)
  <2>1. /\ IsHalf(z) /\ z.inop = y.inop /\ z.pc = y.pc /\ z.apc = y.apc /\ z.shut = y.shut
        /\ z.sentEnd = y.sentEnd /\ z.dead = y.dead /\ z.eof = y.eof /\ z.term = y.term
        /\ z.args = y.args
    BY <1>5, <1>6 DEF IsHalf, Fields
  <2>2. Firm(h, y, z)
    BY <2>1 DEF Firm, Pointers, Holds
  <2> QED
    BY <1>6, <2>1, <2>2 DEF Calm
<1>9. h \notin x.shut => Calm(h, x, Signal(z))
  BY <1>7, <1>8, SignalSteady, SteadyCalm, CalmTwice
<1>10. (Set(h, y) \/ (h \notin x.shut /\ Set(h, Signal(z)))) /\ UNCHANGED <<chan, failed>>
  BY <1>1, <1>2, <1>3, <1>4, <1>5, <1>6 DEF GiveBack, Local
<1> QED
  BY <1>1, <1>7, <1>9, <1>10 DEF Keeps, Set

(* The action thread of h under way: the half is x by now, k packets have  *)
(* been read and the packets s have been sent.                             *)
Due(h, x, k, s) ==
  /\ Pointers(h, x) /\ Closing(h, x, chan[h] \o s)
  /\ Heard(h, x, q[Other(h)], chan[h] \o s)
  /\ Other(h) \in x.shut => q[Other(h)].sentEnd /\ k = Len(chan[Other(h)])

LEMMA DueFirm ==
  ASSUME NEW h \in Half, NEW x, NEW k, NEW s, Due(h, x, k, s), NEW y, Firm(h, x, y)
  PROVE  Due(h, y, k, s)
<1>1. PICK c : c = chan[h] \o s
  OBVIOUS
<1>2. Closing(h, y, c) /\ Heard(h, y, q[Other(h)], c)
  BY <1>1 DEF Due, Firm, Closing, Heard
<1> QED
  BY <1>1, <1>2 DEF Due, Firm

LEMMA ClosingAppend ==
  ASSUME NEW h \in Half, NEW c, Packets(h, c), NEW p, Packet(h, p), NEW x, Closing(h, x, c),
         ~x.sentEnd, NEW y, p.type \in Ends => p.type = EndOf(h) /\ y.sentEnd
  PROVE  Closing(h, y, Append(c, p))
<1>1. PICK n \in Nat : n = Len(c)
  BY DEF Packets
<1>2. PICK d : d = Append(c, p) /\ Len(d) = n + 1 /\ d[n + 1] = p /\ \A i \in 1 .. n : d[i] = c[i]
  <2>1. /\ Len(Append(c, p)) = n + 1 /\ Append(c, p)[n + 1] = p
        /\ \A i \in 1 .. n : Append(c, p)[i] = c[i]
    BY <1>1, SumAppend
  <2> QED
    BY <2>1
<1>3. \A i \in 1 .. n : c[i].type \notin Ends
  BY <1>1 DEF Closing
<1>4. Len(d) = n + 1 /\ d[n + 1] = p /\ \A i \in 1 .. n : d[i] = c[i]
  BY <1>2
<1>5. \A i \in 1 .. n + 1 : d[i].type \in Ends => i = n + 1
  BY <1>3, <1>4
<1>6. Closing(h, y, d)
  BY <1>4, <1>5 DEF Closing
<1> QED
  BY <1>2, <1>6

LEMMA ClosingTail ==
  ASSUME NEW h \in Half, NEW c, Packets(h, c), NEW x, Closing(h, x, c), NEW k, NEW d,
         IsTail(c, k, d)
  PROVE  Closing(h, x, d) /\ (k = Len(c) => d = <<>>)
<1>1. PICK n \in Nat : n = Len(c)
  BY DEF Packets
<1>2. k \in 0 .. n
  BY <1>1 DEF IsTail
<1>3. /\ Packets(h, d) /\ Len(d) = n - k /\ \A i \in 1 .. n - k : d[i] = c[k + i]
  BY <1>1, <1>2, SumParts DEF IsTail
<1>4. \A i \in 1 .. n - k : k + i \in 1 .. n /\ (k + i = n => i = n - k)
  BY <1>2
<1>5. \A i \in 1 .. n - k : d[i].type \in Ends => d[i].type = EndOf(h) /\ x.sentEnd /\ i = n - k
  BY <1>1, <1>3, <1>4 DEF Closing
<1>6. Closing(h, x, d)
  BY <1>3, <1>5 DEF Closing
<1>7. k = n => d = <<>>
  <2>1. k = n => Len(d) = 0
    BY <1>2, <1>3
  <2>2. Len(d) = 0 => d = [i \in 1 .. 0 |-> d[i]]
    BY <1>3 DEF Packets
  <2> QED
    BY <2>1, <2>2
<1> QED
  BY <1>1, <1>6, <1>7

LEMMA DueStart ==
  ASSUME IInv, NEW h \in Half
  PROVE  Due(h, q[h], 0, <<>>)
<1>1. chan[h] \o <<>> = chan[h]
  BY NoneYet DEF IInv, DInv
<1>2. PICK o : o = Other(h) /\ o \in Half /\ Other(o) = h
  BY DEF Other, Half
<1>3. Heard(o, q[o], q[h], chan[o])
  BY <1>2 DEF IInv
<1>4. Other(h) \in q[h].shut => q[Other(h)].sentEnd /\ 0 = Len(chan[Other(h)])
  BY <1>2, <1>3 DEF Heard
<1> QED
  BY <1>1, <1>4 DEF IInv, Due

LEMMA DueEnd ==
  ASSUME IInv, DInv', NEW h \in Half, NEW x, NEW k, NEW s, Due(h, x, k, s),
         k \in 0 .. Len(chan[Other(h)]), q' = [q EXCEPT ![h] = x],
         chan' = [chan EXCEPT ![h] = @ \o s, ![Other(h)] = SubSeq(@, k + 1, Len(@))],
         failed' \subseteq failed \cup {"call", "eof"}
  PROVE  IInv'
<1>1. PICK o : o = Other(h) /\ o \in Half /\ Other(o) = h /\ o # h /\ Half = {h, o}
  BY DEF Other, Half
<1>2. PICK c, d : c = chan[h] \o s /\ d = SubSeq(chan[o], k + 1, Len(chan[o]))
  OBVIOUS
<1>3. q'[h] = x /\ q'[o] = q[o] /\ chan'[h] = c /\ chan'[o] = d
  <2>1. q = [g \in Half |-> q[g]] /\ chan = [g \in Half |-> chan[g]]
    BY DEF IInv, DInv
  <2>2. chan' = [chan EXCEPT ![h] = c, ![o] = d]
    BY <1>1, <1>2
  <2> QED
    BY <1>1, <2>1, <2>2
<1>4. Pointers(h, x) /\ Closing(h, x, c) /\ Heard(h, x, q[o], c)
      /\ (o \in x.shut => q[o].sentEnd /\ k = Len(chan[o]))
  BY <1>1, <1>2 DEF Due
<1>5. Pointers(o, q[o]) /\ Closing(o, q[o], chan[o]) /\ Packets(o, chan[o])
  BY <1>1 DEF IInv, DInv
<1>6. IsTail(chan[o], k, d)
  BY <1>1, <1>2 DEF IsTail
<1>7. Closing(o, q[o], d) /\ (k = Len(chan[o]) => d = <<>>)
  BY <1>1, <1>5, <1>6, ClosingTail
<1>8. Heard(o, q[o], x, d)
  BY <1>4, <1>7 DEF Heard
<1>9. Pointers(h, q'[h]) /\ Closing(h, q'[h], chan'[h]) /\ Heard(h, q'[h], q'[o], chan'[h])
  BY <1>3, <1>4
<1>10. Pointers(o, q'[o]) /\ Closing(o, q'[o], chan'[o]) /\ Heard(o, q'[o], q'[h], chan'[o])
  BY <1>3, <1>5, <1>7, <1>8
<1>11. PacketsInOrder'
  BY DEF IInv, PacketsInOrder
<1> QED
  BY <1>1, <1>9, <1>10, <1>11 DEF IInv

LEMMA FirmStep ==
  ASSUME IInv, DInv', NEW h \in Half, NEW y, Firm(h, q[h], y), q' = [q EXCEPT ![h] = y],
         UNCHANGED chan, failed' \subseteq failed \cup {"call", "eof"}
  PROVE  IInv'
<1>3. PICK o : o = Other(h) /\ o \in Half /\ Other(o) = h /\ o # h /\ Half = {h, o}
  BY DEF Other, Half
<1>4. q'[h] = y /\ q'[o] = q[o] /\ chan'[h] = chan[h] /\ chan'[o] = chan[o]
  <2>1. q = [g \in Half |-> q[g]]
    BY DEF IInv, DInv
  <2> QED
    BY <1>3, <2>1
<1>5. /\ Pointers(h, q[h]) /\ Closing(h, q[h], chan[h]) /\ Heard(h, q[h], q[o], chan[h])
      /\ Pointers(o, q[o]) /\ Closing(o, q[o], chan[o]) /\ Heard(o, q[o], q[h], chan[o])
  BY <1>3 DEF IInv
<1>6. Pointers(h, y) /\ Closing(h, y, chan[h]) /\ Heard(h, y, q[o], chan[h])
      /\ Heard(o, q[o], y, chan[o])
  BY <1>3, <1>5 DEF Firm, Closing, Heard
<1>7. Pointers(h, q'[h]) /\ Closing(h, q'[h], chan'[h]) /\ Heard(h, q'[h], q'[o], chan'[h])
  BY <1>4, <1>6
<1>8. Pointers(o, q'[o]) /\ Closing(o, q'[o], chan'[o]) /\ Heard(o, q'[o], q'[h], chan'[o])
  BY <1>4, <1>5, <1>6
<1>9. PacketsInOrder'
  BY DEF IInv, PacketsInOrder
<1> QED
  BY <1>3, <1>7, <1>8, <1>9 DEF IInv

LEMMA KeepsStep ==
  ASSUME IInv, DInv', NEW h \in Half, Keeps(h)
  PROVE  IInv'
<1>1. PICK y : Firm(h, q[h], y) /\ q' = [q EXCEPT ![h] = y]
  BY DEF Keeps, Calm
<1>2. UNCHANGED chan /\ failed' \subseteq failed \cup {"call", "eof"}
  BY DEF Keeps
<1> QED
  BY <1>1, <1>2, FirmStep

(* A packet is sent: nothing has been sent after an end.                   *)
LEMMA DueSend ==
  ASSUME IInv, NEW h \in Half, NEW x, NEW k, NEW s, Packets(h, s), Due(h, x, k, s), ~x.sentEnd,
         NEW p, Packet(h, p), NEW y, Pointers(h, y), Other(h) \in y.shut <=> Other(h) \in x.shut,
         p.type \in Ends => p.type = EndOf(h) /\ y.sentEnd
  PROVE  Due(h, y, k, Append(s, p))
<1>1. AppendLast(h, chan[h], s, p)
  BY ConcatAppend DEF IInv, DInv
<1>2. PICK c, d : c = chan[h] \o s /\ d = chan[h] \o Append(s, p) /\ d = Append(c, p) /\ Packets(h, c)
  BY <1>1 DEF AppendLast
<1>3. Closing(h, x, c) /\ h \notin q[Other(h)].shut
  BY <1>2 DEF Due, Heard
<1>4. Closing(h, y, Append(c, p))
  BY <1>2, <1>3, ClosingAppend
<1>5. Closing(h, y, d) /\ Heard(h, y, q[Other(h)], d)
  BY <1>2, <1>3, <1>4 DEF Heard
<1> QED
  BY <1>2, <1>5 DEF Due

(* A packet is taken: none comes after an end.                             *)
LEMMA HandleFirm ==
  ASSUME NEW h \in Half, NEW x, IsHalf(x), x.apc # "send", x.apc # "recv", NEW p,
         p.type \in Types \ Ends, p.type = "enqueue" => h = "read"
  PROVE  /\ Firm(h, x, Handle(h, x, p)) /\ Mild(h, x, Handle(h, x, p))
         /\ p.type = "enqueue" => Handle(h, x, p).apc = "recv"
         /\ Handle(h, x, p).dead = x.dead
<1> DEFINE Right == Steady(x, Handle(h, x, p))
<1>1. PICK z : z = [x EXCEPT !.known = p.wait, !.seen = p.ack]
  OBVIOUS
<1>2. Steady(x, z) /\ IsHalf(z)
  BY <1>1 DEF Steady, IsHalf, Fields, Holds
<1>3. CASE p.type = "enqueue"
  <2>1. PICK u : u = (IF p.n > Free(z) \/ p.n > z.max THEN GrowBuffer(z, Len(z.data) + p.n, p.n) ELSE z)
                 /\ Steady(z, u) /\ IsHalf(u)
    BY <1>2, ResizeSteady DEF Steady
  <2>2. PICK I, w : I = u.inop \cup {"write"} /\ w = p.data
    OBVIOUS
  <2>3. PICK y : y = [u EXCEPT !.inop = I, !.win = w, !.apc = "recv"]
    OBVIOUS
  <2>4. /\ y.inop = I /\ y.pc = u.pc /\ y.apc = "recv" /\ y.sentEnd = u.sentEnd
        /\ y.shut = u.shut /\ y.data = u.data /\ y.eof = u.eof /\ y.term = u.term
        /\ y.dead = u.dead /\ y.args = u.args
    BY <2>1, <2>3 DEF IsHalf, Fields
  <2>5. Handle(h, x, p) = y
    BY <1>1, <1>3, <2>1, <2>2, <2>3 DEF Handle, EnqueuePacket
  <2>6. Steady(x, u)
    BY <1>2, <2>1, SteadyTwice
  <2>7. Firm(h, x, y)
    BY <1>3, <2>2, <2>4, <2>6 DEF Firm, Pointers, Steady, Other, Holds
  <2>8. Mild(h, x, y) /\ y.dead = x.dead
    BY <2>4, <2>6 DEF Mild, Steady
  <2> QED
    BY <2>4, <2>5, <2>7, <2>8
<1>4. ASSUME p.type = "dequeue" PROVE Right
  <2>1. PICK r, b : r = [z.req EXCEPT !["read"] = 0] /\ b = z.bytes - p.n
    OBVIOUS
  <2>2. Steady(z, [z EXCEPT !.req = r, !.bytes = b])
    BY <1>2 DEF Steady, IsHalf, Fields, Holds
  <2>3. Handle(h, x, p) = [z EXCEPT !.req = r, !.bytes = b]
    BY <1>1, <1>4, <2>1 DEF Handle, DequeuePacket
  <2> QED
    BY <1>2, <2>2, <2>3, SteadyTwice
<1>5. ASSUME p.type = "readblock" PROVE Right
  <2>1. PICK r, P : /\ r = [z.req EXCEPT !["read"] = p.n]
                    /\ P = (IF p.n > Len(z.data) + z.bytes /\ UseD4R THEN z.pending \cup {"tag"}
                            ELSE z.pending)
    OBVIOUS
  <2>2. Steady(z, [z EXCEPT !.req = r, !.pending = P])
    BY <1>2 DEF Steady, IsHalf, Fields, Holds
  <2>3. Handle(h, x, p) = [z EXCEPT !.req = r, !.pending = P]
    BY <1>1, <1>5, <2>1 DEF Handle, ReadBlockPacket
  <2> QED
    BY <1>2, <2>2, <2>3, SteadyTwice
<1>6. ASSUME p.type = "writeblock" PROVE Right
  <2>1. PICK r, P : /\ r = [z.req EXCEPT !["write"] = p.n]
                    /\ P = (IF p.n + Len(z.data) > z.rlen /\ UseD4R THEN z.pending \cup {"tag"}
                            ELSE z.pending)
    OBVIOUS
  <2>2. Steady(z, [z EXCEPT !.req = r, !.pending = P])
    BY <1>2 DEF Steady, IsHalf, Fields, Holds
  <2>3. Handle(h, x, p) = [z EXCEPT !.req = r, !.pending = P]
    BY <1>1, <1>6, <2>1 DEF Handle, WriteBlockPacket
  <2> QED
    BY <1>2, <2>2, <2>3, SteadyTwice
<1>7. ASSUME p.type = "grow" PROVE Right
  <2>1. Handle(h, x, p) = Resize(h, z, p.size, p.n)
    BY <1>1, <1>7 DEF Handle
  <2> QED
    BY <1>2, <2>1, ResizeSteady, SteadyTwice
<1>8. ASSUME p.type = "d4rtag" PROVE Right
  <2>1. PICK y : y = [z EXCEPT !.tagUpdated = TRUE, !.mock = p.n]
    BY SMTT(30)
  <2>2. Steady(z, y) /\ IsHalf(y)
    BY <1>2, <2>1 DEF Steady, IsHalf, Fields, Holds
  <2>3. Handle(h, x, p) = Signal(y)
    BY <1>1, <1>8, <2>1 DEF Handle, D4RTagPacket
  <2> QED
    BY <1>2, <2>2, <2>3, SignalSteady, SteadyTwice
<1>9. p.type # "enqueue" => Right
  BY <1>4, <1>5, <1>6, <1>7, <1>8 DEF Types, Ends
<1> HIDE DEF Right
<1>10. CASE p.type # "enqueue"
  <2>1. PICK y : y = Handle(h, x, p) /\ Steady(x, y)
    BY <1>9, <1>10 DEF Right
  <2>2. Firm(h, x, y) /\ Mild(h, x, y) /\ y.dead = x.dead
    BY <2>1, SteadyFirm, CalmMild DEF Steady
  <2> QED
    BY <1>10, <2>1, <2>2
<1> QED
  BY <1>3, <1>10

LEMMA HandleEnd ==
  ASSUME NEW h \in Half, NEW x, IsHalf(x), NEW p, NEW o \in Half, p.type = EndOf(o),
         NEW v, v = Handle(h, x, p)
  PROVE  /\ v.inop = x.inop /\ v.pc = x.pc /\ v.apc = x.apc /\ v.sentEnd = x.sentEnd
         /\ v.shut = x.shut \cup {o} /\ v.data = x.data /\ v.eof = x.eof /\ v.term = x.term
         /\ v.dead = x.dead /\ v.args = x.args
<1>1. PICK z : z = [x EXCEPT !.known = p.wait, !.seen = p.ack]
  OBVIOUS
<1>2. PICK S, P : S = x.shut \cup {o} /\ P = x.pending \cup {"action"}
  OBVIOUS
<1>3. PICK y : y = [z EXCEPT !.shut = S, !.pending = P, !.asleep = FALSE]
  OBVIOUS
<1>4. /\ y.inop = x.inop /\ y.pc = x.pc /\ y.apc = x.apc /\ y.sentEnd = x.sentEnd
      /\ y.shut = S /\ y.data = x.data /\ y.eof = x.eof /\ y.term = x.term /\ y.dead = x.dead
      /\ y.args = x.args
  BY <1>1, <1>3 DEF IsHalf, Fields
<1>5. Handle(h, x, p) = ShutEnd(z, o)
  <2>1. CASE o = "read"
    BY <1>1, <2>1 DEF Handle, EndOf
  <2>2. CASE o = "write"
    BY <1>1, <2>2 DEF Handle, EndOf
  <2> QED
    BY <2>1, <2>2 DEF Half
<1>6. ShutEnd(z, o) = y
  <2>1. z.shut = x.shut /\ z.pending = x.pending
    BY <1>1 DEF IsHalf, Fields
  <2> QED
    BY <1>1, <1>2, <1>3, <2>1 DEF ShutEnd, Signal, IsHalf, Fields
<1> QED
  BY <1>2, <1>4, <1>5, <1>6

LEMMA HandleDue ==
  ASSUME IInv, NEW h \in Half, NEW x, NEW k, NEW s, Mid(h, x, k, s), Due(h, x, k, s),
         x.apc # "send", x.apc # "recv", NEW p, Taken(h, k, p), NEW y, y = Handle(h, x, p)
  PROVE  Due(h, y, k + 1, s) /\ HandlerAsserts(h, x, p) = {} /\ GrowAsserts(x, y, "action") = {}
<1>1. PICK o, c : o = Other(h) /\ o \in Half /\ c = chan[o]
  BY DEF Other, Half
<1>2. /\ Packet(o, p) /\ Packets(o, c) /\ k \in Nat /\ k < Len(c) /\ Len(c) \in Nat /\ p = c[k + 1]
      /\ Closing(o, q[o], c)
  BY <1>1, TakenIs DEF IInv, Taken, Packets
<1>3. k # Len(c) /\ k + 1 \in 1 .. Len(c)
  BY <1>2
<1>4. o \notin x.shut
  BY <1>1, <1>3 DEF Due
<1>5. HandlerAsserts(h, x, p) = {}
  BY <1>1, <1>4 DEF HandlerAsserts
<1>6. GrowAsserts(x, y, "action") = {}
  BY GrowFree DEF Due
<1>7. Due(h, x, k + 1, s)
  BY <1>1, <1>4 DEF Due
<1>8. IsHalf(x)
  BY DEF Mid, Good
<1>9. CASE p.type \notin Ends
  <2>1. p.type \in Types \ Ends /\ (p.type = "enqueue" => h = "read")
    BY <1>1, <1>2, <1>9 DEF Packet, Other
  <2>2. Firm(h, x, y)
    BY <1>8, <2>1, HandleFirm
  <2> QED
    BY <1>5, <1>6, <1>7, <2>2, DueFirm
<1>10. CASE p.type \in Ends
  <2>1. p.type = EndOf(o) /\ q[o].sentEnd /\ k + 1 = Len(c)
    BY <1>2, <1>3, <1>10 DEF Closing
  <2>2. /\ y.inop = x.inop /\ y.pc = x.pc /\ y.apc = x.apc /\ y.sentEnd = x.sentEnd
        /\ y.args = x.args
    <3>1. p.type = EndOf(o) /\ o \in Half
      BY <1>1, <2>1
    <3> QED
      BY <1>8, <3>1, HandleEnd
  <2>3. PICK d : d = chan[h] \o s
    OBVIOUS
  <2>4. Pointers(h, y) /\ Closing(h, y, d) /\ Heard(h, y, q[Other(h)], d)
    BY <1>7, <2>2, <2>3 DEF Due, Pointers, Closing, Heard, Holds
  <2>5. Due(h, y, k + 1, s)
    BY <1>1, <2>1, <2>3, <2>4 DEF Due
  <2> QED
    BY <1>5, <1>6, <2>5
<1> QED
  BY <1>9, <1>10

---------------------------------------------------------------------------
(* Read(): the packets one after the other, up to one with data.           *)
IsStep(m) == m = [f \in {"x", "sent", "close", "fails"} |-> m[f]]

LEMMA ReceiveStep ==
  ASSUME IInv, NEW h \in Half, NEW m, IsStep(m), NEW k, Mid(h, m.x, k, m.sent),
         Due(h, m.x, k, m.sent), m.fails = {}, m.x.apc # "send", m.x.apc # "recv",
         NEW p, Taken(h, k, p), NEW n, n = Receive(h, m, p)
  PROVE  /\ IsStep(n) /\ n.x = Handle(h, m.x, p) /\ n.sent = m.sent /\ n.close = m.close
         /\ Mid(h, n.x, k + 1, n.sent) /\ Due(h, n.x, k + 1, n.sent) /\ n.fails = {}
         /\ n.x.apc # "send" /\ (p.type # "enqueue" => n.x.apc # "recv")
<1>1. PICK y : y = Handle(h, m.x, p)
  OBVIOUS
<1>2. Due(h, y, k + 1, m.sent) /\ HandlerAsserts(h, m.x, p) = {} /\ GrowAsserts(m.x, y, "action") = {}
  BY <1>1, HandleDue
<1>3. n = [m EXCEPT !.x = y, !.fails = {}]
  <2>1. PICK F : F = m.fails \cup HandlerAsserts(h, m.x, p) \cup GrowAsserts(m.x, y, "action") /\ F = {}
    BY <1>2
  <2> QED
    BY <1>1, <2>1 DEF Receive
<1>4. IsStep(n) /\ n.x = y /\ n.sent = m.sent /\ n.close = m.close /\ n.fails = {}
  BY <1>3 DEF IsStep
<1>5. Mid(h, y, k + 1, m.sent) /\ y.apc # "send" /\ (p.type # "enqueue" => y.apc # "recv")
  BY <1>1, HandleStep DEF IInv
<1> QED
  BY <1>1, <1>2, <1>4, <1>5

LEMMA UptoIs ==
  ASSUME NEW h \in Half, NEW s, Packets(h, s)
  PROVE  /\ Upto(s) \in 0 .. Len(s)
         /\ \A i \in 1 .. Len(s) : i < Upto(s) => s[i].type # "enqueue"
         /\ Upto(s) = Len(s) \/ (Upto(s) \in 1 .. Len(s) /\ s[Upto(s)].type = "enqueue")
<1>1. PICK n \in Nat : n = Len(s)
  BY DEF Packets
<1>2. PICK E : E = {i \in 1 .. n : s[i].type = "enqueue"}
  OBVIOUS
<1>3. Upto(s) = IF E = {} THEN n ELSE CHOOSE i \in E : \A j \in E : i <= j
  BY <1>1, <1>2 DEF Upto
<1>4. CASE E = {}
  <2>1. Upto(s) = n /\ \A i \in 1 .. n : s[i].type # "enqueue"
    BY <1>2, <1>3, <1>4
  <2> QED
    BY <1>1, <2>1
<1>5. CASE E # {}
  <2>1. E \subseteq Nat
    BY <1>2
  <2>2. PICK R : R = {ss \in Nat \X Nat : ss[1] < ss[2]} /\ IsWellFoundedOn(R, Nat)
    BY NatLessThanWellFounded DEF OpToRel
  <2>3. PICK x \in E : \A y \in E : ~(<<y, x>> \in R)
    BY <1>5, <2>1, <2>2, WFMin
  <2>4. \A y \in E : ~(y < x)
    BY <2>1, <2>2, <2>3
  <2>5. \A y \in E : x <= y
    BY <2>1, <2>3, <2>4
  <2>6. PICK u : u = Upto(s) /\ u \in E /\ \A j \in E : u <= j
    BY <1>3, <1>5, <2>5
  <2>7. /\ u \in 0 .. n /\ \A i \in 1 .. n : i < u => s[i].type # "enqueue"
        /\ u \in 1 .. n /\ s[u].type = "enqueue"
    BY <1>2, <2>1, <2>6
  <2> QED
    BY <1>1, <2>6, <2>7
<1> QED
  BY <1>4, <1>5

(* The half after k packets, with nothing but a packet of data in hand.    *)
Reached(h, m, k) ==
  /\ IsStep(m) /\ m.sent = <<>> /\ Mid(h, m.x, k, <<>>) /\ m.x.apc # "send"
  /\ Due(h, m.x, k, <<>>) /\ m.fails = {}

LEMMA StartedIs ==
  ASSUME NEW x
  PROVE  IsStep(Started(x)) /\ Started(x).x = x /\ Started(x).sent = <<>>
         /\ Started(x).fails = {}
  BY DEF IsStep, Started

LEMMA ReceivingIs ==
  ASSUME NEW h, NEW m, NEW s, NEW n \in Nat, Len(s) = n
  PROVE  /\ Receiving(h, m, s)[0] = m
         /\ \A i \in 1 .. n :
              Receiving(h, m, s)[i] = Receive(h, Receiving(h, m, s)[i - 1], s[i])
<1>1. Receiving(h, m, s) =
        [i \in 0 .. Len(s) |-> IF i = 0 THEN m
                               ELSE Receive(h, Receiving(h, m, s)[i - 1], s[i])]
  BY DEF Receiving
<1>2. Receiving(h, m, s)[0] = m
  BY <1>1
<1>3. ASSUME NEW i \in 1 .. n
      PROVE  Receiving(h, m, s)[i] = Receive(h, Receiving(h, m, s)[i - 1], s[i])
  <2>1. i \in 0 .. Len(s) /\ i # 0
    OBVIOUS
  <2> QED
    BY <1>1, <2>1
<1> QED
  BY <1>2, <1>3

Reads(h, x, n, m) ==
  /\ n = Upto(chan[Other(h)])
  /\ m = Received(h, Started(x), SubSeq(chan[Other(h)], 1, n))

(* f[i] is the half after i packets.                                       *)
Handled(h, f, n) ==
  \A i \in 1 .. n : /\ f[i] = Receive(h, f[i - 1], chan[Other(h)][i])
                     /\ Reached(h, f[i - 1], i - 1) /\ f[i - 1].x.apc # "recv"

LEMMA ReceivedIs ==
  ASSUME IInv, NEW h \in Half, NEW x, Mid(h, x, 0, <<>>), Due(h, x, 0, <<>>), x.apc # "send",
         x.apc # "recv", NEW n, NEW m, Reads(h, x, n, m)
  PROVE  Reached(h, m, n) /\ \E f : Handled(h, f, n) /\ f[0] = Started(x) /\ f[n] = m
<1>1. PICK c : c = chan[Other(h)] /\ Packets(Other(h), c) /\ Other(h) \in Half /\ Len(c) \in Nat
  BY DEF IInv, DInv, Packets, Half, Other
<1>2. n \in 0 .. Len(c) /\ n \in Nat /\ \A i \in 1 .. Len(c) : i < n => c[i].type # "enqueue"
  BY <1>1, UptoIs DEF Reads
<1>3. PICK s : s = SubSeq(c, 1, n) /\ Len(s) = n /\ \A i \in 1 .. n : s[i] = c[i]
  <2>1. /\ Len(SubSeq(c, 1, n)) = n
        /\ \A i \in 1 .. n : SubSeq(c, 1, n)[i] = c[i]
    BY <1>1, <1>2, SumParts
  <2> QED
    BY <2>1
<1>4. PICK f : f = Receiving(h, Started(x), s)
  OBVIOUS
<1>5. f[0] = Started(x) /\ \A i \in 1 .. n : f[i] = Receive(h, f[i - 1], c[i])
  <2>1. Len(s) = n /\ \A i \in 1 .. n : s[i] = c[i]
    BY <1>3
  <2>2. PICK y : y = Started(x)
    OBVIOUS
  <2>3. f[0] = y /\ \A i \in 1 .. n : f[i] = Receive(h, f[i - 1], s[i])
    BY <1>2, <1>4, <2>1, <2>2, ReceivingIs
  <2> QED
    BY <2>1, <2>2, <2>3
<1>6. m = f[n]
  BY <1>1, <1>3, <1>4 DEF Received, Reads
<1>7. PICK T : T = {i \in 0 .. n : Reached(h, f[i], i) /\ (i < n => f[i].x.apc # "recv")}
  OBVIOUS
<1>8. 0 \in T
  BY <1>2, <1>5, <1>7, StartedIs DEF Reached
<1>9. \A i \in 1 .. n : i - 1 \in T => i \in T
  <2> SUFFICES ASSUME NEW i \in 1 .. n, i - 1 \in T PROVE i \in T
    OBVIOUS
  <2>1. PICK j \in Nat : j = i - 1 /\ j + 1 = i /\ j < n /\ i \in 1 .. Len(c) /\ j < Len(c)
    BY <1>1, <1>2
  <2>2. Reached(h, f[j], j) /\ f[j].x.apc # "recv"
    BY <1>7, <2>1
  <2>3. PICK p : p = c[i] /\ Taken(h, j, p)
    BY <1>1, <2>1 DEF Taken
  <2>4. PICK u, v : u = f[j] /\ v = f[i] /\ v = Receive(h, u, p)
    BY <1>5, <2>1, <2>3
  <2>5. /\ IsStep(v) /\ v.sent = <<>> /\ Mid(h, v.x, j + 1, v.sent) /\ v.x.apc # "send"
        /\ Due(h, v.x, j + 1, v.sent) /\ v.fails = {}
        /\ p.type # "enqueue" => v.x.apc # "recv"
    <3>1. /\ IsStep(u) /\ u.sent = <<>> /\ Mid(h, u.x, j, u.sent) /\ u.x.apc # "send" /\ u.x.apc # "recv"
          /\ Due(h, u.x, j, u.sent) /\ u.fails = {}
      BY <2>2, <2>4 DEF Reached
    <3>2. /\ IsStep(v) /\ v.sent = u.sent /\ Mid(h, v.x, j + 1, v.sent) /\ v.x.apc # "send"
          /\ Due(h, v.x, j + 1, v.sent) /\ v.fails = {} /\ (p.type # "enqueue" => v.x.apc # "recv")
      BY <2>3, <2>4, <3>1, ReceiveStep, SMTT(30)
    <3> QED
      BY <3>1, <3>2
  <2>6. i < n => v.x.apc # "recv"
    BY <1>2, <2>1, <2>3, <2>5
  <2> QED
    <3>1. Mid(h, v.x, i, <<>>) /\ Due(h, v.x, i, <<>>) /\ i \in 0 .. n
      BY <2>1, <2>5
    <3>2. Reached(h, f[i], i) /\ (i < n => f[i].x.apc # "recv")
      BY <2>4, <2>5, <2>6, <3>1 DEF Reached
    <3> QED
      BY <1>7, <3>1, <3>2
<1>10. \A i \in 0 .. n : i \in T
  BY <1>2, <1>8, <1>9, Positions
<1>11. n \in T
  BY <1>2, <1>10
<1>12. \A i \in 1 .. n : i - 1 \in T /\ i - 1 < n
  BY <1>2, <1>10
<1>13. Handled(h, f, n)
  BY <1>1, <1>5, <1>7, <1>12 DEF Handled
<1> QED
  BY <1>5, <1>6, <1>7, <1>11, <1>13

---------------------------------------------------------------------------
(* The sends of InternalCheckStatus.  m is the half between two of them.   *)
Under(h, m, k) ==
  /\ IsStep(m) /\ Mid(h, m.x, k, m.sent) /\ m.x.apc # "send" /\ m.x.apc # "recv"
  /\ Due(h, m.x, k, m.sent) /\ m.fails = {}
Now(m, z, y) == IsStep(z) /\ z.x = y /\ z.sent = m.sent /\ z.fails = m.fails

LEMMA NowUnder ==
  ASSUME NEW h \in Half, NEW m, NEW k, Under(h, m, k), NEW y, Same(h, m.x, y),
         Firm(h, m.x, y), NEW z, Now(m, z, y)
  PROVE  Under(h, z, k) /\ Good(h, y)
<1>1. Mid(h, y, k, m.sent) /\ Due(h, y, k, m.sent)
  BY MidSame, DueFirm DEF Under
<1> QED
  BY <1>1 DEF Under, Now, Same

Sends(z, w, p) ==
  /\ IsStep(w) /\ w.x = z.x /\ w.sent = Append(z.sent, p) /\ w.fails = z.fails
  /\ w.close = z.close

LEMMA SendIs ==
  ASSUME NEW z, IsStep(z), NEW t, NEW n, NEW g, NEW d
  PROVE  \E p : /\ Sends(z, Send(z, t, n, g, d), p)
                /\ p.type = t /\ p.n = n /\ p.size = g /\ p.data = d
<1>1. PICK p : p = [type |-> t, n |-> n, size |-> g, data |-> d,
                    wait |-> z.x.waits, ack |-> z.x.known]
  OBVIOUS
<1>2. PICK s : s = Append(z.sent, p)
  OBVIOUS
<1>3. Send(z, t, n, g, d) = [z EXCEPT !.sent = s]
  BY <1>1, <1>2 DEF Send
<1>4. IsStep([z EXCEPT !.sent = s]) /\ [z EXCEPT !.sent = s].x = z.x
      /\ [z EXCEPT !.sent = s].sent = s /\ [z EXCEPT !.sent = s].fails = z.fails
      /\ [z EXCEPT !.sent = s].close = z.close
  BY DEF IsStep
<1>5. p.type = t /\ p.n = n /\ p.size = g /\ p.data = d
  BY <1>1
<1>6. Sends(z, Send(z, t, n, g, d), p)
  BY <1>2, <1>3, <1>4 DEF Sends
<1> QED
  BY <1>5, <1>6

LEMMA SendPlain ==
  ASSUME IInv, NEW h \in Half, NEW z, NEW k, Under(h, z, k), ~z.x.sentEnd,
         NEW t \in Types \ (Ends \cup {"enqueue", "dequeue"}), NEW n \in Int, NEW g \in Int
  PROVE  Under(h, Send(z, t, n, g, <<>>), k) /\ ~Send(z, t, n, g, <<>>).x.sentEnd
<1>1. PICK w, p : /\ w = Send(z, t, n, g, <<>>) /\ Sends(z, w, p)
                  /\ p.type = t /\ p.n = n /\ p.size = g /\ p.data = <<>>
  BY SendIs DEF Under
<1>2. Packet(h, p) /\ p.type \notin {"enqueue", "dequeue"}
  <2>1. Len(<<>>) = 0
    OBVIOUS
  <2> QED
    BY <1>1, <2>1 DEF Packet
<1>3. Mid(h, z.x, k, Append(z.sent, p))
  BY <1>2, MidPlain DEF Under, IInv
<1>4. Due(h, z.x, k, Append(z.sent, p))
  <2>1. PICK x, s : /\ x = z.x /\ s = z.sent /\ Packets(h, s) /\ Due(h, x, k, s) /\ ~x.sentEnd
                    /\ Pointers(h, x)
    BY DEF Under, Mid, Due
  <2>2. p.type \notin Ends
    BY <1>1
  <2>3. Due(h, x, k, Append(s, p))
    BY <1>2, <2>1, <2>2, DueSend
  <2> QED
    BY <2>1, <2>3
<1> QED
  BY <1>1, <1>3, <1>4 DEF Sends, Under

(* A change of what Good does not speak of.                                *)
LEMMA AsideSame ==
  ASSUME NEW h \in Half, NEW x, Good(h, x), NEW P, NEW b
  PROVE  /\ Same(h, x, [x EXCEPT !.pending = P]) /\ Same(h, x, [x EXCEPT !.eof = b])
         /\ Same(h, x, [x EXCEPT !.sentEnd = b]) /\ Same(h, x, [x EXCEPT !.dead = b])
         /\ Firm(h, x, [x EXCEPT !.pending = P]) /\ Firm(h, x, [x EXCEPT !.eof = b])
         /\ Firm(h, x, [x EXCEPT !.dead = b])
<1>1. /\ Elsewhere(x, [x EXCEPT !.pending = P]) /\ Elsewhere(x, [x EXCEPT !.eof = b])
      /\ Elsewhere(x, [x EXCEPT !.sentEnd = b]) /\ Elsewhere(x, [x EXCEPT !.dead = b])
  BY ZenonT(40) DEF Elsewhere, Good, IsHalf, Fields, Aside
<1>2. Steady(x, [x EXCEPT !.pending = P])
  BY DEF Steady, Good, IsHalf, Fields, Holds
<1>3. Firm(h, x, [x EXCEPT !.eof = b]) /\ Firm(h, x, [x EXCEPT !.dead = b])
  BY DEF Firm, Pointers, Good, IsHalf, Fields, Holds
<1> QED
  BY <1>1, <1>2, <1>3, ElsewhereSame, SteadyFirm, SMTT(30)

LEMMA SendGrowUnder ==
  ASSUME IInv, NEW h \in Half, NEW m, NEW k, Under(h, m, k)
  PROVE  Under(h, SendGrow(m), k) /\ SendGrow(m).x.sentEnd = m.x.sentEnd
<1>1. CASE ~("grow" \in m.x.pending /\ ~m.x.sentEnd)
  <2>1. SendGrow(m) = m
    BY <1>1 DEF SendGrow
  <2> QED
    BY <2>1
<1>2. CASE "grow" \in m.x.pending /\ ~m.x.sentEnd
  <2>1. PICK P, y : P = m.x.pending \ {"grow"} /\ y = [m.x EXCEPT !.pending = P]
    OBVIOUS
  <2>2. PICK z : z = [m EXCEPT !.x = y] /\ z = [m EXCEPT !.x.pending = @ \ {"grow"}]
    BY <2>1 DEF Under, IsStep
  <2>3. Same(h, m.x, y) /\ Firm(h, m.x, y) /\ Now(m, z, y)
    BY <2>1, <2>2, AsideSame DEF Under, Mid, IsStep, Now
  <2>4. Under(h, z, k) /\ ~z.x.sentEnd
    BY <1>2, <2>3, NowUnder DEF Now, Firm
  <2>5. PICK n \in Int, g \in Int : n = m.x.max /\ g = m.x.rlen + m.x.wlen
    <3>1. m.x.max \in Int /\ m.x.rlen \in Int /\ m.x.wlen \in Int
      BY SMTT(30) DEF Under, Mid, Good, Sizes
    <3> QED
      BY <3>1
  <2>6. SendGrow(m) = Send(z, "grow", n, g, <<>>)
    BY <1>2, <2>2, <2>5 DEF SendGrow
  <2>7. "grow" \in Types \ (Ends \cup {"enqueue", "dequeue"})
    BY DEF Types, Ends
  <2>8. Under(h, Send(z, "grow", n, g, <<>>), k) /\ Send(z, "grow", n, g, <<>>).x = z.x
    BY <2>4, <2>7, SendPlain DEF Send, Under, IsStep
  <2> QED
    BY <2>3, <2>6, <2>8 DEF Now, Firm
<1> QED
  BY <1>1, <1>2

LEMMA SendCount ==
  ASSUME NEW z, IsStep(z), NEW n
  PROVE  \E p : /\ Sends(z, Send(z, "dequeue", n, 0, <<>>), p)
                /\ p.type = "dequeue" /\ p.n = n /\ p.size = 0 /\ p.data = <<>>
  BY SendIs

LEMMA SendDequeueUnder ==
  ASSUME IInv, NEW m, NEW k, Under("read", m, k), ~m.x.sentEnd
  PROVE  Under("read", SendDequeue(m), k) /\ ~SendDequeue(m).x.sentEnd
<1> PICK x : x = m.x
  OBVIOUS
<1>1. PICK n \in Int : x = m.x /\ n = x.bytes - Len(x.data)
  <2>1. m.x.bytes \in Int /\ Len(m.x.data) \in Int
    BY DEF Under, Mid, Good, Sizes
  <2> QED
    BY <2>1
<1>2. CASE ~(n > 0)
  <2>1. SendDequeue(m) = m
    BY <1>1, <1>2 DEF SendDequeue
  <2> QED
    BY <2>1
<1>3. CASE n > 0
  <2>1. PICK y : y = [x EXCEPT !.bytes = @ - n]
    OBVIOUS
  <2>2. PICK z : z = [m EXCEPT !.x = y] /\ z = [m EXCEPT !.x.bytes = @ - n]
    BY <1>1, <2>1 DEF Under, IsStep
  <2>3. IsStep(z) /\ z.x = y /\ z.sent = m.sent /\ z.fails = {}
    BY <2>2 DEF Under, IsStep
  <2>4. PICK w, p : /\ w = Send(z, "dequeue", n, 0, <<>>) /\ Sends(z, w, p)
                    /\ p.type = "dequeue" /\ p.n = n /\ p.size = 0 /\ p.data = <<>>
    <3>1. \E p : /\ Sends(z, Send(z, "dequeue", n, 0, <<>>), p)
                 /\ p.type = "dequeue" /\ p.n = n /\ p.size = 0 /\ p.data = <<>>
      <4>1. IsStep(z)
        BY <2>3
      <4> QED
        BY <4>1, SendCount
    <3> QED
      BY <3>1
  <2>5. SendDequeue(m) = w
    BY <1>1, <1>3, <2>2, <2>4 DEF SendDequeue
  <2>6. Packet("read", p)
    <3>1. Len(<<>>) = 0
      OBVIOUS
    <3> QED
      BY <1>3, <2>4, <3>1 DEF Packet, Types
  <2>7. Mid("read", x, k, m.sent) /\ x.apc # "send" /\ x.apc # "recv"
    BY <1>1 DEF Under
  <2>8. Mid("read", y, k, Append(m.sent, p))
    <3>1. DInv
      BY DEF IInv
    <3> QED
      BY <1>1, <1>3, <2>1, <2>4, <2>6, <2>7, <3>1, MidDequeued
  <2>9. y.apc = x.apc /\ y.sentEnd = x.sentEnd /\ Firm("read", x, y)
    <3>1. Steady(x, y)
      BY <2>1, <2>7 DEF Mid, Good, IsHalf, Fields, Steady, Holds
    <3> QED
      BY <3>1, SteadyFirm DEF Steady
  <2>10. Due("read", y, k, Append(m.sent, p))
    <3>1. /\ Packets("read", m.sent) /\ Due("read", y, k, m.sent) /\ ~y.sentEnd /\ Pointers("read", y)
      BY <1>1, <2>9, DueFirm DEF Under, Mid, Half, Due
    <3>2. p.type \notin Ends
      BY <2>4 DEF Ends
    <3> QED
      BY <2>6, <3>1, <3>2, DueSend DEF Half
  <2> QED
    BY <1>1, <2>3, <2>4, <2>5, <2>7, <2>8, <2>9, <2>10 DEF Sends, Under
<1> QED
  BY <1>2, <1>3

LEMMA SendBlockUnder ==
  ASSUME IInv, NEW h \in Half, NEW m, NEW k, Under(h, m, k), ~m.x.sentEnd
  PROVE  Under(h, SendBlock(h, m), k) /\ ~SendBlock(h, m).x.sentEnd
<1>1. PICK P, y : P = m.x.pending \ {"block"} /\ y = [m.x EXCEPT !.pending = P]
  OBVIOUS
<1>2. PICK z : z = [m EXCEPT !.x = y] /\ z = [m EXCEPT !.x.pending = @ \ {"block"}]
  BY <1>1 DEF Under, IsStep
<1>3. Same(h, m.x, y) /\ Firm(h, m.x, y) /\ Now(m, z, y)
  BY <1>1, <1>2, AsideSame DEF Under, Mid, IsStep, Now
<1>4. Under(h, z, k) /\ ~z.x.sentEnd
  BY <1>3, NowUnder DEF Now, Firm
<1>5. PICK n \in Int : n = m.x.req[h]
  BY DEF Under, Mid, Good, Sizes, Half
<1>6. \/ SendBlock(h, m) = m
      \/ SendBlock(h, m) = z
      \/ SendBlock(h, m) = Send(z, "readblock", n, 0, <<>>)
      \/ SendBlock(h, m) = Send(z, "writeblock", n, 0, <<>>)
  BY <1>2, <1>5 DEF SendBlock
<1>7. \A t \in {"readblock", "writeblock"} :
        Under(h, Send(z, t, n, 0, <<>>), k) /\ ~Send(z, t, n, 0, <<>>).x.sentEnd
  <2>1. {"readblock", "writeblock"} \subseteq Types \ (Ends \cup {"enqueue", "dequeue"})
    BY DEF Types, Ends
  <2> QED
    BY <1>4, <2>1, SendPlain
<1> QED
  BY <1>4, <1>6, <1>7

LEMMA SendTagUnder ==
  ASSUME IInv, NEW h \in Half, NEW m, NEW k, Under(h, m, k), ~m.x.sentEnd
  PROVE  Under(h, SendTag(h, m), k) /\ ~SendTag(h, m).x.sentEnd
<1>1. PICK P, y : P = m.x.pending \ {"tag"} /\ y = [m.x EXCEPT !.pending = P]
  OBVIOUS
<1>2. PICK z : z = [m EXCEPT !.x = y] /\ z = [m EXCEPT !.x.pending = @ \ {"tag"}]
  BY <1>1 DEF Under, IsStep
<1>3. Same(h, m.x, y) /\ Firm(h, m.x, y) /\ Now(m, z, y)
  BY <1>1, <1>2, AsideSame DEF Under, Mid, IsStep, Now
<1>4. Under(h, z, k) /\ ~z.x.sentEnd
  BY <1>3, NowUnder DEF Now, Firm
<1>5. PICK n \in Int : n = m.x.tag
  BY DEF Under, Mid, Good, Sizes
<1>6. SendTag(h, m) = m \/ SendTag(h, m) = Send(z, "d4rtag", n, 0, <<>>)
  BY <1>2, <1>5 DEF SendTag
<1>7. Under(h, Send(z, "d4rtag", n, 0, <<>>), k) /\ ~Send(z, "d4rtag", n, 0, <<>>).x.sentEnd
  <2>1. "d4rtag" \in Types \ (Ends \cup {"enqueue", "dequeue"})
    BY DEF Types, Ends
  <2> QED
    BY <1>4, <2>1, SendPlain
<1> QED
  BY <1>6, <1>7

LEMMA SendEndUnder ==
  ASSUME IInv, NEW h \in Half, NEW m, NEW k, Under(h, m, k)
  PROVE  Under(h, SendEnd(h, m), k)
<1>1. CASE m.x.sentEnd
  <2>1. SendEnd(h, m) = m
    BY <1>1 DEF SendEnd
  <2> QED
    BY <2>1
<1>2. CASE ~m.x.sentEnd
  <2>1. PICK x, s : x = m.x /\ s = m.sent
    OBVIOUS
  <2>2. PICK y : y = [x EXCEPT !.sentEnd = TRUE]
    OBVIOUS
  <2>3. PICK z : z = [m EXCEPT !.x = y] /\ z = [m EXCEPT !.x.sentEnd = TRUE]
    BY <2>1, <2>2 DEF Under, IsStep
  <2>4. Mid(h, x, k, s) /\ Due(h, x, k, s) /\ Packets(h, s) /\ Good(h, x)
        /\ x.apc # "send" /\ x.apc # "recv" /\ ~x.sentEnd
    BY <1>2, <2>1 DEF Under, Mid
  <2>5. Same(h, x, y)
    BY <2>2, <2>4, AsideSame
  <2>6. IsStep(z) /\ z.x = y /\ z.sent = s /\ z.fails = {}
    BY <2>1, <2>3 DEF Under, IsStep
  <2>7. /\ y.sentEnd /\ y.apc = x.apc /\ y.inop = x.inop /\ y.pc = x.pc /\ y.shut = x.shut
        /\ y.args = x.args
    BY <2>2, <2>4 DEF Good, IsHalf, Fields
  <2>8. PICK w, p : /\ w = Send(z, EndOf(h), 0, 0, <<>>) /\ Sends(z, w, p)
                    /\ p.type = EndOf(h) /\ p.n = 0 /\ p.size = 0 /\ p.data = <<>>
    BY <2>6, SendIs
  <2>9. SendEnd(h, m) = w
    BY <1>2, <2>3, <2>8 DEF SendEnd, EndOf
  <2>10. Packet(h, p) /\ p.type \notin {"enqueue", "dequeue"}
    <3>1. Len(<<>>) = 0
      OBVIOUS
    <3> QED
      BY <2>8, <3>1 DEF Packet, Types, EndOf
  <2>11. Mid(h, y, k, Append(s, p))
    <3>1. Mid(h, y, k, s) /\ DInv
      BY <2>4, <2>5, MidSame DEF IInv
    <3> QED
      BY <2>10, <3>1, MidPlain
  <2>12. Due(h, y, k, Append(s, p))
    <3>1. Pointers(h, y) /\ (Other(h) \in y.shut <=> Other(h) \in x.shut)
          /\ p.type = EndOf(h) /\ y.sentEnd
      BY <2>4, <2>7, <2>8 DEF Due, Pointers, Holds
    <3> QED
      BY <2>4, <2>10, <3>1, DueSend
  <2> QED
    BY <2>4, <2>6, <2>7, <2>8, <2>9, <2>11, <2>12 DEF Sends, Under
<1> QED
  BY <1>1, <1>2

LEMMA EndOutUnder ==
  ASSUME IInv, NEW h \in Half, NEW m, NEW k, Under(h, m, k)
  PROVE  Under(h, EndOut(h, m), k)
  BY SendEndUnder DEF EndOut

LEMMA EndBackUnder ==
  ASSUME IInv, NEW h \in Half, NEW m, NEW k, Under(h, m, k)
  PROVE  Under(h, EndBack(h, m), k)
<1>1. PICK g : g = SendEnd(h, m) /\ Under(h, g, k)
  BY SendEndUnder
<1>2. PICK y : y = [g.x EXCEPT !.dead = TRUE]
  OBVIOUS
<1>3. PICK z : z = [g EXCEPT !.x = y, !.close = TRUE]
               /\ z = [g EXCEPT !.x.dead = TRUE, !.close = TRUE]
  BY <1>1, <1>2 DEF Under, IsStep
<1>4. Same(h, g.x, y) /\ Firm(h, g.x, y) /\ Now(g, z, y)
  BY <1>1, <1>2, <1>3, AsideSame DEF Under, Mid, IsStep, Now
<1>5. Under(h, z, k)
  BY <1>1, <1>4, NowUnder
<1>6. EndBack(h, m) = m \/ EndBack(h, m) = z
  BY <1>1, <1>3 DEF EndBack
<1> QED
  BY <1>5, <1>6

(* The action thread goes back to its wait, or ends.                       *)
LEMMA BackSame ==
  ASSUME NEW h \in Half, NEW x, Good(h, x), x.apc # "send", x.apc # "recv",
         NEW a \in {"wait", "done"}, NEW b, NEW f
  PROVE  LET y == [x EXCEPT !.apc = a, !.term = b, !.fpc = f]
         IN  Same(h, x, y) /\ Firm(h, x, y)
<1>1. PICK y : y = [x EXCEPT !.apc = a, !.term = b, !.fpc = f]
  OBVIOUS
<1>2. /\ IsHalf(y) /\ y.apc = a
      /\ \A g \in Fields \ {"apc", "term", "fpc"} : y[g] = x[g]
  BY <1>1 DEF Good, IsHalf, Fields
<1>3. /\ y.data = x.data /\ y.bytes = x.bytes /\ y.want = x.want /\ y.req = x.req
      /\ y.win = x.win /\ y.len = x.len /\ y.max = x.max /\ y.pc = x.pc
      /\ y.rlen = x.rlen /\ y.wlen = x.wlen /\ y.args = x.args /\ y.tag = x.tag
  BY <1>2 DEF Fields
<1>4. Sizes(y)
  BY <1>3 DEF Good, Sizes
<1>5. Fit(x, y)
  BY <1>2, <1>3, <1>4, SMTT(30) DEF Fit, Good, Sizes, Holds
<1>6. Firm(h, x, y)
  <2>1. y.inop = x.inop /\ y.sentEnd = x.sentEnd /\ y.shut = x.shut
    BY <1>2 DEF Fields
  <2> QED
    BY <1>2, <1>3, <2>1 DEF Firm, Pointers, Holds
<1> QED
  BY <1>1, <1>5, <1>6, FitIsSame

LEMMA TickedUnder ==
  ASSUME NEW h \in Half, NEW m, NEW k, Under(h, m, k)
  PROVE  Under(h, Ticked(m), k) /\ Same(h, m.x, Ticked(m).x)
<1>1. PICK a, f : /\ a = (IF m.x.dead THEN "done" ELSE "wait")
                  /\ f = (IF m.x.fpc = "tick" THEN "poll" ELSE m.x.fpc)
  OBVIOUS
<1>2. PICK y : y = [m.x EXCEPT !.apc = a, !.term = FALSE, !.fpc = f]
  OBVIOUS
<1>3. Same(h, m.x, y) /\ Firm(h, m.x, y)
  BY <1>1, <1>2, BackSame DEF Under, Mid
<1>4. Ticked(m) = [m EXCEPT !.x = y]
  BY <1>1, <1>2 DEF Ticked, Under, IsStep
<1>5. Now(m, Ticked(m), y)
  BY <1>4 DEF Now, Under, IsStep
<1> QED
  BY <1>3, <1>5, NowUnder DEF Now

LEMMA SendEnqueueMid ==
  ASSUME IInv, NEW m, NEW k, Under("write", m, k), MaySend(m.x)
  PROVE  /\ Mid("write", SendEnqueue(m).x, k, SendEnqueue(m).sent)
         /\ Due("write", SendEnqueue(m).x, k, SendEnqueue(m).sent) /\ SendEnqueue(m).fails = {}
<1>1. PICK x : x = m.x /\ Good("write", x) /\ IsHalf(x)
  BY DEF Under, Mid, Good
<1>2. PICK n \in Nat : n = Portion(x) /\ n <= Len(x.data)
  BY <1>1, PortionIs
<1>3. PICK d : d = SubSeq(x.data, 1, n) /\ OutOf(x, d, n)
  BY <1>2 DEF OutOf
<1>4. Len(d) \in Nat
  <2>1. PICK u \in Nat, z \in Int : u = Len(x.data) /\ n <= u /\ x.data = Run(z, u)
    <3>1. PICK u \in Nat : u = Len(x.data) /\ n <= u
      BY <1>1, <1>2 DEF Good, Sizes
    <3>2. Order(q["read"], x, chan["write"] \o m.sent, 0, out, written) /\ written \in Nat
      BY <1>1 DEF Under, Mid, DInv, IInv
    <3>3. x.data = Run(written - u, u) /\ written - u \in Int
      BY <3>1, <3>2 DEF Order
    <3> QED
      BY <3>1, <3>3
  <2>2. n \in 0 .. u
    BY <2>1
  <2>3. SubSeq(Run(z, u), 1, n) = Run(z, n)
    BY <2>2, RunParts
  <2>4. Len(Run(z, n)) = n
    BY RunIs
  <2> QED
    BY <1>3, <2>1, <2>3, <2>4
<1>5. PICK c : c = Len(d) /\ c \in Nat
  BY <1>4
<1>6. PICK y : y = [x EXCEPT !.inop = @ \cup {"read"}, !.win = d, !.apc = "send"]
  OBVIOUS
<1>7. PICK z : /\ z = [m EXCEPT !.x = y]
               /\ z = [m EXCEPT !.x.inop = @ \cup {"read"}, !.x.win = d, !.x.apc = "send"]
  BY <1>1, <1>6 DEF Under, IsStep
<1>8. IsStep(z) /\ z.x = y /\ z.sent = m.sent /\ z.fails = {}
  BY <1>7 DEF Under, IsStep
<1>9. PICK w, p : /\ w = Send(z, "enqueue", c, 0, d) /\ Sends(z, w, p)
                  /\ p.type = "enqueue" /\ p.n = c /\ p.size = 0 /\ p.data = d
  BY <1>8, SendIs
<1>10. SendEnqueue(m) = w
  BY <1>1, <1>2, <1>3, <1>5, <1>7, <1>9 DEF SendEnqueue
<1>11. Packet("write", p) /\ Packed(p, d)
  BY <1>5, <1>9 DEF Packet, Packed, Types
<1>12. Mid("write", x, k, m.sent) /\ x.apc # "send"
  BY <1>1 DEF Under
<1>13. Mid("write", y, k, Append(m.sent, p))
  <2>1. DInv
    BY DEF IInv
  <2> QED
    BY <1>3, <1>6, <1>11, <1>12, <2>1, MidEnqueued
<1>14. Due("write", y, k, Append(m.sent, p))
  <2>1. /\ Due("write", x, k, m.sent) /\ ~x.sentEnd /\ Packets("write", m.sent)
        /\ Pointers("write", x) /\ x.apc # "send" /\ x.apc # "recv"
    BY <1>1 DEF Under, Mid, Due, MaySend
  <2>2. PICK I : I = x.inop \cup {"read"}
    OBVIOUS
  <2>3. y.inop = I /\ y.apc = "send" /\ y.pc = x.pc /\ y.shut = x.shut /\ y.args = x.args
    BY <1>1, <1>6, <2>2 DEF IsHalf, Fields
  <2>4. Pointers("write", y)
    BY <2>1, <2>2, <2>3 DEF Pointers, Other, Holds
  <2>5. p.type \notin Ends /\ (Other("write") \in y.shut <=> Other("write") \in x.shut)
    BY <1>9, <2>3 DEF Ends
  <2>6. Packet("write", p) /\ "write" \in Half
    BY <1>11 DEF Half
  <2> QED
    BY <2>1, <2>4, <2>5, <2>6, DueSend
<1> QED
  BY <1>8, <1>9, <1>10, <1>13, <1>14 DEF Sends

---------------------------------------------------------------------------
(* The steps of the action thread.                                         *)
LEMMA ActStep ==
  ASSUME IInv, NEW h \in Half, NEW m, NEW k, Mid(h, m.x, k, m.sent), Due(h, m.x, k, m.sent),
         m.fails = {}, Act(h, m, k)
  PROVE  IInv'
<1>1. PICK x, s : x = m.x /\ s = m.sent
  OBVIOUS
<1>2. /\ q' = [q EXCEPT ![h] = x] /\ UNCHANGED <<written, out>> /\ failed' = failed
      /\ chan' = [chan EXCEPT ![h] = @ \o s, ![Other(h)] = SubSeq(@, k + 1, Len(@))]
  BY <1>1 DEF Act, Set, dvars
<1>3. Mid(h, x, k, s) /\ Due(h, x, k, s) /\ DInv /\ k \in 0 .. Len(chan[Other(h)])
  BY <1>1 DEF IInv, Mid
<1>4. DInv'
  BY <1>2, <1>3, MidEnd
<1> QED
  BY <1>2, <1>3, <1>4, DueEnd

LEMMA StatusStep ==
  ASSUME IInv, NEW h \in Half, NEW m, NEW k, Under(h, m, k), Status(h, m, k)
  PROVE  IInv'
<1>1. PICK a : a = (IF h = "read" /\ ~m.x.sentEnd THEN SendDequeue(m) ELSE m)
               /\ \E b \in {IF m.x.sentEnd THEN m ELSE SendBlock(h, a)} :
                  \E c \in {IF m.x.sentEnd THEN m ELSE SendTag(h, b)} :
                  \E d \in {EndOut(h, c)} :
                  \E e \in {EndBack(h, d)} : Act(h, Ticked(e), k)
  BY DEF Status
<1>2. PICK b : b = (IF m.x.sentEnd THEN m ELSE SendBlock(h, a))
               /\ \E c \in {IF m.x.sentEnd THEN m ELSE SendTag(h, b)} :
                  \E d \in {EndOut(h, c)} :
                  \E e \in {EndBack(h, d)} : Act(h, Ticked(e), k)
  BY <1>1
<1>3. PICK c, d, e : /\ c = (IF m.x.sentEnd THEN m ELSE SendTag(h, b))
                     /\ d = EndOut(h, c) /\ e = EndBack(h, d) /\ Act(h, Ticked(e), k)
  BY <1>2
<1>4. Under(h, a, k) /\ (~m.x.sentEnd => ~a.x.sentEnd)
  BY <1>1, SendDequeueUnder
<1>5. Under(h, b, k) /\ (~m.x.sentEnd => ~b.x.sentEnd)
  BY <1>2, <1>4, SendBlockUnder
<1>6. Under(h, c, k)
  BY <1>3, <1>5, SendTagUnder
<1>7. Under(h, d, k)
  BY <1>3, <1>6, EndOutUnder
<1>8. Under(h, e, k)
  BY <1>3, <1>7, EndBackUnder
<1>9. Under(h, Ticked(e), k)
  BY <1>8, TickedUnder
<1> QED
  BY <1>3, <1>9, ActStep DEF Under

LEMMA FlushStep ==
  ASSUME IInv, NEW m, NEW k, Under("write", m, k), Flush(m, k)
  PROVE  IInv'
<1>1. CASE MaySend(m.x) /\ Act("write", SendEnqueue(m), k)
  BY <1>1, SendEnqueueMid, ActStep DEF Half
<1>2. CASE Act("write", Ticked(m), k)
  <2>1. Under("write", Ticked(m), k)
    BY TickedUnder DEF Half
  <2> QED
    BY <1>2, <2>1, ActStep DEF Half, Under
<1>3. CASE Status("write", m, k)
  BY <1>3, StatusStep DEF Half
<1> QED
  BY <1>1, <1>2, <1>3 DEF Flush

LEMMA AnswerStep ==
  ASSUME IInv, NEW h \in Half, NEW m, NEW k, Under(h, m, k), Answer(h, m, k)
  PROVE  IInv'
<1>1. PICK z : z = [m EXCEPT !.x.eof = @ \/ sock[Other(h)] # "open"]
               /\ \E g \in {SendGrow(z)} :
                  \E t \in {IF m.x.term /\ ~m.x.sentEnd THEN [g EXCEPT !.x = ShutEnd(g.x, h)] ELSE g} :
                    \/ h = "read" /\ Status(h, t, k)
                    \/ h = "write" /\ Flush(t, k)
  BY DEF Answer
<1>2. PICK g, t : /\ g = SendGrow(z)
                  /\ t = (IF m.x.term /\ ~m.x.sentEnd THEN [g EXCEPT !.x = ShutEnd(g.x, h)] ELSE g)
                  /\ \/ h = "read" /\ Status(h, t, k)
                     \/ h = "write" /\ Flush(t, k)
  BY <1>1
<1>3. Under(h, z, k)
  <2>1. PICK b, y : b = (m.x.eof \/ sock[Other(h)] # "open") /\ y = [m.x EXCEPT !.eof = b]
    OBVIOUS
  <2>2. z = [m EXCEPT !.x = y]
    BY <1>1, <2>1 DEF Under, IsStep
  <2>3. Same(h, m.x, y) /\ Firm(h, m.x, y) /\ Now(m, z, y)
    BY <2>1, <2>2, AsideSame DEF Under, Mid, IsStep, Now
  <2> QED
    BY <2>3, NowUnder
<1>4. Under(h, g, k)
  BY <1>2, <1>3, SendGrowUnder
<1>5. Under(h, t, k)
  <2>1. PICK y, z2 : y = ShutEnd(g.x, h) /\ z2 = [g EXCEPT !.x = y]
    OBVIOUS
  <2>2. Same(h, g.x, y) /\ Firm(h, g.x, y)
    BY <1>4, <2>1, ShutSame, ShutCalm DEF Under, Mid, Good, Calm
  <2>3. Now(g, z2, y)
    BY <1>4, <2>1 DEF Under, IsStep, Now
  <2>4. Under(h, z2, k)
    BY <1>4, <2>2, <2>3, NowUnder
  <2> QED
    BY <1>2, <1>4, <2>1, <2>4
<1> QED
  BY <1>2, <1>5, StatusStep, FlushStep

LEMMA ReadStep ==
  ASSUME IInv, NEW h \in Half, NEW x, Mid(h, x, 0, <<>>), Due(h, x, 0, <<>>), x.apc # "send",
         x.apc # "recv", Read(h, x)
  PROVE  IInv'
<1>1. PICK n, m : /\ Reads(h, x, n, m)
                  /\ \/ m.x.apc = "recv" /\ Act(h, m, n)
                     \/ m.x.apc # "recv" /\ Answer(h, m, n)
  BY DEF Read, Reads
<1>2. Reached(h, m, n)
  BY <1>1, ReceivedIs
<1>3. IsStep(m) /\ Mid(h, m.x, n, m.sent) /\ Due(h, m.x, n, m.sent) /\ m.fails = {}
      /\ m.x.apc # "send"
  BY <1>2 DEF Reached
<1>4. CASE m.x.apc = "recv" /\ Act(h, m, n)
  BY <1>3, <1>4, ActStep
<1>5. CASE m.x.apc # "recv" /\ Answer(h, m, n)
  BY <1>3, <1>5, AnswerStep DEF Under
<1> QED
  BY <1>1, <1>4, <1>5

(* The action thread ends, or the half with it.                            *)
LEMMA EndsSame ==
  ASSUME NEW h \in Half, NEW x, Good(h, x), x.apc # "send", x.apc # "recv"
  PROVE  /\ Same(h, x, [x EXCEPT !.apc = "done"]) /\ Firm(h, x, [x EXCEPT !.apc = "done"])
         /\ Same(h, x, Ticked(Started(x)).x) /\ Firm(h, x, Ticked(Started(x)).x)
<1>1. PICK b, f : b = x.term /\ f = x.fpc
  OBVIOUS
<1>2. [x EXCEPT !.apc = "done"] = [x EXCEPT !.apc = "done", !.term = b, !.fpc = f]
  BY <1>1 DEF Good, IsHalf, Fields
<1>3. /\ Same(h, x, [x EXCEPT !.apc = "done", !.term = b, !.fpc = f])
      /\ Firm(h, x, [x EXCEPT !.apc = "done", !.term = b, !.fpc = f])
  BY BackSame
<1>4. PICK a, g : /\ a = (IF x.dead THEN "done" ELSE "wait")
                  /\ g = (IF x.fpc = "tick" THEN "poll" ELSE x.fpc)
  OBVIOUS
<1>5. Ticked(Started(x)).x = [x EXCEPT !.apc = a, !.term = FALSE, !.fpc = g]
  BY <1>4 DEF Ticked, Started
<1>6. /\ Same(h, x, [x EXCEPT !.apc = a, !.term = FALSE, !.fpc = g])
      /\ Firm(h, x, [x EXCEPT !.apc = a, !.term = FALSE, !.fpc = g])
  BY <1>4, BackSame
<1> QED
  BY <1>2, <1>3, <1>5, <1>6

LEMMA ActionWakeStep ==
  ASSUME IInv, NEW h \in Half, ActionWake(h)
  PROVE  IInv'
<1>1. PICK P, b : P = q[h].pending \ {"action"} /\ b = terminated[h]
  OBVIOUS
<1>2. PICK x : x = [q[h] EXCEPT !.pending = P, !.term = b]
  OBVIOUS
<1>3. Good(h, q[h]) /\ DInv
  BY DEF DInv, IInv
<1>4. Same(h, q[h], x) /\ Good(h, x) /\ Firm(h, q[h], x)
  <2>1. Elsewhere(q[h], x)
    BY <1>2, <1>3 DEF Elsewhere, Good, IsHalf, Fields, Aside
  <2>2. Firm(h, q[h], x)
    BY <1>2, <1>3 DEF Firm, Pointers, Good, IsHalf, Fields, Holds
  <2> QED
    BY <1>3, <2>1, <2>2, ElsewhereSame DEF Same
<1>5. /\ x.apc = "wait"
      /\ \/ /\ Set(h, [x EXCEPT !.apc = "done"]) /\ UNCHANGED <<chan, written, out>>
            /\ failed' \subseteq failed \cup {"call", "eof"}
         \/ Set(h, Ticked(Started(UnlockedShutdown(x))).x) /\ UNCHANGED <<chan, written, out, failed>>
         \/ Read(h, x)
  BY <1>1, <1>2 DEF ActionWake, Local, dvars
<1>6. ASSUME NEW y, Same(h, q[h], y), Firm(h, q[h], y), Set(h, y), UNCHANGED <<chan, written, out>>,
             failed' \subseteq failed \cup {"call", "eof"}
      PROVE  IInv'
  <2>1. Stays(h) /\ q' = [q EXCEPT ![h] = y]
    BY <1>6 DEF Stays, Set
  <2> QED
    BY <1>3, <1>6, <2>1, StaysStep, FirmStep
<1>7. CASE /\ Set(h, [x EXCEPT !.apc = "done"]) /\ UNCHANGED <<chan, written, out>>
           /\ failed' \subseteq failed \cup {"call", "eof"}
  <2>1. PICK y : y = [x EXCEPT !.apc = "done"]
    OBVIOUS
  <2>2. Same(h, q[h], y) /\ Firm(h, q[h], y)
    BY <1>4, <1>5, <2>1, EndsSame, SameTwice, FirmTwice
  <2> QED
    BY <1>6, <1>7, <2>1, <2>2
<1>8. CASE Set(h, Ticked(Started(UnlockedShutdown(x))).x) /\ UNCHANGED <<chan, written, out, failed>>
  <2>1. PICK y : /\ y = UnlockedShutdown(x) /\ Same(h, x, y) /\ Good(h, y) /\ y.apc = "wait"
                 /\ Firm(h, x, y)
    BY <1>4, <1>5, ShutSame, ShutCalm DEF Same, Kept, Good
  <2>2. Same(h, q[h], Ticked(Started(y)).x) /\ Firm(h, q[h], Ticked(Started(y)).x)
    BY <1>4, <2>1, EndsSame, SameTwice, FirmTwice
  <2> QED
    BY <1>6, <1>8, <2>1, <2>2
<1>9. CASE Read(h, x)
  <2>1. Mid(h, x, 0, <<>>) /\ Due(h, x, 0, <<>>)
    BY <1>3, <1>4, MidStart, MidSame, DueStart, DueFirm
  <2> QED
    BY <1>5, <1>9, <2>1, ReadStep
<1> QED
  BY <1>5, <1>7, <1>8, <1>9

(* The window closes: the action thread lets go of its pointer.            *)
LEMMA WindowFirm ==
  ASSUME NEW x, IsHalf(x)
  PROVE  /\ x.apc = "recv" => Firm("read", x, Longer(x)) /\ IsHalf(Longer(x))
         /\ x.apc = "send" => Firm("write", x, Shorter(x)) /\ IsHalf(Shorter(x))
<1>1. PICK I, J, b, d, e, r : /\ I = x.inop \ {"write"} /\ J = x.inop \ {"read"}
                              /\ b = x.bytes + Len(x.win) /\ d = x.data \o x.win
                              /\ e = SubSeq(x.data, Len(x.win) + 1, Len(x.data))
                              /\ r = [x.req EXCEPT !["write"] = 0]
  OBVIOUS
<1>2. PICK y, z : /\ y = [x EXCEPT !.inop = I, !.data = d, !.bytes = b, !.win = <<>>, !.req = r,
                                   !.apc = "read"]
                  /\ z = [x EXCEPT !.inop = J, !.win = <<>>, !.bytes = b, !.data = e,
                                   !.apc = "read"]
  OBVIOUS
<1>3. Longer(x) = y /\ Shorter(x) = z
  BY <1>1, <1>2 DEF Longer, Shorter
<1>4. /\ IsHalf(y) /\ y.inop = I /\ y.apc = "read" /\ y.pc = x.pc /\ y.shut = x.shut
      /\ y.sentEnd = x.sentEnd /\ y.args = x.args
      /\ IsHalf(z) /\ z.inop = J /\ z.apc = "read" /\ z.pc = x.pc /\ z.shut = x.shut
      /\ z.sentEnd = x.sentEnd /\ z.args = x.args
  <2>1. y = [x EXCEPT !.inop = I, !.data = d, !.bytes = b, !.win = <<>>, !.req = r, !.apc = "read"]
    BY <1>2
  <2>2. IsHalf(y)
    BY <2>1, Zenon DEF IsHalf
  <2>3. /\ y.inop = I /\ y.apc = "read" /\ y.pc = x.pc /\ y.shut = x.shut
        /\ y.sentEnd = x.sentEnd /\ y.args = x.args
    BY <2>1 DEF IsHalf, Fields
  <2>4. z = [x EXCEPT !.inop = J, !.win = <<>>, !.bytes = b, !.data = e, !.apc = "read"]
    BY <1>2
  <2>5. IsHalf(z)
    BY <2>4, Zenon DEF IsHalf
  <2>6. /\ z.inop = J /\ z.apc = "read" /\ z.pc = x.pc /\ z.shut = x.shut
        /\ z.sentEnd = x.sentEnd /\ z.args = x.args
    BY <2>4 DEF IsHalf, Fields
  <2> QED
    BY <2>2, <2>3, <2>5, <2>6
<1>5. x.apc = "recv" => Firm("read", x, y)
  BY <1>1, <1>4 DEF Firm, Pointers, Other, Holds
<1>6. x.apc = "send" => Firm("write", x, z)
  BY <1>1, <1>4 DEF Firm, Pointers, Other, Holds
<1> QED
  BY <1>3, <1>4, <1>5, <1>6

LEMMA ReadDataStep ==
  ASSUME IInv, NEW h \in Half, ReadData(h)
  PROVE  IInv'
<1>1. q[h].apc = "recv" /\ Read(h, Notify(h, Longer(q[h]), "read"))
  BY DEF ReadData, Longer
<1>2. h = "read" /\ DInv /\ IsHalf(q[h])
  BY <1>1 DEF DInv, IInv, Half, Good, WriteGood
<1>3. PICK y : y = Longer(q["read"]) /\ Mid("read", y, 0, <<>>) /\ y.apc = "read"
               /\ Firm("read", q["read"], y) /\ IsHalf(y)
  BY <1>1, <1>2, MidArrived, WindowFirm
<1>4. PICK z : z = Notify("read", y, "read") /\ Same("read", y, z) /\ Firm("read", y, z)
  BY <1>3, NotifySame, SignalSteady, SteadyFirm DEF Mid, Half
<1>5. Mid("read", z, 0, <<>>) /\ z.apc # "send" /\ z.apc # "recv"
  BY <1>3, <1>4, MidSame DEF Same, Half
<1>6. Due("read", z, 0, <<>>)
  BY <1>2, <1>3, <1>4, DueStart, DueFirm
<1> QED
  BY <1>1, <1>2, <1>3, <1>4, <1>5, <1>6, ReadStep

LEMMA SentDataStep ==
  ASSUME IInv, NEW h \in Half, SentData(h)
  PROVE  IInv'
<1>1. q[h].apc = "send" /\ Flush(Started(Notify(h, Shorter(q[h]), "write")), 0)
  BY DEF SentData, Shorter
<1>2. h = "write" /\ DInv /\ IsHalf(q[h])
  BY <1>1 DEF DInv, IInv, Half, Good, ReadGood
<1>3. PICK y : y = Shorter(q["write"]) /\ Mid("write", y, 0, <<>>) /\ y.apc = "read"
               /\ Firm("write", q["write"], y) /\ IsHalf(y)
  BY <1>1, <1>2, MidSent, WindowFirm
<1>4. PICK z : z = Notify("write", y, "write") /\ Same("write", y, z) /\ Firm("write", y, z)
  BY <1>3, NotifySame, SignalSteady, SteadyFirm DEF Mid, Half
<1>5. Mid("write", z, 0, <<>>) /\ z.apc # "send" /\ z.apc # "recv"
  BY <1>3, <1>4, MidSame DEF Same, Half
<1>6. Due("write", z, 0, <<>>)
  BY <1>2, <1>3, <1>4, DueStart, DueFirm
<1>7. Under("write", Started(z), 0)
  BY <1>5, <1>6, StartedIs DEF Under
<1> QED
  BY <1>1, <1>2, <1>3, <1>4, <1>7, FlushStep

LEMMA SocketErrorStep ==
  ASSUME IInv, NEW h \in Half, SocketError(h)
  PROVE  IInv'
<1>1. PICK x : x = q[h] /\ Good(h, x) /\ IsHalf(x) /\ x.apc = "wait"
  BY DEF SocketError, DInv, IInv, Good
<1>2. PICK y : y = (IF x.shut # {} THEN Signal(x) ELSE x) /\ Same(h, x, y) /\ Good(h, y)
               /\ y.apc = "wait" /\ Firm(h, x, y)
  <2>1. Firm(h, x, x) /\ Firm(h, x, Signal(x))
    BY <1>1, SignalSteady, SteadyFirm DEF Firm
  <2> QED
    BY <1>1, <2>1, SignalSame, SameSelf DEF Kept, Same
<1>3. PICK z : z = [y EXCEPT !.dead = TRUE] /\ Same(h, y, z) /\ Good(h, z) /\ Firm(h, y, z)
  <2>1. Same(h, y, [y EXCEPT !.dead = TRUE]) /\ Firm(h, y, [y EXCEPT !.dead = TRUE])
    BY <1>2, AsideSame
  <2> QED
    BY <2>1 DEF Same
<1>4. z.apc # "send" /\ z.apc # "recv"
  BY <1>2, <1>3 DEF Same
<1>5. PICK v : v = Ticked(Started(z)).x /\ Same(h, x, v) /\ Firm(h, x, v)
  <2>1. PICK v : v = Ticked(Started(z)).x /\ Same(h, z, v) /\ Firm(h, z, v)
    BY <1>3, <1>4, EndsSame
  <2>2. Same(h, x, y) /\ Same(h, y, z) /\ Firm(h, x, y) /\ Firm(h, y, z)
    BY <1>2, <1>3
  <2>3. Same(h, x, v) /\ Firm(h, x, v)
    BY <2>1, <2>2, SameTwice, FirmTwice
  <2> QED
    BY <2>1, <2>3
<1>6. Set(h, v) /\ UNCHANGED <<chan, written, out, failed>>
  BY <1>1, <1>2, <1>3, <1>5 DEF SocketError, dvars
<1>7. Stays(h) /\ Firm(h, q[h], v) /\ q' = [q EXCEPT ![h] = v] /\ DInv
  BY <1>1, <1>5, <1>6 DEF Stays, Set, IInv
<1> QED
  BY <1>6, <1>7, StaysStep, FirmStep

---------------------------------------------------------------------------
(* The invariant holds at the start and is kept by every step.             *)
LEMMA InitHalfGood ==
  ASSUME NEW h \in Half
  PROVE  Good(h, InitHalf(h)) /\ InitHalf(h).data = <<>> /\ InitHalf(h).win = <<>>
         /\ InitHalf(h).bytes = 0 /\ InitHalf(h).apc = "wait"
<1>1. PICK a \in Int, b \in Nat : a = InitLength /\ b = InitMaxThreshold
  BY LengthAssumption
<1> b \in Int
  OBVIOUS
<1>2. PICK r \in Int, w \in Int : r = QueueLength(a, b, "read") /\ w = QueueLength(a, b, "write")
  <2>1. "read" \in Half /\ "write" \in Half
    BY DEF Half
  <2>2. QueueLength(a, b, "read") \in Int /\ QueueLength(a, b, "write") \in Int
    BY <2>1, QueueLengthIs
  <2> QED
    BY <2>2
<1>3. PICK l \in Int : l = Larger(QueueLength(a, b, h), b) /\ l >= b
  <2>1. PICK c \in Int : c = QueueLength(a, b, h)
    BY QueueLengthIs
  <2>2. Larger(c, b) \in Int /\ Larger(c, b) >= b
    BY LargerIs
  <2> QED
    BY <2>1, <2>2
<1>4. PICK z : z = [d \in Half |-> 0]
  OBVIOUS
<1>5. PICK x : x = InitHalf(h)
  OBVIOUS
<1>6. /\ IsHalf(x) /\ x.len = l /\ x.max = b /\ x.rlen = r /\ x.wlen = w /\ x.bytes = 0
      /\ x.want = 0 /\ x.req = z /\ x.tag = 1 /\ x.data = <<>> /\ x.win = <<>>
      /\ x.args = NoArgs /\ x.apc = "wait" /\ x.pc = "idle"
  BY <1>1, <1>2, <1>3, <1>4, <1>5 DEF InitHalf, IsHalf, Fields
<1>7. z["read"] = 0 /\ z["write"] = 0 /\ z = [d \in Half |-> z[d]]
  BY <1>4 DEF Half
<1>8. Len(x.data) = 0 /\ Len(x.win) = 0
  BY <1>6
<1>9. Sizes(x)
  BY <1>6, <1>7, <1>8 DEF Sizes, NoArgs
<1>10. ReadGood(x) /\ WriteGood(x)
  <2>1. 0 <= l
    BY <1>3
  <2>2. 0 <= x.len /\ x.bytes = 0 /\ ~Holds(x)
    BY <1>6, <2>1 DEF Holds
  <2> QED
    BY <1>6, <1>8, <2>2 DEF ReadGood, WriteGood
<1> QED
  BY <1>5, <1>6, <1>9, <1>10 DEF Good

LEMMA InitHolds ==
  ASSUME Init
  PROVE  IInv
<1>1. PICK r, w : r = q["read"] /\ w = q["write"] /\ r = InitHalf("read") /\ w = InitHalf("write")
  BY DEF Init, Half
<1>2. /\ Good("read", r) /\ r.data = <<>> /\ r.win = <<>> /\ r.bytes = 0 /\ r.apc = "wait"
      /\ Good("write", w) /\ w.data = <<>> /\ w.win = <<>> /\ w.bytes = 0 /\ w.apc = "wait"
  BY <1>1, InitHalfGood DEF Half
<1>3. Len(<<>>) = 0
  OBVIOUS
<1>4. \A h \in Half : Packets(h, <<>>)
  BY DEF Packets
<1>5. \A t : Rest(<<>>, 0, t) = 0
  <2> SUFFICES ASSUME NEW t PROVE Rest(<<>>, 0, t) = 0
    OBVIOUS
  <2>1. Sums(<<>>, t)[0] = 0
    BY <1>4, SumsAre DEF Half
  <2> QED
    BY <1>3, <2>1 DEF Rest, Sum
<1>6. Sending(w) = 0 /\ Base(r, <<>>) = 0
  BY <1>2, <1>3 DEF Sending, Base
<1>7. Aligned(<<>>, 0, 0)
  BY <1>3 DEF Aligned
<1>8. Run(0, 0) = <<>>
  BY RunNone
<1>9. Order(r, w, <<>>, 0, <<>>, 0)
  BY <1>2, <1>3, <1>5, <1>6, <1>7, <1>8 DEF Order
<1>10. Bytes(r, w, <<>>, 0, <<>>, 0)
  BY <1>2, <1>3, <1>5, <1>6 DEF Bytes
<1>11. /\ q = [h \in Half |-> q[h]] /\ chan = [h \in Half |-> chan[h]]
       /\ chan["read"] = <<>> /\ chan["write"] = <<>> /\ written = 0 /\ out = <<>>
  BY DEF Init, Half
<1>12. \A h \in Half : Good(h, q[h]) /\ Packets(h, chan[h])
  BY <1>1, <1>2, <1>4, <1>11 DEF Half
<1>13. DInv
  BY <1>1, <1>3, <1>9, <1>10, <1>11, <1>12 DEF DInv
<1>14. \A h \in Half : /\ q[h].inop = {} /\ q[h].pc = "idle" /\ q[h].apc = "wait" /\ q[h].shut = {}
                       /\ chan[h] = <<>>
  BY DEF Init, InitHalf
<1>15. \A h \in Half : Other(h) \in Half
  BY DEF Half, Other
<1>16. \A h \in Half : /\ Pointers(h, q[h]) /\ Closing(h, q[h], chan[h])
                       /\ Heard(h, q[h], q[Other(h)], chan[h])
  BY <1>3, <1>14, <1>15 DEF Pointers, Closing, Heard, Holds
<1>17. PacketsInOrder
  BY DEF Init, PacketsInOrder
<1> QED
  BY <1>13, <1>16, <1>17 DEF IInv

LEMMA QuietEnds ==
  ASSUME IInv, DInv', UNCHANGED <<q, chan, failed>>
  PROVE  IInv'
<1>1. PacketsInOrder'
  BY DEF IInv, PacketsInOrder
<1>2. \A h \in Half : /\ Pointers(h, q'[h]) /\ Closing(h, q'[h], chan'[h])
                      /\ Heard(h, q'[h], q'[Other(h)], chan'[h])
  BY DEF IInv
<1> QED
  BY <1>1, <1>2 DEF IInv

LEMMA NextKeeps ==
  ASSUME IInv, [Next]_vars
  PROVE  IInv'
<1>1. DInv /\ \A h \in Half : Good(h, q[h]) /\ IsHalf(q[h]) /\ Pointers(h, q[h])
  BY DEF DInv, IInv, Good
<1>2. ASSUME NEW h \in Half, Stays(h), Keeps(h) PROVE IInv'
  BY <1>1, <1>2, StaysStep, KeepsStep
<1>3. ASSUME UNCHANGED <<q, chan, failed, written, out>> PROVE IInv'
  BY <1>1, <1>3, QuietStep, QuietEnds
<1>4. ASSUME NEW h \in Half, Call(h) PROVE IInv'
  BY <1>1, <1>2, <1>4, CallStays, CallKeeps
<1>5. ASSUME NEW h \in Half, Grow(h) PROVE IInv'
  BY <1>1, <1>2, <1>5, GrowStays, GrowKeeps
<1>6. ASSUME NEW h \in Half, Node(h) PROVE IInv'
  BY <1>1, <1>2, <1>6, LoopStays, LoopKeeps, GrowWaitedStays, GrowWaitedKeeps, WakeupStays,
     WakeupKeeps DEF Node
<1>7. ASSUME NEW h \in Half, TagChange(h) PROVE IInv'
  BY <1>1, <1>2, <1>7, TagChangeStays, TagChangeKeeps
<1>8. ASSUME NEW h \in Half, SignalTagChanged(h) PROVE IInv'
  BY <1>1, <1>2, <1>8, SignalTagChangedStays, SignalTagChangedKeeps
<1>9. ASSUME NEW h \in Half, NEW n \in 1 .. MaxItems, GiveBack(h, n) PROVE IInv'
  BY <1>1, <1>9, GiveBackStep, GiveBackKeeps, KeepsStep
<1>10. ASSUME NEW h \in Half, Shutdown(h) PROVE IInv'
  BY <1>1, <1>2, <1>10, ShutdownStays, ShutdownKeeps
<1>11. ASSUME NEW h \in Half, Action(h) PROVE IInv'
  BY <1>11, ActionWakeStep, ReadDataStep, SentDataStep, SocketErrorStep DEF Action
<1>12. ASSUME NEW h \in Half, File(h) PROVE IInv'
  BY <1>1, <1>2, <1>12, FileStays, FileKeeps
<1>13. ASSUME NEW h \in Half, Terminate(h) \/ Destroy(h) PROVE IInv'
  BY <1>3, <1>13 DEF Terminate, Destroy, dvars
<1>14. ASSUME NEW h \in Half, ForcedShutdown(h) PROVE IInv'
  BY <1>1, <1>2, <1>14, ForcedShutdownStays, ForcedShutdownKeeps
<1>15. CASE Detect
  BY <1>1, <1>2, <1>15, DetectStays, DetectKeeps DEF Half
<1>16. CASE UNCHANGED vars \/ Ended
  BY <1>3, <1>16 DEF Ended, vars, dvars
<1> QED
  BY <1>4, <1>5, <1>6, <1>7, <1>8, <1>9, <1>10, <1>11, <1>12, <1>13, <1>14, <1>15, <1>16
  DEF Next

(* Every reachable state of a remote queue, with any packets on their way, *)
(* any growths, ends and terminations, satisfies the invariant.            *)
THEOREM Invariance == Spec => []IInv
<1>1. Init => IInv
  BY InitHolds
<1>2. IInv /\ [Next]_vars => IInv'
  BY NextKeeps
<1> QED
  BY <1>1, <1>2, PTL DEF Spec

---------------------------------------------------------------------------
(* What the invariant says of the properties.                              *)

(* No ASSERT of a packet handler (ASSERT(!writeshutdown) in EnqueuePacket, *)
(* ASSERT(!readshutdown) in DequeuePacket and their like) fails: no packet *)
(* is sent after the end of its sender.  Nor does                          *)
(* ASSERT(!(inenqueue && indequeue)) of the buffer's growth: the node grows*)
(* the queue when it holds no pointer into the buffer, the action thread   *)
(* takes a packet that may grow it when it holds none.                     *)
THEOREM EndsInOrder == Spec => []PacketsInOrder
<1>1. IInv => PacketsInOrder
  BY DEF IInv
<1> QED
  BY <1>1, Invariance, PTL

(* The writer's bytecount is what the reader's half has and what is on its *)
(* way, for every length, share and packet size: the enqueue and dequeue   *)
(* packets are each counted once, and the reader's buffer holds what is    *)
(* sent to it.                                                             *)
THEOREM BytesCounted == Spec => []ByteCount
<1>1. DInv => ByteCount
  <2> SUFFICES ASSUME DInv PROVE ByteCount
    OBVIOUS
  <2>1. PICK r, w, a, c : /\ r = q["read"] /\ w = q["write"] /\ a = chan["read"] /\ c = chan["write"]
                          /\ Good("read", r) /\ Good("write", w)
                          /\ Packets("read", a) /\ Packets("write", c) /\ Bytes(r, w, a, 0, c, 0)
    BY DEF DInv, Half
  <2>2. Rest(c, 0, "enqueue") = Sum(c, "enqueue") /\ Rest(a, 0, "dequeue") = Sum(a, "dequeue")
    <3>1. 0 \in 0 .. Len(c) /\ 0 \in 0 .. Len(a)
      BY <2>1 DEF Packets
    <3> QED
      BY <2>1, <3>1, RestIs DEF Half
  <2>3. w.bytes + Sending(w) = r.bytes + Len(r.win) + Sum(c, "enqueue") + Sum(a, "dequeue")
    BY <2>1, <2>2 DEF Bytes
  <2>4. w.bytes \in Nat /\ Len(w.data) <= w.len
    <3>1. w.bytes \in Int /\ w.bytes >= 0
      BY <2>1 DEF Good, WriteGood, Sizes
    <3>2. Len(w.data) <= w.len
      BY <2>1 DEF Good, WriteGood
    <3> QED
      BY <3>1, <3>2
  <2>5. Len(r.data) <= r.len
    <3>1. PICK u \in Nat, v \in Nat, l \in Int :
            u = Len(r.data) /\ v = Len(r.win) /\ l = r.len /\ u + v <= l
      BY <2>1 DEF Good, ReadGood, Sizes
    <3>2. u + v <= l
      BY <3>1
    <3>3. u <= l
      BY <3>2
    <3> QED
      BY <3>1, <3>3
  <2> QED
    BY <2>1, <2>3, <2>4, <2>5 DEF ByteCount, Sending, Half
<1>2. IInv => DInv
  BY DEF IInv
<1> QED
  BY <1>1, <1>2, Invariance, PTL

LEMMA ContentsStep ==
  ASSUME NEW s, NEW n \in Nat, Len(s) = n
  PROVE  /\ Contents(s)[0] = <<>>
         /\ \A i \in 1 .. n : Contents(s)[i] = Contents(s)[i - 1] \o s[i].data
<1>1. Contents(s) =
        [i \in 0 .. Len(s) |-> IF i = 0 THEN <<>> ELSE WithData(Contents(s)[i - 1], s[i])]
  BY SMTT(30) DEF Contents
<1>2. Contents(s)[0] = <<>>
  BY <1>1
<1>3. ASSUME NEW i \in 1 .. n
      PROVE  Contents(s)[i] = Contents(s)[i - 1] \o s[i].data
  <2>1. i \in 0 .. Len(s) /\ i # 0
    OBVIOUS
  <2> QED
    BY <1>1, <2>1 DEF WithData
<1> QED
  BY <1>2, <1>3

(* The packets of the writer carry a run of bytes.                         *)
Carries(c, z) == Contents(c)[Len(c)] = Run(z, Rest(c, 0, "enqueue"))

LEMMA ContentsAre ==
  ASSUME NEW c, Packets("write", c), NEW z \in Int, Aligned(c, 0, z)
  PROVE  Carries(c, z)
<1>1. PICK n \in Nat : n = Len(c)
  BY DEF Packets
<1>2. PICK S : /\ S = Sums(c, "enqueue") /\ S[0] = 0
               /\ \A i \in 1 .. n : S[i] = S[i - 1] + Tells(c[i], "enqueue")
  BY <1>1, SumsAre DEF Half
<1>3. PICK f : f = Contents(c) /\ f[0] = <<>> /\ \A i \in 1 .. n : f[i] = f[i - 1] \o c[i].data
  BY <1>1, ContentsStep
<1>4. PICK T : T = {i \in 0 .. n : S[i] \in Nat /\ f[i] = Run(z, S[i])}
  OBVIOUS
<1>5. 0 \in T
  <2>1. f[0] = Run(z, 0)
    BY <1>3, RunNone
  <2> QED
    BY <1>2, <1>4, <2>1
<1>6. \A i \in 1 .. n : i - 1 \in T => i \in T
  <2> SUFFICES ASSUME NEW i \in 1 .. n, i - 1 \in T PROVE i \in T
    OBVIOUS
  <2>1. PICK g \in Nat : g = S[i - 1] /\ f[i - 1] = Run(z, g)
    BY <1>4
  <2>2. PICK e \in Nat : e = Tells(c[i], "enqueue") /\ c[i].data = Run(z + g, e)
    <3>1. Packet("write", c[i])
      BY <1>1 DEF Packets
    <3>2. CASE c[i].type = "enqueue"
      <4>1. PICK e \in Nat : e = c[i].n
        BY <3>1, <3>2 DEF Packet
      <4>2. c[i].data = Run(z + S[i - 1] - S[0], c[i].n)
        <5>1. i \in 0 + 1 .. Len(c)
          BY <1>1
        <5> QED
          BY <1>2, <3>2, <5>1 DEF Aligned
      <4>3. z + S[i - 1] - S[0] = z + g
        BY <1>2, <2>1
      <4> QED
        BY <3>2, <4>1, <4>2, <4>3 DEF Tells
    <3>3. CASE c[i].type # "enqueue"
      <4>1. c[i].data = <<>> /\ Tells(c[i], "enqueue") = 0
        BY <3>1, <3>3 DEF Packet, Tells
      <4>2. Run(z + g, 0) = <<>>
        BY RunNone
      <4> QED
        BY <4>1, <4>2
    <3> QED
      BY <3>2, <3>3
  <2>3. Joins(z, g, e)
    BY RunJoin
  <2>4. Run(z, g) \o Run(z + g, e) = Run(z, g + e)
    BY <2>3 DEF Joins
  <2>5. f[i] = f[i - 1] \o c[i].data /\ S[i] = S[i - 1] + e
    BY <1>2, <1>3, <2>2
  <2>6. S[i] = g + e /\ g + e \in Nat /\ i \in 0 .. n
    BY <2>1, <2>5
  <2>7. f[i] = Run(z, S[i])
    BY <2>1, <2>2, <2>4, <2>5, <2>6
  <2> QED
    BY <1>4, <2>6, <2>7
<1>7. \A i \in 0 .. n : i \in T
  BY <1>5, <1>6, Positions
<1>8. S[n] \in Nat /\ f[n] = Run(z, S[n])
  BY <1>4, <1>7
<1>9. Rest(c, 0, "enqueue") = S[n]
  BY <1>1, <1>2, <1>8 DEF Rest, Sum
<1> QED
  BY <1>1, <1>3, <1>8, <1>9 DEF Carries

(* What the writer has not sent yet.                                       *)
Unsent(w) ==
  IF w.apc = "send" THEN SubSeq(w.data, Len(w.win) + 1, Len(w.data)) ELSE w.data

LEMMA UnsentIs ==
  ASSUME NEW w, Good("write", w), NEW z \in Int, NEW u \in Nat, u = Len(w.data), w.data = Run(z, u)
  PROVE  \E e \in 0 .. u : e = Sending(w) /\ Unsent(w) = Run(z + e, u - e)
<1>1. CASE w.apc = "send"
  <2>1. PICK e \in Nat : e = Len(w.win) /\ e <= u
    BY <1>1 DEF Good, Sizes, WriteGood, Half
  <2>2. e \in 0 .. u
    BY <2>1
  <2>3. SubSeq(Run(z, u), e + 1, u) = Run(z + e, u - e)
    BY <2>2, RunParts
  <2> QED
    BY <1>1, <2>1, <2>2, <2>3 DEF Sending, Unsent
<1>2. CASE w.apc # "send"
  <2>1. Sending(w) = 0 /\ Unsent(w) = Run(z, u)
    BY <1>2 DEF Sending, Unsent
  <2>2. 0 \in 0 .. u /\ z + 0 = z /\ u - 0 = u
    OBVIOUS
  <2> QED
    BY <2>1, <2>2
<1> QED
  BY <1>1, <1>2

(* Five runs, one after the other.                                         *)
Strung(s, t, u, v, w, n) == s \o t \o u \o v \o w = [i \in 1 .. n |-> i]

LEMMA RunsString ==
  ASSUME NEW a \in Nat, NEW b \in Nat, NEW c \in Nat, NEW d \in Nat, NEW e \in Nat, NEW n,
         n = a + b + c + d + e
  PROVE  Strung(Run(0, a), Run(a, b), Run(a + b, c), Run(a + b + c, d), Run(a + b + c + d, e), n)
<1>1. Joins(0, a, b) /\ Joins(0, a + b, c) /\ Joins(0, a + b + c, d) /\ Joins(0, a + b + c + d, e)
  BY RunJoin
<1>2. Run(0, a) \o Run(a, b) = Run(0, a + b)
  BY <1>1 DEF Joins
<1>3. Run(0, a + b) \o Run(a + b, c) = Run(0, a + b + c)
  BY <1>1 DEF Joins
<1>4. Run(0, a + b + c) \o Run(a + b + c, d) = Run(0, a + b + c + d)
  BY <1>1 DEF Joins
<1>5. Run(0, a + b + c + d) \o Run(a + b + c + d, e) = Run(0, n)
  BY <1>1, SMTT(30) DEF Joins
<1>6. Run(0, n) = [i \in 1 .. n |-> i]
  BY DEF Run
<1> QED
  BY <1>2, <1>3, <1>4, <1>5, <1>6 DEF Strung

(* What has been read, is at the reader, on its way and at the writer is   *)
(* what has been written, in order, whatever is in flight, however the     *)
(* queue has grown, and however it is ended.                               *)
THEOREM DataInOrder == Spec => []FIFO
<1>1. DInv => FIFO
  <2> SUFFICES ASSUME DInv PROVE FIFO
    OBVIOUS
  <2>1. PICK r, w, s : /\ r = q["read"] /\ w = q["write"] /\ s = chan["write"]
                       /\ Good("read", r) /\ Good("write", w) /\ Packets("write", s)
                       /\ Order(r, w, s, 0, out, written) /\ written \in Nat
    BY DEF DInv, Half
  <2>2. PICK a \in Nat, b \in Nat, c \in Nat, u \in Nat, m \in Nat :
          /\ a = Len(out) /\ b = Len(r.data) /\ c = Len(r.win) /\ u = Len(w.data) /\ m = written
    BY <2>1 DEF DInv, Good, Sizes
  <2>3. PICK d \in Nat : d = Rest(s, 0, "enqueue")
    <3>1. 0 \in 0 .. Len(s)
      BY <2>1 DEF Packets
    <3> QED
      BY <2>1, <3>1, SumsNat DEF Half
  <2>4. PICK z \in Int : z = m - u
    OBVIOUS
  <2>5. /\ out = Run(0, a) /\ r.data = Run(a, b) /\ r.win = Run(a + b, c) /\ w.data = Run(z, u)
        /\ Aligned(s, 0, Base(r, out)) /\ Base(r, out) + d = z + Sending(w)
    BY <2>1, <2>2, <2>3, <2>4 DEF Order
  <2>6. Base(r, out) = a + b + c
    BY <2>2 DEF Base
  <2>7. PICK e \in 0 .. u : e = Sending(w) /\ Unsent(w) = Run(z + e, u - e)
    <3>1. Good("write", w) /\ u = Len(w.data) /\ w.data = Run(z, u)
      BY <2>1, <2>2, <2>5
    <3>2. \E e \in 0 .. u : e = Sending(w) /\ Unsent(w) = Run(z + e, u - e)
      BY <3>1, UnsentIs
    <3> QED
      BY <3>2
  <2>8. Carries(s, a + b + c)
    BY <2>1, <2>5, <2>6, ContentsAre
  <2>9. Flying = Run(a + b + c, d)
    BY <2>1, <2>3, <2>8 DEF Carries, Flying
  <2>10. a + b + c + d = z + e
    BY <2>5, <2>6, <2>7
  <2>11. PICK g \in Nat : g = u - e /\ m = a + b + c + d + g
    BY <2>4, <2>10
  <2>12. Unsent(w) = Run(a + b + c + d, g)
    BY <2>7, <2>10, <2>11
  <2>13. Strung(Run(0, a), Run(a, b), Run(a + b, c), Run(a + b + c, d), Run(a + b + c + d, g), m)
    BY <2>11, RunsString
  <2>14. Strung(out, r.data, r.win, Flying, Unsent(w), m)
    BY <2>5, <2>9, <2>12, <2>13
  <2>15. FIFO = Strung(out, q["read"].data, q["read"].win, Flying, Unsent(q["write"]), written)
    BY Zenon DEF FIFO, Strung, Unsent
  <2> QED
    BY <2>1, <2>2, <2>14, <2>15
<1>2. IInv => DInv
  BY DEF IInv
<1> QED
  BY <1>1, <1>2, Invariance, PTL

---------------------------------------------------------------------------
(* The end comes after the data.  t is terminated.                         *)

(* The last packet of c is the end of h.                                   *)
Finished(h, c) == Len(c) > 0 /\ c[Len(c)].type = EndOf(h)

(* An end that has been sent is heard, or on its way.                      *)
Said(h, x, y, c) == x.sentEnd => h \in y.shut \/ Finished(h, c)

(* Unless a kernel terminates, a half is dead when both ends are known,    *)
(* and it has seen the socket end when it has heard of the other's end.    *)
Parted(h, x, t) ==
  /\ x.term => t[h]
  /\ x.sentEnd => \E d \in Half : d \in x.shut
  /\ x.dead => Halted(t) \/ (x.sentEnd /\ Other(h) \in x.shut)
  /\ x.eof => Halted(t) \/ Other(h) \in x.shut

(* The window of a packet of data opens before the end is heard.           *)
Clear(h, x) == x.apc = "recv" => Other(h) \notin x.shut

(* The writer's half has ended with data to send only on account of the    *)
(* reader, or its kernel.                                                  *)
Emptied(r, w, t) ==
  w.sentEnd => t["write"] \/ "read" \in r.shut \/ ("write" \in w.shut /\ w.data = <<>>)

Socket(x, s, t) == Halted(t) \/ ((s # "open" => x.sentEnd) /\ (s = "closed" => x.dead))

(* The part of the inductive invariant that is about the ends.             *)
EInv ==
  /\ sock = [h \in Half |-> sock[h]] /\ terminated = [h \in Half |-> terminated[h]]
  /\ \A h \in Half : /\ Said(h, q[h], q[Other(h)], chan[h]) /\ Parted(h, q[h], terminated)
                     /\ Clear(h, q[h]) /\ Socket(q[h], sock[h], terminated)
  /\ Emptied(q["read"], q["write"], terminated)
  /\ "eof" \in failed => Halted(terminated)

LEMMA HalfStep ==
  ASSUME IInv, EInv, NEW h \in Half, NEW o, o = Other(h), NEW y, q' = [q EXCEPT ![h] = y],
         q[h].shut \subseteq y.shut, Parted(h, y, terminated), Clear(h, y),
         Said(h, y, q[o], chan'[h]), Said(o, q[o], y, chan'[o]),
         h = "write" => Emptied(q["read"], y, terminated),
         Socket(y, sock'[h], terminated), NEW b, sock' = [sock EXCEPT ![h] = b],
         UNCHANGED terminated, "eof" \in failed' => "eof" \in failed \/ Halted(terminated)
  PROVE  EInv'
<1>1. o \in Half /\ Other(o) = h /\ o # h /\ Half = {h, o}
  BY DEF Other, Half
<1>2. q'[h] = y /\ q'[o] = q[o]
  <2>1. q = [g \in Half |-> q[g]]
    BY DEF IInv, DInv
  <2> QED
    BY <1>1, <2>1
<1>3. sock' = [g \in Half |-> sock'[g]] /\ sock'[o] = sock[o]
  <2>1. sock = [g \in Half |-> sock[g]]
    BY DEF EInv
  <2> QED
    BY <1>1, <2>1
<1>4. terminated' = [g \in Half |-> terminated'[g]]
  BY DEF EInv
<1>5. /\ Said(h, q'[h], q'[o], chan'[h]) /\ Parted(h, q'[h], terminated')
      /\ Clear(h, q'[h]) /\ Socket(q'[h], sock'[h], terminated')
  BY <1>2
<1>6. Parted(o, q[o], terminated) /\ Clear(o, q[o]) /\ Socket(q[o], sock[o], terminated)
  BY <1>1 DEF EInv
<1>7. /\ Said(o, q'[o], q'[h], chan'[o]) /\ Parted(o, q'[o], terminated')
      /\ Clear(o, q'[o]) /\ Socket(q'[o], sock'[o], terminated')
  BY <1>2, <1>3, <1>6
<1>8. Emptied(q'["read"], q'["write"], terminated')
  <2>1. CASE h = "write"
    BY <1>1, <1>2, <2>1 DEF Other
  <2>2. CASE h = "read"
    <3>1. Emptied(q["read"], q["write"], terminated) /\ q'["write"] = q["write"] /\ q'["read"] = y
      BY <1>2, <2>2 DEF EInv, Other
    <3> QED
      BY <2>2, <3>1 DEF Emptied
  <2> QED
    BY <2>1, <2>2 DEF Half
<1>9. "eof" \in failed' => Halted(terminated')
  BY DEF EInv
<1>10. \A g \in Half : /\ Said(g, q'[g], q'[Other(g)], chan'[g]) /\ Parted(g, q'[g], terminated')
                       /\ Clear(g, q'[g]) /\ Socket(q'[g], sock'[g], terminated')
  BY <1>1, <1>5, <1>7
<1> QED
  BY <1>3, <1>4, <1>8, <1>9, <1>10 DEF EInv

(* A step of the action thread under way: the half is x by now and k       *)
(* packets have been read.                                                 *)
Unheard(o, x, k) ==
  q[o].sentEnd => o \in x.shut \/ (k < Len(chan[o]) /\ chan[o][Len(chan[o])].type = EndOf(o))
SoFar(h, x, k) ==
  /\ q[h].shut \subseteq x.shut /\ (q[h].sentEnd => x.sentEnd)
  /\ q[h].dead => x.dead \/ Halted(terminated)
  /\ Parted(h, x, terminated) /\ Unheard(Other(h), x, k)
  /\ h = "write" => Emptied(q["read"], x, terminated)

LEMMA SoFarMild ==
  ASSUME NEW h \in Half, NEW x, NEW k, SoFar(h, x, k), NEW y, Mild(h, x, y)
  PROVE  SoFar(h, y, k)
<1>1. Parted(h, y, terminated)
  BY DEF SoFar, Mild, Parted
<1>2. Unheard(Other(h), y, k)
  BY DEF SoFar, Mild, Unheard
<1>3. h = "write" => Emptied(q["read"], y, terminated)
  BY DEF SoFar, Mild, Emptied
<1> QED
  BY <1>1, <1>2, <1>3 DEF SoFar, Mild

LEMMA SoFarStart ==
  ASSUME IInv, EInv, NEW h \in Half
  PROVE  SoFar(h, q[h], 0)
<1>1. PICK o : o = Other(h) /\ o \in Half /\ Other(o) = h
  BY DEF Other, Half
<1>2. Said(o, q[o], q[h], chan[o])
  BY <1>1 DEF EInv
<1>3. Len(chan[o]) > 0 => 0 < Len(chan[o])
  <2>1. Len(chan[o]) \in Nat
    BY <1>1 DEF IInv, DInv, Packets
  <2> QED
    BY <2>1
<1>4. Unheard(o, q[h], 0)
  BY <1>2, <1>3 DEF Said, Finished, Unheard
<1> QED
  BY <1>1, <1>4 DEF EInv, SoFar

(* The node, the file thread and the kernel of h.                          *)
LEMMA MildStep ==
  ASSUME IInv, EInv, NEW h \in Half, NEW y, q' = [q EXCEPT ![h] = y], Mild(h, q[h], y),
         Clear(h, y), UNCHANGED <<chan, terminated>>,
         NEW b, sock' = [sock EXCEPT ![h] = b], b = sock[h] \/ Halted(terminated),
         "eof" \in failed' => "eof" \in failed \/ Halted(terminated)
  PROVE  EInv'
<1>1. PICK o : o = Other(h) /\ o \in Half /\ Other(o) = h
  BY DEF Other, Half
<1>2. SoFar(h, y, 0)
  BY SoFarStart, SoFarMild
<1>3. Said(h, q[h], q[o], chan[h]) /\ Said(o, q[o], q[h], chan[o]) /\ Socket(q[h], sock[h], terminated)
  BY <1>1 DEF EInv
<1>4. Said(h, y, q[o], chan'[h]) /\ Said(o, q[o], y, chan'[o])
  BY <1>3 DEF Said, Mild
<1>5. Socket(y, sock'[h], terminated)
  <2>1. sock'[h] = b
    BY DEF EInv
  <2> QED
    BY <1>3, <2>1 DEF Socket, Mild
<1> QED
  BY <1>1, <1>2, <1>4, <1>5, HalfStep DEF SoFar, Mild

LEMMA KeepsEnds ==
  ASSUME IInv, EInv, NEW h \in Half, Keeps(h), UNCHANGED <<sock, terminated>>
  PROVE  EInv'
<1>1. PICK y : Calm(h, q[h], y) /\ q' = [q EXCEPT ![h] = y]
  BY DEF Keeps
<1>2. Mild(h, q[h], y) /\ Clear(h, y)
  BY <1>1, CalmMild DEF EInv, Clear, Calm, Firm
<1>3. PICK b : b = sock[h] /\ sock' = [sock EXCEPT ![h] = b]
  BY DEF EInv
<1>4. UNCHANGED chan /\ ("eof" \in failed' => "eof" \in failed)
  BY DEF Keeps
<1> QED
  BY <1>1, <1>2, <1>3, <1>4, MildStep

---------------------------------------------------------------------------
(* The ends in a step of the action thread.                                *)
Told(h, x, s) == x.sentEnd => h \in q[Other(h)].shut \/ Finished(h, chan[h] \o s)
Way(h, m, k) == SoFar(h, m.x, k) /\ Told(h, m.x, m.sent) /\ (m.close => m.x.dead)

LEMMA WayMild ==
  ASSUME NEW h \in Half, NEW m, NEW k, Way(h, m, k), NEW y, Mild(h, m.x, y),
         y.dead = m.x.dead, NEW z, z.x = y, z.sent = m.sent, z.close = m.close
  PROVE  Way(h, z, k) /\ z.x.sentEnd = m.x.sentEnd
<1>1. SoFar(h, y, k)
  BY SoFarMild DEF Way
<1>2. Told(h, y, z.sent)
  BY DEF Way, Told, Mild
<1> QED
  BY <1>1, <1>2 DEF Way, Mild

(* A packet that is not an end.                                            *)
LEMMA SendWay ==
  ASSUME NEW h \in Half, NEW z, IsStep(z), NEW k, Way(h, z, k), ~z.x.sentEnd,
         NEW t, NEW n, NEW g, NEW d
  PROVE  Way(h, Send(z, t, n, g, d), k)
<1>1. PICK w, p : w = Send(z, t, n, g, d) /\ Sends(z, w, p)
  BY SendIs
<1>2. w.x = z.x /\ w.close = z.close
  BY <1>1 DEF Sends
<1>3. Told(h, w.x, w.sent)
  BY <1>2 DEF Told
<1> QED
  BY <1>1, <1>2, <1>3 DEF Way

LEMMA SteadyWay ==
  ASSUME NEW h \in Half, NEW m, NEW k, Way(h, m, k), NEW y, Steady(m.x, y),
         NEW z, z.x = y, z.sent = m.sent, z.close = m.close
  PROVE  Way(h, z, k) /\ z.x.sentEnd = m.x.sentEnd
<1>1. Mild(h, m.x, y) /\ y.dead = m.x.dead
  BY CalmMild DEF Steady
<1> QED
  BY <1>1, WayMild

LEMMA SendGrowWay ==
  ASSUME NEW h \in Half, NEW m, NEW k, Under(h, m, k), Way(h, m, k)
  PROVE  Way(h, SendGrow(m), k)
<1>1. IsStep(m) /\ IsHalf(m.x)
  BY DEF Under, Mid, Good
<1>2. PICK P, y : P = m.x.pending \ {"grow"} /\ y = [m.x EXCEPT !.pending = P]
  OBVIOUS
<1>3. PICK z : z = [m EXCEPT !.x = y] /\ z = [m EXCEPT !.x.pending = @ \ {"grow"}]
  BY <1>1, <1>2 DEF IsStep
<1>4. IsStep(z) /\ Way(h, z, k) /\ z.x.sentEnd = m.x.sentEnd
  <2>1. Steady(m.x, y)
    BY <1>1, <1>2 DEF Steady, IsHalf, Fields, Holds
  <2>2. IsStep(z) /\ z.x = y /\ z.sent = m.sent /\ z.close = m.close
    BY <1>1, <1>3 DEF IsStep
  <2> QED
    BY <2>1, <2>2, SteadyWay
<1>5. PICK n, g : n = m.x.max /\ g = m.x.rlen + m.x.wlen
  OBVIOUS
<1>6. SendGrow(m) = m \/ (~m.x.sentEnd /\ SendGrow(m) = Send(z, "grow", n, g, <<>>))
  BY <1>3, <1>5 DEF SendGrow
<1> QED
  BY <1>4, <1>6, SendWay

LEMMA SendDequeueWay ==
  ASSUME NEW h \in Half, NEW m, NEW k, Under(h, m, k), Way(h, m, k), ~m.x.sentEnd
  PROVE  Way(h, SendDequeue(m), k)
<1>1. IsStep(m) /\ IsHalf(m.x)
  BY DEF Under, Mid, Good
<1>2. PICK n : n = m.x.bytes - Len(m.x.data)
  OBVIOUS
<1>3. PICK b, y : b = m.x.bytes - n /\ y = [m.x EXCEPT !.bytes = b]
  OBVIOUS
<1>4. PICK z : z = [m EXCEPT !.x = y] /\ z = [m EXCEPT !.x.bytes = @ - n]
  BY <1>1, <1>3 DEF IsStep
<1>5. IsStep(z) /\ Way(h, z, k) /\ z.x.sentEnd = m.x.sentEnd
  <2>1. Steady(m.x, y)
    BY <1>1, <1>3 DEF Steady, IsHalf, Fields, Holds
  <2>2. IsStep(z) /\ z.x = y /\ z.sent = m.sent /\ z.close = m.close
    BY <1>1, <1>4 DEF IsStep
  <2> QED
    BY <2>1, <2>2, SteadyWay
<1>6. SendDequeue(m) = m \/ SendDequeue(m) = Send(z, "dequeue", n, 0, <<>>)
  BY <1>2, <1>4 DEF SendDequeue
<1>7. Way(h, Send(z, "dequeue", n, 0, <<>>), k)
  BY <1>5, SendWay
<1> QED
  BY <1>6, <1>7

LEMMA SendBlockWay ==
  ASSUME NEW h \in Half, NEW m, NEW k, Under(h, m, k), Way(h, m, k), ~m.x.sentEnd
  PROVE  Way(h, SendBlock(h, m), k)
<1>1. IsStep(m) /\ IsHalf(m.x)
  BY DEF Under, Mid, Good
<1>2. PICK P, y : P = m.x.pending \ {"block"} /\ y = [m.x EXCEPT !.pending = P]
  OBVIOUS
<1>3. PICK z : z = [m EXCEPT !.x = y] /\ z = [m EXCEPT !.x.pending = @ \ {"block"}]
  BY <1>1, <1>2 DEF IsStep
<1>4. IsStep(z) /\ Way(h, z, k) /\ z.x.sentEnd = m.x.sentEnd
  <2>1. Steady(m.x, y)
    BY <1>1, <1>2 DEF Steady, IsHalf, Fields, Holds
  <2>2. IsStep(z) /\ z.x = y /\ z.sent = m.sent /\ z.close = m.close
    BY <1>1, <1>3 DEF IsStep
  <2> QED
    BY <2>1, <2>2, SteadyWay
<1>5. PICK n : n = m.x.req[h]
  OBVIOUS
<1>6. \/ SendBlock(h, m) = m
      \/ SendBlock(h, m) = z
      \/ SendBlock(h, m) = Send(z, "readblock", n, 0, <<>>)
      \/ SendBlock(h, m) = Send(z, "writeblock", n, 0, <<>>)
  BY <1>3, <1>5 DEF SendBlock
<1>7. Way(h, Send(z, "readblock", n, 0, <<>>), k) /\ Way(h, Send(z, "writeblock", n, 0, <<>>), k)
  BY <1>4, SendWay
<1> QED
  BY <1>4, <1>6, <1>7

LEMMA SendTagWay ==
  ASSUME NEW h \in Half, NEW m, NEW k, Under(h, m, k), Way(h, m, k), ~m.x.sentEnd
  PROVE  Way(h, SendTag(h, m), k)
<1>1. IsStep(m) /\ IsHalf(m.x)
  BY DEF Under, Mid, Good
<1>2. PICK P, y : P = m.x.pending \ {"tag"} /\ y = [m.x EXCEPT !.pending = P]
  OBVIOUS
<1>3. PICK z : z = [m EXCEPT !.x = y] /\ z = [m EXCEPT !.x.pending = @ \ {"tag"}]
  BY <1>1, <1>2 DEF IsStep
<1>4. IsStep(z) /\ Way(h, z, k) /\ z.x.sentEnd = m.x.sentEnd
  <2>1. Steady(m.x, y)
    BY <1>1, <1>2 DEF Steady, IsHalf, Fields, Holds
  <2>2. IsStep(z) /\ z.x = y /\ z.sent = m.sent /\ z.close = m.close
    BY <1>1, <1>3 DEF IsStep
  <2> QED
    BY <2>1, <2>2, SteadyWay
<1>5. PICK n : n = m.x.tag
  OBVIOUS
<1>6. SendTag(h, m) = m \/ SendTag(h, m) = Send(z, "d4rtag", n, 0, <<>>)
  BY <1>3, <1>5 DEF SendTag
<1>7. Way(h, Send(z, "d4rtag", n, 0, <<>>), k)
  BY <1>4, SendWay
<1> QED
  BY <1>6, <1>7

(* The reasons for which a half sends its end.                             *)
Ready(h, x) ==
  /\ \E d \in Half : d \in x.shut
  /\ h = "write" => \/ terminated["write"] \/ "read" \in q["read"].shut
                    \/ ("write" \in x.shut /\ x.data = <<>>)

LEMMA SendEndWay ==
  ASSUME IInv, NEW h \in Half, NEW m, NEW k, Under(h, m, k), Way(h, m, k),
         m.x.sentEnd \/ Ready(h, m.x), NEW w, w = SendEnd(h, m)
  PROVE  Way(h, w, k) /\ w.x.sentEnd /\ w.x.shut = m.x.shut
<1>1. CASE m.x.sentEnd
  BY <1>1 DEF SendEnd
<1>2. CASE ~m.x.sentEnd
  <2>1. PICK x, s : x = m.x /\ s = m.sent
    OBVIOUS
  <2>2. PICK y : y = [x EXCEPT !.sentEnd = TRUE]
    OBVIOUS
  <2>3. PICK z : z = [m EXCEPT !.x = y] /\ z = [m EXCEPT !.x.sentEnd = TRUE]
    BY <2>1, <2>2 DEF Under, IsStep
  <2>4. IsHalf(x) /\ Packets(h, s) /\ Ready(h, x) /\ SoFar(h, x, k) /\ (m.close => x.dead)
    BY <1>2, <2>1 DEF Under, Mid, Good, Way
  <2>5. IsStep(z) /\ z.x = y /\ z.sent = s /\ z.close = m.close
    BY <2>1, <2>3 DEF Under, IsStep
  <2>6. /\ y.sentEnd /\ y.shut = x.shut /\ y.dead = x.dead /\ y.eof = x.eof /\ y.term = x.term
        /\ y.data = x.data
    BY <2>2, <2>4 DEF IsHalf, Fields
  <2>7. PICK p : /\ Sends(z, Send(z, EndOf(h), 0, 0, <<>>), p)
                 /\ p.type = EndOf(h) /\ p.n = 0 /\ p.size = 0 /\ p.data = <<>>
    BY <2>5, SendIs, SMTT(30)
  <2>8. w = Send(z, EndOf(h), 0, 0, <<>>)
    BY <1>2, <2>3 DEF SendEnd, EndOf
  <2>9. w.x = y /\ w.sent = Append(s, p) /\ w.close = m.close
    BY <2>5, <2>7, <2>8 DEF Sends
  <2>10. Packet(h, p)
    <3>1. Len(<<>>) = 0
      OBVIOUS
    <3> QED
      BY <2>7, <3>1 DEF Packet, Types, EndOf
  <2>11. SoFar(h, y, k)
    <3>1. Parted(h, y, terminated)
      BY <2>4, <2>6 DEF SoFar, Parted, Ready
    <3>2. Unheard(Other(h), y, k)
      BY <2>4, <2>6 DEF SoFar, Unheard
    <3>3. h = "write" => Emptied(q["read"], y, terminated)
      BY <2>4, <2>6 DEF Ready, Emptied
    <3> QED
      BY <2>4, <2>6, <3>1, <3>2, <3>3 DEF SoFar
  <2>12. Finished(h, chan[h] \o w.sent)
    <3>1. AppendLast(h, chan[h], s, p)
      BY <2>4, <2>10, ConcatAppend DEF IInv, DInv
    <3>2. PICK c : c = chan[h] \o s /\ Packets(h, c) /\ chan[h] \o w.sent = Append(c, p)
      BY <2>9, <3>1 DEF AppendLast
    <3>3. PICK n \in Nat : n = Len(c)
      BY <3>2 DEF Packets
    <3>4. Len(Append(c, p)) = n + 1 /\ Append(c, p)[n + 1] = p
      BY <2>10, <3>2, <3>3, SumAppend
    <3>5. n + 1 > 0
      OBVIOUS
    <3>6. Finished(h, Append(c, p))
      BY <2>7, <3>4, <3>5 DEF Finished
    <3> QED
      BY <3>2, <3>6
  <2> QED
    BY <2>1, <2>4, <2>6, <2>9, <2>11, <2>12 DEF Way, Told
<1> QED
  BY <1>1, <1>2

LEMMA EndOutWay ==
  ASSUME IInv, NEW h \in Half, NEW m, NEW k, Under(h, m, k), Way(h, m, k)
  PROVE  Way(h, EndOut(h, m), k)
<1>1. CASE h \in m.x.shut /\ (h = "write" => m.x.data = <<>> \/ m.x.term)
  <2>1. m.x.term => terminated[h]
    BY DEF Way, SoFar, Parted
  <2>2. Ready(h, m.x)
    BY <1>1, <2>1 DEF Ready
  <2> QED
    BY <1>1, <2>2, SendEndWay DEF EndOut
<1>2. CASE ~(h \in m.x.shut /\ (h = "write" => m.x.data = <<>> \/ m.x.term))
  BY <1>2 DEF EndOut
<1> QED
  BY <1>1, <1>2

(* The writer's half answers the end of the reader's.  That has ended      *)
(* because its node has, or to answer an end of the writer's half, which   *)
(* then has nothing more to send.                                          *)
LEMMA EndBackWay ==
  ASSUME IInv, EInv, NEW h \in Half, NEW m, NEW k, Under(h, m, k), Way(h, m, k)
  PROVE  Way(h, EndBack(h, m), k)
<1>1. CASE Other(h) \in m.x.shut
  <2>1. m.x.sentEnd \/ Ready(h, m.x)
    <3>1. PICK x, o : x = m.x /\ o = Other(h) /\ o \in Half /\ o \in x.shut
      BY <1>1 DEF Other, Half
    <3>2. q[o].sentEnd /\ (h \in q[o].shut => x.sentEnd)
      BY <3>1 DEF Under, Due, Heard
    <3>3. PICK d \in Half : d \in q[o].shut
      BY <3>1, <3>2 DEF EInv, Parted
    <3>4. h = "write" /\ ~x.sentEnd => "read" \in q["read"].shut
      BY <3>1, <3>2, <3>3 DEF Half, Other
    <3> QED
      BY <3>1, <3>4 DEF Ready
  <2>2. PICK g : /\ g = SendEnd(h, m) /\ Way(h, g, k) /\ g.x.sentEnd /\ g.x.shut = m.x.shut
                 /\ IsStep(g) /\ IsHalf(g.x)
    <3>1. Under(h, SendEnd(h, m), k)
      BY SendEndUnder
    <3> QED
      BY <2>1, <3>1, SendEndWay DEF Under, Mid, Good
  <2>3. PICK y : y = [g.x EXCEPT !.dead = TRUE]
    OBVIOUS
  <2>4. PICK z : z = [g EXCEPT !.x = y, !.close = TRUE] /\ z = EndBack(h, m)
    BY <1>1, <2>2, <2>3 DEF EndBack, IsStep
  <2>5. z.x = y /\ z.sent = g.sent
    BY <2>2, <2>4 DEF IsStep
  <2>6. PICK x : x = g.x
    OBVIOUS
  <2>7. /\ y.dead /\ y.sentEnd = x.sentEnd /\ y.shut = x.shut /\ y.eof = x.eof /\ y.term = x.term
        /\ y.data = x.data
    BY <2>2, <2>3, <2>6 DEF IsHalf, Fields
  <2>8. SoFar(h, y, k)
    <3>1. SoFar(h, x, k) /\ x.sentEnd /\ Other(h) \in x.shut
      BY <1>1, <2>2, <2>6 DEF Way
    <3>2. Parted(h, y, terminated)
      BY <2>7, <3>1 DEF SoFar, Parted
    <3>3. Unheard(Other(h), y, k)
      BY <2>7, <3>1 DEF SoFar, Unheard
    <3>4. h = "write" => Emptied(q["read"], y, terminated)
      BY <2>7, <3>1 DEF SoFar, Emptied
    <3> QED
      BY <2>7, <3>1, <3>2, <3>3, <3>4 DEF SoFar
  <2>9. Told(h, y, z.sent)
    BY <2>2, <2>5, <2>6, <2>7 DEF Way, Told
  <2> QED
    BY <2>4, <2>5, <2>7, <2>8, <2>9 DEF Way
<1>2. CASE Other(h) \notin m.x.shut
  BY <1>2 DEF EndBack
<1> QED
  BY <1>1, <1>2

LEMMA TickedWay ==
  ASSUME NEW h \in Half, NEW m, NEW k, Under(h, m, k), Way(h, m, k)
  PROVE  Way(h, Ticked(m), k)
<1>1. PICK a, f : /\ a = (IF m.x.dead THEN "done" ELSE "wait")
                  /\ f = (IF m.x.fpc = "tick" THEN "poll" ELSE m.x.fpc)
  OBVIOUS
<1>2. PICK y : y = [m.x EXCEPT !.apc = a, !.term = FALSE, !.fpc = f]
  OBVIOUS
<1>3. Ticked(m) = [m EXCEPT !.x = y]
  BY <1>1, <1>2 DEF Ticked, Under, IsStep
<1>4. /\ y.sentEnd = m.x.sentEnd /\ y.shut = m.x.shut /\ y.data = m.x.data /\ y.eof = m.x.eof
      /\ ~y.term /\ y.dead = m.x.dead
  BY <1>2 DEF Under, Mid, Good, IsHalf, Fields
<1>5. Mild(h, m.x, y)
  BY <1>4 DEF Mild
<1>6. Ticked(m).x = y /\ Ticked(m).sent = m.sent /\ Ticked(m).close = m.close
  BY <1>3 DEF Under, IsStep
<1> QED
  BY <1>4, <1>5, <1>6, WayMild

LEMMA SendEnqueueWay ==
  ASSUME NEW m, NEW k, Under("write", m, k), Way("write", m, k), MaySend(m.x)
  PROVE  Way("write", SendEnqueue(m), k) /\ SendEnqueue(m).x.apc = "send"
<1>1. PICK d, I, c : /\ d = SubSeq(m.x.data, 1, Portion(m.x)) /\ I = m.x.inop \cup {"read"}
                     /\ c = Len(d)
  OBVIOUS
<1>2. PICK y : y = [m.x EXCEPT !.inop = I, !.win = d, !.apc = "send"]
  OBVIOUS
<1>3. PICK z : /\ z = [m EXCEPT !.x = y]
               /\ z = [m EXCEPT !.x.inop = @ \cup {"read"}, !.x.win = d, !.x.apc = "send"]
  BY <1>1, <1>2 DEF Under, IsStep
<1>4. /\ y.sentEnd = m.x.sentEnd /\ y.shut = m.x.shut /\ y.data = m.x.data /\ y.eof = m.x.eof
      /\ y.term = m.x.term /\ y.dead = m.x.dead /\ y.apc = "send"
  BY <1>2 DEF Under, Mid, Good, IsHalf, Fields
<1>5. Mild("write", m.x, y)
  BY <1>4 DEF Mild
<1>6. IsStep(z) /\ z.x = y /\ z.sent = m.sent /\ z.close = m.close
  BY <1>3 DEF Under, IsStep
<1>7. Way("write", z, k) /\ ~z.x.sentEnd
  BY <1>4, <1>5, <1>6, WayMild DEF MaySend, Half
<1>8. SendEnqueue(m) = Send(z, "enqueue", c, 0, d)
  BY <1>1, <1>3 DEF SendEnqueue
<1>9. Way("write", Send(z, "enqueue", c, 0, d), k)
  BY <1>6, <1>7, SendWay DEF Half
<1>10. Send(z, "enqueue", c, 0, d).x = z.x
  BY <1>6 DEF Send, IsStep
<1> QED
  BY <1>4, <1>6, <1>8, <1>9, <1>10

(* The last packet of what is left is the last packet.                     *)
LEMMA FinishedTail ==
  ASSUME NEW o \in Half, NEW c, Packets(o, c), NEW k, NEW d, IsTail(c, k, d), k < Len(c),
         c[Len(c)].type = EndOf(o)
  PROVE  Finished(o, d)
<1>1. PICK n \in Nat : n = Len(c)
  BY DEF Packets
<1>2. k \in 0 .. n /\ k < n
  BY <1>1 DEF IsTail
<1>3. Len(d) = n - k /\ \A i \in 1 .. n - k : d[i] = c[k + i]
  BY <1>1, <1>2, SumParts DEF IsTail
<1>4. n - k \in 1 .. n - k /\ k + (n - k) = n /\ n - k > 0
  BY <1>2
<1>5. d[n - k] = c[n]
  BY <1>3, <1>4
<1> QED
  BY <1>1, <1>3, <1>4, <1>5 DEF Finished

LEMMA ActEnds ==
  ASSUME IInv, EInv, NEW h \in Half, NEW m, NEW k, Way(h, m, k), Clear(h, m.x), m.fails = {},
         k \in 0 .. Len(chan[Other(h)]), Act(h, m, k)
  PROVE  EInv'
<1>1. PICK x, s, o : x = m.x /\ s = m.sent /\ o = Other(h) /\ o \in Half /\ o # h
  BY DEF Other, Half
<1>2. PICK c, d : c = chan[h] \o s /\ d = SubSeq(chan[o], k + 1, Len(chan[o]))
  OBVIOUS
<1>3. PICK b : b = IF m.close THEN "closed" ELSE IF x.sentEnd THEN "shut" ELSE sock[h]
  OBVIOUS
<1>4. /\ q' = [q EXCEPT ![h] = x] /\ failed' = failed /\ UNCHANGED terminated
      /\ chan' = [chan EXCEPT ![h] = c, ![o] = d] /\ sock' = [sock EXCEPT ![h] = b]
  BY <1>1, <1>2, <1>3 DEF Act, Set
<1>5. chan'[h] = c /\ chan'[o] = d
  <2>1. chan = [g \in Half |-> chan[g]]
    BY DEF IInv, DInv
  <2> QED
    BY <1>1, <1>4, <2>1
<1>6. SoFar(h, x, k) /\ Told(h, x, s) /\ (m.close => x.dead)
  BY <1>1 DEF Way
<1>7. Said(h, x, q[o], chan'[h])
  BY <1>1, <1>2, <1>5, <1>6 DEF Said, Told
<1>8. Said(o, q[o], x, chan'[o])
  <2>1. Unheard(o, x, k)
    BY <1>1, <1>6 DEF SoFar
  <2>2. Packets(o, chan[o]) /\ IsTail(chan[o], k, d)
    BY <1>1, <1>2 DEF IInv, DInv, IsTail
  <2>3. k < Len(chan[o]) /\ chan[o][Len(chan[o])].type = EndOf(o) => Finished(o, d)
    BY <1>1, <2>2, FinishedTail
  <2> QED
    BY <1>5, <2>1, <2>3 DEF Said, Unheard
<1>9. Socket(x, sock'[h], terminated)
  <2>1. sock'[h] = b
    BY <1>4 DEF EInv
  <2>2. Socket(q[h], sock[h], terminated)
    BY DEF EInv
  <2>3. x.dead => Halted(terminated) \/ x.sentEnd
    BY <1>6 DEF SoFar, Parted
  <2> QED
    BY <1>3, <1>6, <2>1, <2>2, <2>3 DEF Socket, SoFar
<1>10. /\ q[h].shut \subseteq x.shut /\ Parted(h, x, terminated)
       /\ h = "write" => Emptied(q["read"], x, terminated)
  BY <1>6 DEF SoFar
<1> QED
  BY <1>1, <1>4, <1>7, <1>8, <1>9, <1>10, HalfStep

LEMMA StatusEnds ==
  ASSUME IInv, EInv, NEW h \in Half, NEW m, NEW k, Under(h, m, k), Way(h, m, k), Status(h, m, k)
  PROVE  EInv'
<1>1. PICK a : a = (IF h = "read" /\ ~m.x.sentEnd THEN SendDequeue(m) ELSE m)
               /\ \E b \in {IF m.x.sentEnd THEN m ELSE SendBlock(h, a)} :
                  \E c \in {IF m.x.sentEnd THEN m ELSE SendTag(h, b)} :
                  \E d \in {EndOut(h, c)} :
                  \E e \in {EndBack(h, d)} : Act(h, Ticked(e), k)
  BY DEF Status
<1>2. PICK b : b = (IF m.x.sentEnd THEN m ELSE SendBlock(h, a))
               /\ \E c \in {IF m.x.sentEnd THEN m ELSE SendTag(h, b)} :
                  \E d \in {EndOut(h, c)} :
                  \E e \in {EndBack(h, d)} : Act(h, Ticked(e), k)
  BY <1>1
<1>3. PICK c, d, e : /\ c = (IF m.x.sentEnd THEN m ELSE SendTag(h, b))
                     /\ d = EndOut(h, c) /\ e = EndBack(h, d) /\ Act(h, Ticked(e), k)
  BY <1>2
<1>4. Under(h, a, k) /\ Way(h, a, k) /\ (~m.x.sentEnd => ~a.x.sentEnd)
  BY <1>1, SendDequeueUnder, SendDequeueWay
<1>5. Under(h, b, k) /\ Way(h, b, k) /\ (~m.x.sentEnd => ~b.x.sentEnd)
  BY <1>2, <1>4, SendBlockUnder, SendBlockWay
<1>6. Under(h, c, k) /\ Way(h, c, k)
  BY <1>3, <1>5, SendTagUnder, SendTagWay
<1>7. Under(h, d, k) /\ Way(h, d, k)
  BY <1>3, <1>6, EndOutUnder, EndOutWay
<1>8. Under(h, e, k) /\ Way(h, e, k)
  BY <1>3, <1>7, EndBackUnder, EndBackWay
<1>9. Under(h, Ticked(e), k) /\ Way(h, Ticked(e), k)
  BY <1>8, TickedUnder, TickedWay
<1>10. PICK z : z = Ticked(e) /\ Act(h, z, k) /\ Under(h, z, k) /\ Way(h, z, k)
  BY <1>3, <1>9
<1>11. Clear(h, z.x) /\ z.fails = {} /\ k \in 0 .. Len(chan[Other(h)])
  BY <1>10 DEF Under, Clear, Mid
<1> QED
  BY <1>10, <1>11, ActEnds

LEMMA FlushEnds ==
  ASSUME IInv, EInv, NEW m, NEW k, Under("write", m, k), Way("write", m, k), Flush(m, k)
  PROVE  EInv'
<1>1. k \in 0 .. Len(chan[Other("write")]) /\ "write" \in Half
  BY DEF Under, Mid, Half
<1>2. CASE MaySend(m.x) /\ Act("write", SendEnqueue(m), k)
  <2>1. PICK z : z = SendEnqueue(m) /\ Act("write", z, k) /\ Way("write", z, k)
                 /\ z.x.apc = "send" /\ z.fails = {}
    BY <1>2, SendEnqueueMid, SendEnqueueWay
  <2>2. Clear("write", z.x)
    BY <2>1 DEF Clear
  <2> QED
    BY <1>1, <2>1, <2>2, ActEnds
<1>3. CASE Act("write", Ticked(m), k)
  <2>1. PICK z : z = Ticked(m) /\ Act("write", z, k) /\ Under("write", z, k) /\ Way("write", z, k)
    BY <1>1, <1>3, TickedUnder, TickedWay
  <2>2. Clear("write", z.x) /\ z.fails = {}
    BY <2>1 DEF Under, Clear
  <2> QED
    BY <1>1, <2>1, <2>2, ActEnds
<1>4. CASE Status("write", m, k)
  BY <1>1, <1>4, StatusEnds
<1> QED
  BY <1>2, <1>3, <1>4 DEF Flush

(* The socket has ended, and all packets have been read: the end is among  *)
(* them.                                                                   *)
LEMMA AnswerEnds ==
  ASSUME IInv, EInv, NEW h \in Half, NEW m, NEW k, Under(h, m, k), Way(h, m, k),
         k = Len(chan[Other(h)]), Answer(h, m, k)
  PROVE  EInv'
<1>1. PICK z : z = [m EXCEPT !.x.eof = @ \/ sock[Other(h)] # "open"]
               /\ \E g \in {SendGrow(z)} :
                  \E t \in {IF m.x.term /\ ~m.x.sentEnd THEN [g EXCEPT !.x = ShutEnd(g.x, h)] ELSE g} :
                    \/ h = "read" /\ Status(h, t, k)
                    \/ h = "write" /\ Flush(t, k)
  BY DEF Answer
<1>2. PICK g, t : /\ g = SendGrow(z)
                  /\ t = (IF m.x.term /\ ~m.x.sentEnd THEN [g EXCEPT !.x = ShutEnd(g.x, h)] ELSE g)
                  /\ \/ h = "read" /\ Status(h, t, k)
                     \/ h = "write" /\ Flush(t, k)
  BY <1>1
<1>3. Under(h, z, k) /\ Way(h, z, k)
  <2>1. PICK b, y : b = (m.x.eof \/ sock[Other(h)] # "open") /\ y = [m.x EXCEPT !.eof = b]
    OBVIOUS
  <2>2. z = [m EXCEPT !.x = y]
    BY <1>1, <2>1 DEF Under, IsStep
  <2>3. Same(h, m.x, y) /\ Firm(h, m.x, y) /\ Now(m, z, y)
    BY <2>1, <2>2, AsideSame DEF Under, Mid, IsStep, Now
  <2>4. Under(h, z, k)
    BY <2>3, NowUnder
  <2>5. PICK x, o : x = m.x /\ o = Other(h) /\ o \in Half
    BY DEF Other, Half
  <2>6. /\ y.sentEnd = x.sentEnd /\ y.shut = x.shut /\ y.data = x.data /\ y.eof = b
        /\ y.term = x.term /\ y.dead = x.dead
    BY <2>1, <2>5 DEF Under, Mid, Good, IsHalf, Fields
  <2>7. SoFar(h, x, k) /\ Told(h, x, m.sent) /\ (m.close => x.dead)
    BY <2>5 DEF Way
  <2>8. sock[o] # "open" => Halted(terminated) \/ o \in x.shut
    <3>1. Socket(q[o], sock[o], terminated) /\ Unheard(o, x, k)
      BY <2>5, <2>7 DEF EInv, SoFar
    <3>2. ~(k < Len(chan[o]))
      <4>1. Len(chan[o]) \in Nat /\ k = Len(chan[o])
        BY <2>5 DEF IInv, DInv, Packets
      <4> QED
        BY <4>1
    <3> QED
      BY <3>1, <3>2 DEF Socket, Unheard
  <2>9. Parted(h, y, terminated)
    BY <2>1, <2>5, <2>6, <2>7, <2>8 DEF SoFar, Parted
  <2>10. Unheard(Other(h), y, k)
    BY <2>6, <2>7 DEF SoFar, Unheard
  <2>11. h = "write" => Emptied(q["read"], y, terminated)
    BY <2>6, <2>7 DEF SoFar, Emptied
  <2>12. SoFar(h, y, k)
    BY <2>6, <2>7, <2>9, <2>10, <2>11 DEF SoFar
  <2>13. z.x = y /\ z.sent = m.sent /\ z.close = m.close
    BY <2>2 DEF Under, IsStep
  <2>14. Told(h, y, z.sent)
    BY <2>6, <2>7, <2>13 DEF Told
  <2> QED
    BY <2>4, <2>6, <2>7, <2>12, <2>13, <2>14 DEF Way
<1>4. Under(h, g, k) /\ Way(h, g, k)
  BY <1>2, <1>3, SendGrowUnder, SendGrowWay
<1>5. Under(h, t, k) /\ Way(h, t, k)
  <2>1. PICK y, z2 : y = ShutEnd(g.x, h) /\ z2 = [g EXCEPT !.x = y]
    OBVIOUS
  <2>2. Same(h, g.x, y) /\ Firm(h, g.x, y) /\ Calm(h, g.x, y)
    BY <1>4, <2>1, ShutSame, ShutCalm DEF Under, Mid, Good, Calm
  <2>3. Now(g, z2, y) /\ z2.close = g.close
    BY <1>4, <2>1 DEF Under, IsStep, Now
  <2>4. Under(h, z2, k)
    BY <1>4, <2>2, <2>3, NowUnder
  <2>5. y.dead = g.x.dead
    BY <1>4, <2>1 DEF ShutEnd, Signal, Under, Mid, Good, IsHalf, Fields
  <2>6. Way(h, z2, k)
    BY <1>4, <2>2, <2>3, <2>5, CalmMild, WayMild DEF Now
  <2> QED
    BY <1>2, <1>4, <2>1, <2>4, <2>6
<1> QED
  BY <1>2, <1>5, StatusEnds, FlushEnds

(* A packet is taken; the end is the last one, and shuts the other end.    *)
LEMMA ReceiveWay ==
  ASSUME IInv, NEW h \in Half, NEW m, NEW k, Reached(h, m, k), m.x.apc # "recv", Way(h, m, k),
         NEW p, Taken(h, k, p), NEW n, n = Receive(h, m, p)
  PROVE  Way(h, n, k + 1) /\ Clear(h, n.x) /\ (p.type = "enqueue" => n.x.apc = "recv")
<1>1. PICK o, c : o = Other(h) /\ o \in Half /\ c = chan[o]
  BY DEF Other, Half
<1>2. /\ Packet(o, p) /\ Packets(o, c) /\ k \in Nat /\ k < Len(c) /\ Len(c) \in Nat /\ p = c[k + 1]
      /\ Closing(o, q[o], c)
  BY <1>1, TakenIs DEF IInv, Taken, Packets
<1>3. k # Len(c) /\ k + 1 \in 1 .. Len(c) /\ (k + 1 < Len(c) \/ k + 1 = Len(c))
  BY <1>2
<1>4. PICK x : /\ x = m.x /\ IsHalf(x) /\ x.apc # "send" /\ x.apc # "recv" /\ o \notin x.shut
               /\ SoFar(h, x, k) /\ Told(h, x, m.sent) /\ (m.close => x.dead)
  BY <1>1, <1>3 DEF Reached, Mid, Good, Due, Way
<1>5. PICK y : /\ y = Handle(h, x, p) /\ n.x = y /\ n.sent = m.sent /\ n.close = m.close
               /\ (p.type # "enqueue" => y.apc # "recv")
  <2>1. IsStep(m) /\ Mid(h, m.x, k, m.sent) /\ Due(h, m.x, k, m.sent) /\ m.fails = {}
        /\ m.x.apc # "send"
    BY DEF Reached
  <2>2. /\ n.x = Handle(h, m.x, p) /\ n.sent = m.sent /\ n.close = m.close
        /\ (p.type # "enqueue" => n.x.apc # "recv")
    BY <2>1, ReceiveStep
  <2> QED
    BY <1>4, <2>2
<1>6. Unheard(o, x, k) /\ (q[o].sentEnd => c[Len(c)].type = EndOf(o))
  BY <1>1, <1>4 DEF SoFar, Unheard
<1>7. CASE p.type \notin Ends
  <2>1. p.type \in Types \ Ends /\ (p.type = "enqueue" => h = "read")
    BY <1>1, <1>2, <1>7 DEF Packet, Other
  <2>2. /\ Firm(h, x, y) /\ Mild(h, x, y) /\ y.dead = x.dead
        /\ p.type = "enqueue" => y.apc = "recv"
    BY <1>4, <1>5, <2>1, HandleFirm
  <2>3. Parted(h, y, terminated) /\ Unheard(o, y, k)
        /\ (h = "write" => Emptied(q["read"], y, terminated))
    BY <1>1, <1>4, <2>2, SoFarMild DEF SoFar
  <2>4. q[o].sentEnd => k + 1 < Len(c)
    <3>1. EndOf(o) \in Ends
      BY DEF EndOf, Ends
    <3> QED
      BY <1>2, <1>3, <1>6, <1>7, <3>1
  <2>5. Unheard(o, y, k + 1)
    BY <1>1, <1>6, <2>4 DEF Unheard
  <2>6. SoFar(h, y, k) /\ SoFar(h, y, k + 1)
    <3>1. SoFar(h, y, k)
      BY <1>4, <2>2, SoFarMild
    <3> QED
      BY <1>1, <2>5, <3>1 DEF SoFar
  <2>7. Clear(h, y)
    BY <1>1, <1>4, <2>2 DEF Clear, Mild
  <2>8. Told(h, y, n.sent)
    BY <1>4, <1>5, <2>2 DEF Told, Mild
  <2> QED
    BY <1>4, <1>5, <2>2, <2>6, <2>7, <2>8 DEF Way
<1>8. CASE p.type \in Ends
  <2>1. p.type = EndOf(o)
    BY <1>2, <1>3, <1>8 DEF Closing
  <2>2. /\ y.apc = x.apc /\ y.sentEnd = x.sentEnd /\ y.shut = x.shut \cup {o} /\ y.data = x.data
        /\ y.eof = x.eof /\ y.term = x.term /\ y.dead = x.dead
    BY <1>1, <1>4, <1>5, <2>1, HandleEnd
  <2>3. Parted(h, y, terminated)
    BY <1>4, <2>2 DEF SoFar, Parted
  <2>4. Unheard(o, y, k + 1)
    BY <2>2 DEF Unheard
  <2>5. h = "write" => Emptied(q["read"], y, terminated)
    BY <1>4, <2>2 DEF SoFar, Emptied
  <2>6. SoFar(h, y, k + 1)
    BY <1>1, <1>4, <2>2, <2>3, <2>4, <2>5 DEF SoFar
  <2>7. Told(h, y, n.sent)
    BY <1>4, <1>5, <2>2 DEF Told
  <2>8. Clear(h, y) /\ p.type # "enqueue"
    BY <1>4, <1>8, <2>2 DEF Clear, Ends
  <2> QED
    BY <1>4, <1>5, <2>2, <2>6, <2>7, <2>8 DEF Way
<1> QED
  BY <1>7, <1>8

LEMMA ReadEnds ==
  ASSUME IInv, EInv, NEW h \in Half, NEW x, Mid(h, x, 0, <<>>), Due(h, x, 0, <<>>), x.apc # "send",
         x.apc # "recv", SoFar(h, x, 0), x.sentEnd = q[h].sentEnd, Read(h, x)
  PROVE  EInv'
<1>1. PICK n, m : /\ Reads(h, x, n, m)
                  /\ \/ m.x.apc = "recv" /\ Act(h, m, n)
                     \/ m.x.apc # "recv" /\ Answer(h, m, n)
  BY DEF Read, Reads
<1>2. PICK f : Reached(h, m, n) /\ Handled(h, f, n) /\ f[0] = Started(x) /\ f[n] = m
  BY <1>1, ReceivedIs
<1>3. PICK c : c = chan[Other(h)] /\ Packets(Other(h), c) /\ Other(h) \in Half /\ Len(c) \in Nat
  BY DEF IInv, DInv, Packets, Half, Other
<1>4. /\ n \in 0 .. Len(c) /\ n \in Nat
      /\ n = Len(c) \/ (n \in 1 .. Len(c) /\ c[n].type = "enqueue")
  BY <1>1, <1>3, UptoIs DEF Reads
<1>5. PICK T : T = {i \in 0 .. n : /\ Way(h, f[i], i) /\ Clear(h, f[i].x)
                                   /\ i \in 1 .. n /\ c[i].type = "enqueue" => f[i].x.apc = "recv"}
  OBVIOUS
<1>6. 0 \in T
  <2>1. PICK z : z = f[0] /\ z.x = x /\ z.sent = <<>> /\ z.close = FALSE
    BY <1>2 DEF Started
  <2>2. chan[h] \o <<>> = chan[h]
    BY NoneYet DEF IInv, DInv
  <2>3. Told(h, x, <<>>)
    BY <2>2 DEF EInv, Said, Told
  <2>4. Way(h, z, 0) /\ Clear(h, z.x)
    BY <2>1, <2>3 DEF Way, Clear
  <2>5. 0 \in 0 .. n /\ 0 \notin 1 .. n
    BY <1>4
  <2> QED
    BY <1>5, <2>1, <2>4, <2>5
<1>7. \A i \in 1 .. n : i - 1 \in T => i \in T
  <2> SUFFICES ASSUME NEW i \in 1 .. n, i - 1 \in T PROVE i \in T
    OBVIOUS
  <2>1. PICK j \in Nat : j = i - 1 /\ j + 1 = i /\ j < Len(c) /\ i \in 0 .. n
    BY <1>3, <1>4
  <2>2. PICK u, v, p : /\ u = f[j] /\ v = f[i] /\ p = c[i] /\ v = Receive(h, u, p)
                       /\ Reached(h, u, j) /\ u.x.apc # "recv"
    BY <1>2, <1>3, <2>1 DEF Handled
  <2>3. Way(h, u, j) /\ Taken(h, j, p)
    BY <1>3, <1>5, <2>1, <2>2 DEF Taken
  <2>4. Way(h, v, j + 1) /\ Clear(h, v.x) /\ (p.type = "enqueue" => v.x.apc = "recv")
    BY <2>2, <2>3, ReceiveWay
  <2> QED
    BY <1>5, <2>1, <2>2, <2>4
<1>8. n \in T
  <2>1. \A i \in 0 .. n : i \in T
    BY <1>4, <1>6, <1>7, Positions
  <2> QED
    BY <1>4, <2>1
<1>9. /\ Way(h, m, n) /\ Clear(h, m.x)
      /\ n \in 1 .. n /\ c[n].type = "enqueue" => m.x.apc = "recv"
  BY <1>2, <1>5, <1>8
<1>10. IsStep(m) /\ Mid(h, m.x, n, m.sent) /\ Due(h, m.x, n, m.sent) /\ m.fails = {}
      /\ m.x.apc # "send"
  BY <1>2 DEF Reached
<1>11. CASE m.x.apc = "recv" /\ Act(h, m, n)
  BY <1>3, <1>4, <1>9, <1>10, <1>11, ActEnds
<1>12. CASE m.x.apc # "recv" /\ Answer(h, m, n)
  <2>1. n = Len(c)
    BY <1>4, <1>9, <1>12
  <2>2. Under(h, m, n)
    BY <1>10, <1>12 DEF Under
  <2> QED
    BY <1>3, <1>9, <1>12, <2>1, <2>2, AnswerEnds
<1> QED
  BY <1>1, <1>11, <1>12

LEMMA ActionWakeEnds ==
  ASSUME IInv, EInv, NEW h \in Half, ActionWake(h)
  PROVE  EInv'
<1>1. PICK P, b : P = q[h].pending \ {"action"} /\ b = terminated[h]
  OBVIOUS
<1>2. PICK x : x = [q[h] EXCEPT !.pending = P, !.term = b]
  OBVIOUS
<1>3. Good(h, q[h]) /\ DInv /\ IsHalf(q[h])
  BY DEF DInv, IInv, Good
<1>4. Same(h, q[h], x) /\ Good(h, x) /\ Firm(h, q[h], x) /\ IsHalf(x)
  <2>1. Elsewhere(q[h], x)
    BY <1>2, <1>3 DEF Elsewhere, Good, IsHalf, Fields, Aside
  <2>2. Firm(h, q[h], x)
    BY <1>2, <1>3 DEF Firm, Pointers, Good, IsHalf, Fields, Holds
  <2> QED
    BY <1>3, <2>1, <2>2, ElsewhereSame DEF Same, Good
<1>5. /\ x.sentEnd = q[h].sentEnd /\ x.shut = q[h].shut /\ x.data = q[h].data
      /\ x.eof = q[h].eof /\ x.term = b /\ x.dead = q[h].dead /\ x.apc = q[h].apc
  BY <1>2, <1>3 DEF IsHalf, Fields
<1>6. Mild(h, q[h], x)
  BY <1>1, <1>5 DEF Mild
<1>7. /\ x.apc = "wait"
      /\ \/ /\ Set(h, [x EXCEPT !.apc = "done"]) /\ UNCHANGED <<chan, sock, terminated>>
            /\ failed' = failed \/ (x.eof /\ x.shut = {})
         \/ /\ x.term /\ Set(h, Ticked(Started(UnlockedShutdown(x))).x)
            /\ sock' = [sock EXCEPT ![h] = "closed"] /\ UNCHANGED <<chan, terminated, failed>>
         \/ Read(h, x)
  BY <1>1, <1>2 DEF ActionWake, Local
<1>8. CASE /\ Set(h, [x EXCEPT !.apc = "done"]) /\ UNCHANGED <<chan, sock, terminated>>
           /\ failed' = failed \/ (x.eof /\ x.shut = {})
  <2>1. PICK y : y = [x EXCEPT !.apc = "done"]
    OBVIOUS
  <2>2. /\ y.sentEnd = x.sentEnd /\ y.shut = x.shut /\ y.data = x.data
        /\ y.eof = x.eof /\ y.term = x.term /\ y.dead = x.dead /\ y.apc = "done"
    BY <1>4, <2>1 DEF IsHalf, Fields
  <2>3. Mild(h, x, y) /\ Clear(h, y)
    BY <2>2 DEF Mild, Clear
  <2>4. Mild(h, q[h], y)
    BY <1>6, <2>3, MildTwice
  <2>5. PICK e : e = sock[h] /\ sock' = [sock EXCEPT ![h] = e]
    BY <1>8 DEF EInv
  <2>6. "eof" \in failed' => "eof" \in failed \/ Halted(terminated)
    BY <1>5, <1>8 DEF EInv, Parted
  <2>7. q' = [q EXCEPT ![h] = y] /\ UNCHANGED <<chan, terminated>>
    BY <1>8, <2>1 DEF Set
  <2> QED
    BY <2>3, <2>4, <2>5, <2>6, <2>7, MildStep
<1>9. CASE /\ x.term /\ Set(h, Ticked(Started(UnlockedShutdown(x))).x)
           /\ sock' = [sock EXCEPT ![h] = "closed"] /\ UNCHANGED <<chan, terminated, failed>>
  <2>1. PICK y : y = UnlockedShutdown(x) /\ Calm(h, x, y) /\ IsHalf(y)
    <3>1. Same(h, x, UnlockedShutdown(x))
      BY <1>4, ShutSame
    <3>2. Calm(h, x, UnlockedShutdown(x))
      BY <1>1, <1>4, <1>5, <1>9, ShutCalm
    <3> QED
      BY <3>1, <3>2 DEF Same, Good
  <2>2. PICK a, g : /\ a = (IF y.dead THEN "done" ELSE "wait")
                    /\ g = (IF y.fpc = "tick" THEN "poll" ELSE y.fpc)
    OBVIOUS
  <2>3. PICK z : z = [y EXCEPT !.apc = a, !.term = FALSE, !.fpc = g]
    OBVIOUS
  <2>4. Ticked(Started(y)).x = z
    BY <2>2, <2>3 DEF Ticked, Started
  <2>5. /\ z.sentEnd = y.sentEnd /\ z.shut = y.shut /\ z.data = y.data
        /\ z.eof = y.eof /\ ~z.term /\ z.dead = y.dead /\ z.apc = a
    BY <2>1, <2>3 DEF IsHalf, Fields
  <2>6. Mild(h, y, z) /\ Clear(h, z)
    BY <2>2, <2>5 DEF Mild, Clear
  <2>7. Mild(h, q[h], z)
    BY <1>6, <2>1, <2>6, CalmMild, MildTwice
  <2>8. q' = [q EXCEPT ![h] = z] /\ Halted(terminated)
    BY <1>1, <1>5, <1>9, <2>1, <2>4 DEF Set, Halted
  <2> QED
    BY <1>9, <2>6, <2>7, <2>8, MildStep
<1>10. CASE Read(h, x)
  <2>1. Mid(h, x, 0, <<>>) /\ Due(h, x, 0, <<>>)
    BY <1>3, <1>4, MidStart, MidSame, DueStart, DueFirm
  <2>2. SoFar(h, x, 0)
    BY <1>6, SoFarStart, SoFarMild
  <2> QED
    BY <1>5, <1>7, <1>10, <2>1, <2>2, ReadEnds
<1> QED
  BY <1>7, <1>8, <1>9, <1>10

LEMMA ReadDataEnds ==
  ASSUME IInv, EInv, NEW h \in Half, ReadData(h)
  PROVE  EInv'
<1>1. q[h].apc = "recv" /\ Read(h, Notify(h, Longer(q[h]), "read"))
  BY DEF ReadData, Longer
<1>2. h = "read" /\ DInv /\ IsHalf(q[h])
  BY <1>1 DEF DInv, IInv, Half, Good, WriteGood
<1>3. PICK y : y = Longer(q["read"]) /\ Mid("read", y, 0, <<>>) /\ y.apc = "read"
               /\ Firm("read", q["read"], y) /\ IsHalf(y)
  BY <1>1, <1>2, MidArrived, WindowFirm
<1>4. PICK z : z = Notify("read", y, "read") /\ Same("read", y, z) /\ Steady(y, z)
  BY <1>3, NotifySame, SignalSteady DEF Mid, Half
<1>5. Firm("read", y, z) /\ Mild("read", y, z)
  BY <1>4, SteadyFirm, CalmMild DEF Half
<1>6. Mid("read", z, 0, <<>>) /\ z.apc # "send" /\ z.apc # "recv"
  BY <1>3, <1>4, MidSame DEF Same, Half
<1>7. Due("read", z, 0, <<>>)
  BY <1>2, <1>3, <1>5, DueStart, DueFirm
<1>8. Mild("read", q["read"], y) /\ y.sentEnd = q["read"].sentEnd
  <2>1. PICK x, I, d, b, r : /\ x = q["read"] /\ IsHalf(x) /\ I = x.inop \ {"write"}
                             /\ d = x.data \o x.win /\ b = x.bytes + Len(x.win)
                             /\ r = [x.req EXCEPT !["write"] = 0]
    BY <1>2
  <2>2. y = [x EXCEPT !.inop = I, !.data = d, !.bytes = b, !.win = <<>>, !.req = r, !.apc = "read"]
    BY <1>3, <2>1 DEF Longer
  <2>3. /\ y.sentEnd = x.sentEnd /\ y.shut = x.shut /\ y.eof = x.eof /\ y.term = x.term
        /\ y.dead = x.dead
    BY <2>1, <2>2 DEF IsHalf, Fields
  <2> QED
    BY <2>1, <2>3 DEF Mild
<1>9. SoFar("read", z, 0) /\ z.sentEnd = q["read"].sentEnd
  <2>1. Mild("read", q["read"], z)
    BY <1>5, <1>8, MildTwice
  <2>2. SoFar("read", q["read"], 0)
    BY SoFarStart DEF Half
  <2> QED
    BY <2>1, <2>2, SoFarMild DEF Half, Mild
<1> QED
  BY <1>1, <1>2, <1>3, <1>4, <1>6, <1>7, <1>9, ReadEnds

LEMMA SentDataEnds ==
  ASSUME IInv, EInv, NEW h \in Half, SentData(h)
  PROVE  EInv'
<1>1. q[h].apc = "send" /\ Flush(Started(Notify(h, Shorter(q[h]), "write")), 0)
  BY DEF SentData, Shorter
<1>2. h = "write" /\ DInv /\ IsHalf(q[h])
  BY <1>1 DEF DInv, IInv, Half, Good, ReadGood
<1>3. PICK y : y = Shorter(q["write"]) /\ Mid("write", y, 0, <<>>) /\ y.apc = "read"
               /\ Firm("write", q["write"], y) /\ IsHalf(y)
  BY <1>1, <1>2, MidSent, WindowFirm
<1>4. PICK z : z = Notify("write", y, "write") /\ Same("write", y, z) /\ Steady(y, z)
  BY <1>3, NotifySame, SignalSteady DEF Mid, Half
<1>5. Firm("write", y, z) /\ Mild("write", y, z)
  BY <1>4, SteadyFirm, CalmMild DEF Half
<1>6. Mid("write", z, 0, <<>>) /\ z.apc # "send" /\ z.apc # "recv"
  BY <1>3, <1>4, MidSame DEF Same, Half
<1>7. Due("write", z, 0, <<>>)
  BY <1>2, <1>3, <1>5, DueStart, DueFirm
<1>8. Under("write", Started(z), 0)
  BY <1>6, <1>7, StartedIs DEF Under
<1>9. Mild("write", q["write"], y)
  <2>1. PICK x, J, e, b : /\ x = q["write"] /\ IsHalf(x) /\ J = x.inop \ {"read"}
                          /\ e = SubSeq(x.data, Len(x.win) + 1, Len(x.data))
                          /\ b = x.bytes + Len(x.win)
    BY <1>2
  <2>2. y = [x EXCEPT !.inop = J, !.win = <<>>, !.bytes = b, !.data = e, !.apc = "read"]
    BY <1>3, <2>1 DEF Shorter
  <2>3. /\ y.sentEnd = x.sentEnd /\ y.shut = x.shut /\ y.eof = x.eof /\ y.term = x.term
        /\ y.dead = x.dead /\ y.data = e
    BY <2>1, <2>2 DEF IsHalf, Fields
  <2>4. x.data = <<>> => e = <<>>
    <3>1. x.data = <<>> => Len(x.win) = 0
      <4>1. Len(x.win) \in Nat /\ Len(x.win) <= Len(x.data)
        BY <1>1, <1>2, <2>1 DEF DInv, Good, Sizes, WriteGood
      <4>2. Len(<<>>) = 0
        OBVIOUS
      <4> QED
        BY <4>1, <4>2
    <3>2. SubSeq(<<>>, 0 + 1, Len(<<>>)) = <<>>
      OBVIOUS
    <3> QED
      BY <2>1, <3>1, <3>2
  <2> QED
    BY <2>1, <2>3, <2>4 DEF Mild
<1>10. Way("write", Started(z), 0)
  <2>1. Mild("write", q["write"], z)
    BY <1>5, <1>9, MildTwice
  <2>2. SoFar("write", z, 0)
    BY <2>1, SoFarStart, SoFarMild DEF Half
  <2>3. chan["write"] \o <<>> = chan["write"]
    BY NoneYet DEF IInv, DInv, Half
  <2>4. Told("write", z, <<>>)
    BY <2>1, <2>3 DEF EInv, Said, Told, Mild, Half
  <2>5. Started(z).x = z /\ Started(z).sent = <<>> /\ ~Started(z).close
    BY DEF Started
  <2> QED
    BY <2>2, <2>4, <2>5 DEF Way
<1> QED
  BY <1>1, <1>2, <1>3, <1>4, <1>8, <1>10, FlushEnds

(* The peer closes its socket when it has read all that is sent, or a      *)
(* kernel terminates.                                                      *)
LEMMA SocketErrorEnds ==
  ASSUME IInv, EInv, NEW h \in Half, SocketError(h)
  PROVE  EInv'
<1>1. PICK x : x = q[h] /\ IsHalf(x)
  BY DEF DInv, IInv, Good
<1>2. PICK y : y = (IF x.shut # {} THEN Signal(x) ELSE x) /\ Steady(x, y) /\ IsHalf(y)
  <2>1. Steady(x, x) /\ Steady(x, Signal(x))
    BY <1>1, SignalSteady DEF Steady
  <2> QED
    BY <2>1 DEF Steady
<1> PICK z : z = [y EXCEPT !.dead = TRUE]
  OBVIOUS
<1>3. PICK a, g : /\ z = [y EXCEPT !.dead = TRUE]
                  /\ a = (IF z.dead THEN "done" ELSE "wait")
                  /\ g = (IF z.fpc = "tick" THEN "poll" ELSE z.fpc)
  OBVIOUS
<1>4. PICK v : v = [z EXCEPT !.apc = a, !.term = FALSE, !.fpc = g]
  OBVIOUS
<1>5. Ticked(Started(z)).x = v
  BY <1>3, <1>4 DEF Ticked, Started
<1>6. /\ v.sentEnd = y.sentEnd /\ v.shut = y.shut /\ v.data = y.data /\ v.eof = y.eof
      /\ ~v.term /\ v.apc = a
  BY <1>2, <1>3, <1>4 DEF IsHalf, Fields
<1>7. Halted(terminated)
  <2>1. PICK o : o = Other(h) /\ o \in Half /\ Other(o) = h
    BY DEF Other, Half
  <2>2. sock[o] = "closed" /\ chan[h] # <<>>
    BY <2>1 DEF SocketError
  <2>3. Socket(q[o], sock[o], terminated) /\ Parted(o, q[o], terminated)
    BY <2>1 DEF EInv
  <2>4. Heard(h, q[h], q[o], chan[h])
    BY <2>1 DEF IInv
  <2> QED
    BY <2>1, <2>2, <2>3, <2>4 DEF Socket, Parted, Heard
<1>8. Mild(h, x, v) /\ Clear(h, v)
  BY <1>2, <1>3, <1>6, <1>7 DEF Mild, Steady, Clear
<1>9. /\ q' = [q EXCEPT ![h] = v] /\ sock' = [sock EXCEPT ![h] = "closed"]
      /\ UNCHANGED <<chan, terminated>> /\ failed' = failed
  BY <1>1, <1>2, <1>3, <1>5 DEF SocketError, Set
<1> QED
  BY <1>1, <1>7, <1>8, <1>9, MildStep

LEMMA TerminateEnds ==
  ASSUME IInv, EInv, NEW h \in Half, Terminate(h)
  PROVE  EInv'
<1>1. PICK t, u : t = terminated /\ u = terminated' /\ u = [t EXCEPT ![h] = TRUE]
                  /\ t = [g \in Half |-> t[g]]
  BY DEF Terminate, EInv
<1>2. u = [g \in Half |-> u[g]] /\ u[h] /\ \A g \in Half : t[g] => u[g]
  BY <1>1
<1>3. Halted(u)
  BY <1>2 DEF Halted
<1>4. \A g \in Half : /\ Said(g, q[g], q[Other(g)], chan[g]) /\ Parted(g, q[g], t) /\ Clear(g, q[g])
  BY <1>1 DEF EInv
<1>5. \A g \in Half : Parted(g, q[g], u) /\ Socket(q[g], sock[g], u)
  BY <1>2, <1>3, <1>4 DEF Parted, Socket
<1>6. Emptied(q["read"], q["write"], t)
  BY <1>1 DEF EInv
<1>7. Emptied(q["read"], q["write"], u)
  BY <1>2, <1>6 DEF Emptied, Half
<1>8. UNCHANGED <<q, chan, sock>> /\ sock = [g \in Half |-> sock[g]]
  BY DEF Terminate, EInv
<1> QED
  BY <1>1, <1>2, <1>3, <1>4, <1>5, <1>7, <1>8, ZenonT(40) DEF EInv

LEMMA DestroyEnds ==
  ASSUME IInv, EInv, NEW h \in Half, Destroy(h)
  PROVE  EInv'
<1>1. PICK t : t = terminated /\ terminated' = t
  BY DEF Destroy
<1>2. UNCHANGED <<q, chan, failed>> /\ sock' = [sock EXCEPT ![h] = "closed"] /\ q[h].dead
  BY DEF Destroy
<1>3. /\ sock' = [g \in Half |-> sock'[g]] /\ sock'[h] = "closed"
      /\ \A g \in Half : g # h => sock'[g] = sock[g]
  BY <1>2 DEF EInv
<1>4. Parted(h, q[h], t)
  BY <1>1 DEF EInv
<1>5. Socket(q[h], "closed", t)
  BY <1>2, <1>4 DEF Socket, Parted
<1>6. \A g \in Half : Socket(q[g], sock'[g], t)
  BY <1>1, <1>3, <1>5 DEF EInv
<1> QED
  BY <1>1, <1>2, <1>3, <1>6 DEF EInv

LEMMA InitEnds ==
  ASSUME Init
  PROVE  EInv
<1>1. \A h \in Half : /\ ~q[h].sentEnd /\ ~q[h].dead /\ ~q[h].eof /\ ~q[h].term /\ q[h].shut = {}
                      /\ q[h].apc = "wait"
  BY DEF Init, InitHalf
<1>2. \A h \in Half : /\ Said(h, q[h], q[Other(h)], chan[h]) /\ Parted(h, q[h], terminated)
                      /\ Clear(h, q[h])
  BY <1>1 DEF Said, Parted, Clear
<1>3. Emptied(q["read"], q["write"], terminated)
  BY <1>1 DEF Emptied, Half
<1>4. /\ sock = [h \in Half |-> sock[h]] /\ terminated = [h \in Half |-> terminated[h]]
      /\ failed = {} /\ \A h \in Half : sock[h] = "open"
  BY DEF Init
<1>5. \A h \in Half : Socket(q[h], sock[h], terminated)
  BY <1>4 DEF Socket
<1> QED
  BY <1>2, <1>3, <1>4, <1>5 DEF EInv

LEMMA NextEnds ==
  ASSUME IInv, EInv, [Next]_vars
  PROVE  EInv'
<1>1. \A h \in Half : IsHalf(q[h]) /\ Pointers(h, q[h])
  BY DEF DInv, IInv, Good
<1>2. ASSUME NEW h \in Half, Keeps(h), Local PROVE EInv'
  BY <1>2, KeepsEnds DEF Local
<1>3. ASSUME NEW h \in Half, Call(h) PROVE EInv'
  BY <1>1, <1>2, <1>3, CallKeeps DEF Call
<1>4. ASSUME NEW h \in Half, Grow(h) PROVE EInv'
  BY <1>1, <1>2, <1>4, GrowKeeps DEF Grow
<1>5. ASSUME NEW h \in Half, Loop(h) PROVE EInv'
  BY <1>1, <1>2, <1>5, LoopKeeps DEF Loop
<1>6. ASSUME NEW h \in Half, GrowWaited(h) PROVE EInv'
  <2>1. Keeps(h)
    BY <1>1, <1>6, GrowWaitedKeeps DEF IInv, DInv
  <2> QED
    BY <1>2, <1>6, <2>1 DEF GrowWaited
<1>7. ASSUME NEW h \in Half, Wakeup(h) PROVE EInv'
  BY <1>1, <1>2, <1>7, WakeupKeeps DEF Wakeup
<1>8. ASSUME NEW h \in Half, TagChange(h) PROVE EInv'
  BY <1>1, <1>2, <1>8, TagChangeKeeps DEF TagChange
<1>9. ASSUME NEW h \in Half, SignalTagChanged(h) PROVE EInv'
  BY <1>1, <1>2, <1>9, SignalTagChangedKeeps DEF SignalTagChanged
<1>10. ASSUME NEW h \in Half, NEW n \in 1 .. MaxItems, GiveBack(h, n) PROVE EInv'
  <2>1. Keeps(h)
    BY <1>1, <1>10, GiveBackKeeps
  <2> QED
    BY <1>2, <1>10, <2>1 DEF GiveBack
<1>11. ASSUME NEW h \in Half, Shutdown(h) PROVE EInv'
  BY <1>1, <1>2, <1>11, ShutdownKeeps DEF Shutdown
<1>12. ASSUME NEW h \in Half, Action(h) PROVE EInv'
  BY <1>12, ActionWakeEnds, ReadDataEnds, SentDataEnds, SocketErrorEnds DEF Action
<1>13. ASSUME NEW h \in Half, File(h) PROVE EInv'
  BY <1>1, <1>2, <1>13, FileKeeps DEF File, FilePoll, FileEnd
<1>14. ASSUME NEW h \in Half, ForcedShutdown(h) PROVE EInv'
  BY <1>1, <1>2, <1>14, ForcedShutdownKeeps DEF ForcedShutdown
<1>15. CASE Detect
  BY <1>1, <1>2, <1>15, DetectKeeps DEF Half, Detect
<1>16. CASE UNCHANGED vars \/ Ended
  <2>1. UNCHANGED <<q, chan, sock, terminated, failed>>
    BY <1>16 DEF Ended, vars
  <2> QED
    BY <2>1 DEF EInv
<1> QED
  BY <1>3, <1>4, <1>5, <1>6, <1>7, <1>8, <1>9, <1>10, <1>11, <1>12, <1>13, <1>14, <1>15, <1>16,
     TerminateEnds, DestroyEnds DEF Next, Node

(* An end that has been sent is heard or is the last thing on its way; a   *)
(* half is dead, and its socket shut, only when the ends have been told or *)
(* a kernel terminates; the writer's half ends with nothing left to send,  *)
(* unless on account of the reader or of its kernel.                       *)
THEOREM EndInvariance == Spec => [](IInv /\ EInv)
<1>1. Init => IInv /\ EInv
  BY InitHolds, InitEnds
<1>2. IInv /\ EInv /\ [Next]_vars => IInv' /\ EInv'
  BY NextKeeps, NextEnds
<1> QED
  BY <1>1, <1>2, PTL DEF Spec

(* The reader's half learns that the writing has ended after the last byte *)
(* written (InternalCheckStatus sends the end when the data is out), unless*)
(* the reader has left or the writer's kernel terminates; and a socket     *)
(* that ends before the peer has said so, where the code has an ASSERT and *)
(* says that it /should/ never get there, is met only when a kernel        *)
(* terminates.                                                             *)
THEOREM EndsAfterData == Spec => []EndAfterData
<1>1. IInv /\ EInv => EndAfterData
  <2> SUFFICES ASSUME IInv, EInv PROVE EndAfterData
    OBVIOUS
  <2>1. PICK r, w, s : /\ r = q["read"] /\ w = q["write"] /\ s = chan["write"]
                       /\ Good("read", r) /\ Good("write", w) /\ Packets("write", s)
                       /\ Order(r, w, s, 0, out, written) /\ written \in Nat
                       /\ Len(out) \in Nat /\ Heard("write", w, r, s)
                       /\ Clear("read", r) /\ Emptied(r, w, terminated)
    BY DEF IInv, DInv, EInv, Half, Other
  <2>2. "eof" \in failed => \E h \in Half : terminated[h]
    BY DEF EInv, Halted
  <2>3. ASSUME "write" \in r.shut, "read" \notin r.shut, ~terminated["write"]
        PROVE  Len(out) + Len(r.data) = written
    <3>1. s = <<>> /\ w.sentEnd
      BY <2>1, <2>3 DEF Heard
    <3>2. w.data = <<>>
      BY <2>1, <2>3, <3>1 DEF Emptied
    <3>3. r.win = <<>>
      BY <2>1, <2>3 DEF Clear, Good, ReadGood, Other
    <3>4. Len(<<>>) = 0
      OBVIOUS
    <3>5. Sending(w) = 0
      <4>1. w.apc = "send" => Len(w.win) \in Nat /\ Len(w.win) <= 0
        BY <2>1, <3>2, <3>4 DEF Good, WriteGood, Sizes
      <4> QED
        BY <4>1 DEF Sending
    <3>6. Rest(s, 0, "enqueue") = 0
      <4>1. Sums(s, "enqueue")[0] = 0
        BY <2>1, SumsAre DEF Half
      <4> QED
        BY <3>1, <3>4, <4>1 DEF Rest, Sum
    <3>7. PICK a \in Nat, b \in Nat : a = Len(out) /\ b = Len(r.data)
      BY <2>1 DEF Good, Sizes
    <3>8. Base(r, out) + 0 = written - 0 + 0
      BY <2>1, <3>2, <3>4, <3>5, <3>6 DEF Order
    <3>9. Base(r, out) = a + b + 0
      BY <3>3, <3>4, <3>7 DEF Base
    <3> QED
      BY <2>1, <3>7, <3>8, <3>9
  <2> QED
    BY <2>1, <2>2, <2>3 DEF EndAfterData
<1> QED
  BY <1>1, EndInvariance, PTL
============================================================================
