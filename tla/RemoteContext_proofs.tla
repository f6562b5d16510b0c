------------------------ MODULE RemoteContext_proofs ------------------------
(***************************************************************************)
(* Proofs about module RemoteContext, for every set of processes, threads  *)
(* and programs, and whichever processes crash: a reply finds its caller's *)
(* entry, a wait that returns has seen what it waited for, and no notice   *)
(* slips between the question and the wait.                                *)
(***************************************************************************)
EXTENDS RemoteContext, SequenceTheorems, WellFoundedInduction, NaturalsInduction, TLAPS

---------------------------------------------------------------------------
(* Types.                                                                  *)
AskOps == CallOps \cup WaitOps
Kinds == {"none", "kernel", "node"} \cup Name
MsgTypes == {"none", "reply", "broadcast", "terminate", "eof", "kernel"}
Flags == {"live", "started", "dead"}
Known(S) == UNION {[D -> S] : D \in SUBSET Name}

Req == [type : Ops \cup {"eof"}, id : Nat, name : Name, of : Name]
Msg == [type : MsgTypes, id : Nat, ok : BOOLEAN, kind : Kinds, name : Name,
        flags : SUBSET Flags, live : Int]

ClientState ==
  [shutdown : BOOLEAN, tran : Nat, kernels : SUBSET Name, calls : SUBSET (Nat \X Thread),
   endwrite : BOOLEAN, term : BOOLEAN, running : SUBSET Name, told : SUBSET Name,
   got : SUBSET Name, crashed : BOOLEAN]
ThreadState ==
  [pc : Nat, st : {"ready", "call", "wait"}, id : Nat, waiter : BOOLEAN,
   signaled : BOOLEAN, msg : Msg, box : Seq(Msg), sig : BOOLEAN]
KernelInfo == [client : Client, flags : SUBSET {"live"}]
NodeInfo == SUBSET {"started", "dead"}
ServerState ==
  [shutdown : BOOLEAN, accepted : SUBSET Client, clients : SUBSET Client,
   closed : SUBSET Client, kernels : Known(KernelInfo),
   nodes : Known(NodeInfo), ends : Known(Name), live : Int]

TypeOK ==
  /\ cl \in [Client -> ClientState] /\ th \in [Thread -> ThreadState]
  /\ up \in [Client -> Seq(Req)] /\ down \in [Client -> Seq(Msg)]
  /\ srv \in ServerState

---------------------------------------------------------------------------
(* A thread inside an operation is at a step that asks the server, in a    *)
(* process that lives; after a shutdown it has been signalled; and the     *)
(* call it waits in has been answered or is in the map of calls.           *)
InOperation(t) ==
  LET c == Home[t]
      x == th[t]
  IN  /\ x.pc >= 1
      /\ cl[c].crashed => Ended(t)
      /\ x.st = "ready" => ~x.waiter /\ ~x.signaled
      /\ x.st # "ready" =>
           /\ ~Ended(t) /\ StepOf(t).op \in AskOps
           /\ x.waiter <=> StepOf(t).op \in WaitOps
           /\ ~cl[c].endwrite
           /\ cl[c].shutdown => x.sig
      /\ x.st = "wait" => StepOf(t).op \in WaitOps
      /\ x.st = "call" => /\ x.id \in 1 .. cl[c].tran
                          /\ ~x.signaled <=> <<x.id, t>> \in cl[c].calls

(* The messages in a queue, and that no number is in it twice.             *)
Elems(s) == {s[i] : i \in DOMAIN s}
Distinct(s) == \A i, j \in DOMAIN s : i # j /\ s[i].id # 0 => s[i].id # s[j].id

(* A number stands for one call: it is in a request on its way to the      *)
(* server, then in a reply on its way back, never in two messages at once; *)
(* all the while it is in the map of calls, and the thread that waits with *)
(* it waits for just this.                                                 *)
Called(c, n) == n # 0 /\ n <= cl[c].tran /\ \E t \in Thread : <<n, t>> \in cl[c].calls
Own(c) == \A e \in cl[c].calls : Home[e[2]] = c
Requests(c) ==
  \A r \in Elems(up[c]) :
    /\ r.type \in AskOps => r.id # 0
    /\ r.id # 0 => Called(c, r.id)
    /\ \A t \in Thread : Home[t] = c /\ th[t].st = "call" /\ th[t].id = r.id =>
         ~th[t].signaled /\ r.type = StepOf(t).op /\ r.name = StepOf(t).name
Replies(c) ==
  \A m \in Elems(down[c]) :
    /\ m.type # "reply" => m.id = 0
    /\ m.type = "reply" => Called(c, m.id) /\ \A r \in Elems(up[c]) : r.id # m.id
Numbered(c) ==
  ~cl[c].crashed =>
    Own(c) /\ Requests(c) /\ Replies(c) /\ Distinct(up[c]) /\ Distinct(down[c])

(* The connections of the server.  A process that has not been accepted    *)
(* has all its requests still before it.                                   *)
Connections ==
  /\ srv.closed \subseteq srv.accepted /\ srv.accepted \ srv.closed \subseteq srv.clients
  /\ srv.clients \subseteq srv.accepted

InRequest(t) ==
  /\ th[t].st = "call" /\ ~th[t].signaled
  /\ \E r \in Elems(up[Home[t]]) : r.id = th[t].id
Unread(t) == Home[t] \notin srv.accepted /\ th[t].st # "ready" => InRequest(t)
Finished(c) == cl[c].endwrite => Idle(c) /\ cl[c].kernels = {}
Silent(c) == cl[c].crashed => down[c] = <<>>
NotHeard(c) == c \notin srv.accepted => \A m \in Elems(down[c]) : m.type = "eof"

(* Once the server has terminated, every process it is connected to has    *)
(* been told, or will be.                                                  *)
EndTold(c) ==
  srv.shutdown /\ c \in srv.accepted \ srv.closed /\ ~cl[c].crashed =>
    cl[c].shutdown \/ \E m \in Elems(down[c]) : m.type = "terminate"

(* Where the notice of what a thread waits for is, from the question to    *)
(* the end of the wait: in the request not yet answered, the reply on its  *)
(* way, the reply received, the box of the waiter, or a broadcast.         *)
InReply(t) ==
  /\ th[t].st = "call" /\ ~th[t].signaled
  /\ \E m \in Elems(down[Home[t]]) :
       m.type = "reply" /\ m.id = th[t].id /\ Wanted(StepOf(t), m)
InCall(t) == th[t].st = "call" /\ th[t].signaled /\ Wanted(StepOf(t), th[t].msg)
InBox(t) ==
  /\ th[t].st = "wait" => th[t].sig
  /\ \E m \in Elems(th[t].box) : Wanted(StepOf(t), m)
InBroadcast(t) ==
  \E m \in Elems(down[Home[t]]) :
    m.type = "terminate" \/ (m.type = "broadcast" /\ Wanted(StepOf(t), m))
Notice(t) ==
  \/ InRequest(t) \/ InReply(t) \/ InCall(t) \/ InBox(t) \/ InBroadcast(t)
  \/ cl[Home[t]].shutdown

Waits(t) == th[t].st # "ready" /\ StepOf(t).op \in WaitOps
Noticed(t) == Waits(t) /\ Home[t] \notin srv.closed /\ Happened(StepOf(t)) => Notice(t)

(* A message that says that a node has started or ended says the truth.    *)
Truth(m) ==
  m.kind = "node" /\ m.flags # {} =>
    m.name \in DOMAIN srv.nodes /\ m.flags \subseteq srv.nodes[m.name]
Truthful(t) == Truth(th[t].msg) /\ \A m \in Elems(th[t].box) : Truth(m)
Sincere(c) == \A m \in Elems(down[c]) : Truth(m)

Shape == \A t \in Thread : InOperation(t)
ThreadInv(t) == InOperation(t) /\ Unread(t) /\ Noticed(t) /\ Truthful(t)
ClientInv(c) ==
  /\ Numbered(c) /\ Finished(c) /\ Silent(c) /\ NotHeard(c) /\ EndTold(c) /\ Sincere(c)

(* A reply finds the entry of its call in the map of calls.                *)
NoStrayReply == "reply" \notin failed

IInv == /\ TypeOK /\ Connections /\ NoStrayReply
        /\ (\A t \in Thread : ThreadInv(t)) /\ (\A c \in Client : ClientInv(c))

---------------------------------------------------------------------------
(* Facts about sequences of messages.                                      *)
LEMMA ElemsTail ==
  ASSUME NEW S, NEW s \in Seq(S), s # <<>>
  PROVE  /\ Tail(s) \in Seq(S) /\ Head(s) \in S /\ Head(s) \in Elems(s)
         /\ Elems(s) = {Head(s)} \cup Elems(Tail(s))
         /\ Distinct(s) => /\ Distinct(Tail(s))
                           /\ \A m \in Elems(Tail(s)) : m.id # 0 => m.id # Head(s).id
<1>1. PICK n \in Nat \ {0} : n = Len(s) /\ DOMAIN s = 1 .. n
  BY HeadTailProperties, LenProperties
<1>2. /\ Tail(s) \in Seq(S) /\ DOMAIN Tail(s) = 1 .. n - 1
      /\ \A i \in 1 .. n - 1 : Tail(s)[i] = s[i + 1]
      /\ Head(s) = s[1] /\ Head(s) \in S
  BY <1>1, HeadTailProperties, LenProperties
<1>3. Head(s) \in Elems(s)
  BY <1>1, <1>2 DEF Elems
<1>4. Elems(s) = {Head(s)} \cup Elems(Tail(s))
  <2>1. ASSUME NEW m \in Elems(s), m # Head(s) PROVE m \in Elems(Tail(s))
    <3>1. PICK i \in 1 .. n : m = s[i]
      BY <1>1 DEF Elems
    <3>2. i # 1 /\ i - 1 \in 1 .. n - 1 /\ Tail(s)[i - 1] = s[i]
      BY <1>2, <2>1, <3>1
    <3> QED
      BY <1>2, <3>1, <3>2 DEF Elems
  <2>2. ASSUME NEW m \in Elems(Tail(s)) PROVE m \in Elems(s)
    <3>1. PICK i \in 1 .. n - 1 : m = Tail(s)[i]
      BY <1>2 DEF Elems
    <3>2. i + 1 \in 1 .. n /\ m = s[i + 1]
      BY <1>2, <3>1
    <3> QED
      BY <1>1, <3>2 DEF Elems
  <2> QED
    BY <1>3, <2>1, <2>2
<1>5. ASSUME Distinct(s)
      PROVE  /\ Distinct(Tail(s))
             /\ \A m \in Elems(Tail(s)) : m.id # 0 => m.id # Head(s).id
  <2>1. ASSUME NEW i \in 1 .. n - 1, NEW j \in 1 .. n - 1, i # j, Tail(s)[i].id # 0
        PROVE  Tail(s)[i].id # Tail(s)[j].id
    <3>1. i + 1 \in 1 .. n /\ j + 1 \in 1 .. n /\ i + 1 # j + 1
      BY <2>1
    <3> QED
      BY <1>1, <1>2, <1>5, <2>1, <3>1 DEF Distinct
  <2>2. ASSUME NEW m \in Elems(Tail(s)), m.id # 0 PROVE m.id # Head(s).id
    <3>1. PICK i \in 1 .. n - 1 : m = Tail(s)[i]
      BY <1>2 DEF Elems
    <3>2. i + 1 \in 1 .. n /\ 1 \in 1 .. n /\ i + 1 # 1 /\ m = s[i + 1]
      BY <1>2, <3>1
    <3> QED
      BY <1>1, <1>2, <1>5, <2>2, <3>2 DEF Distinct
  <2> QED
    BY <1>2, <2>1, <2>2 DEF Distinct
<1> QED
  BY <1>2, <1>3, <1>4, <1>5

LEMMA ElemsConcat ==
  ASSUME NEW S, NEW s \in Seq(S), NEW u \in Seq(S)
  PROVE  /\ s \o u \in Seq(S) /\ Elems(s \o u) = Elems(s) \cup Elems(u)
         /\ /\ Distinct(s) /\ Distinct(u)
            /\ \A m \in Elems(s), k \in Elems(u) : m.id # 0 => m.id # k.id
            => Distinct(s \o u)
<1>1. PICK n \in Nat : n = Len(s) /\ DOMAIN s = 1 .. n
  BY LenProperties
<1>2. PICK k \in Nat : k = Len(u) /\ DOMAIN u = 1 .. k
  BY LenProperties
<1>3. /\ s \o u \in Seq(S) /\ DOMAIN (s \o u) = 1 .. n + k
      /\ \A i \in 1 .. n + k : (s \o u)[i] = IF i <= n THEN s[i] ELSE u[i - n]
  BY <1>1, <1>2, ConcatProperties, LenProperties
<1> DEFINE v == s \o u
<1>4. \A i \in 1 .. n : i \in 1 .. n + k /\ v[i] = s[i]
  BY <1>3
<1>5. \A i \in 1 .. k : i + n \in 1 .. n + k /\ v[i + n] = u[i]
  BY <1>3
<1>6. \A i \in 1 .. n + k : \/ i \in 1 .. n /\ v[i] = s[i]
                            \/ i - n \in 1 .. k /\ v[i] = u[i - n]
  BY <1>3
<1> HIDE DEF v
<1>7. Elems(v) = Elems(s) \cup Elems(u)
  <2>1. DOMAIN v = 1 .. n + k
    BY <1>3 DEF v
  <2>2. ASSUME NEW m \in Elems(v) PROVE m \in Elems(s) \cup Elems(u)
    BY <1>1, <1>2, <1>6, <2>1 DEF Elems
  <2>3. ASSUME NEW m \in Elems(s) PROVE m \in Elems(v)
    BY <1>1, <1>4, <2>1 DEF Elems
  <2>4. ASSUME NEW m \in Elems(u) PROVE m \in Elems(v)
    BY <1>2, <1>5, <2>1 DEF Elems
  <2> QED
    BY <2>2, <2>3, <2>4
<1>8. ASSUME Distinct(s), Distinct(u),
             \A m \in Elems(s), l \in Elems(u) : m.id # 0 => m.id # l.id
      PROVE  Distinct(v)
  <2> SUFFICES ASSUME NEW i \in 1 .. n + k, NEW j \in 1 .. n + k, i # j, v[i].id # 0
               PROVE  v[i].id # v[j].id
    BY <1>3 DEF Distinct, v
  <2>1. CASE i \in 1 .. n /\ j \in 1 .. n
    BY <1>1, <1>4, <1>8, <2>1 DEF Distinct
  <2>2. CASE i - n \in 1 .. k /\ j - n \in 1 .. k /\ ~(i \in 1 .. n) /\ ~(j \in 1 .. n)
    <3>1. v[i] = u[i - n] /\ v[j] = u[j - n] /\ i - n # j - n
      BY <1>6, <2>2
    <3> QED
      BY <1>2, <1>8, <2>2, <3>1 DEF Distinct
  <2>3. CASE i \in 1 .. n /\ ~(j \in 1 .. n)
    <3>1. s[i] \in Elems(s) /\ j - n \in 1 .. k /\ v[j] = u[j - n]
      BY <1>1, <1>6, <2>3 DEF Elems
    <3>2. u[j - n] \in Elems(u)
      BY <1>2, <3>1 DEF Elems
    <3> QED
      BY <1>4, <1>8, <2>3, <3>1, <3>2
  <2>4. CASE j \in 1 .. n /\ ~(i \in 1 .. n)
    <3>1. s[j] \in Elems(s) /\ i - n \in 1 .. k /\ v[i] = u[i - n]
      BY <1>1, <1>6, <2>4 DEF Elems
    <3>2. u[i - n] \in Elems(u)
      BY <1>2, <3>1 DEF Elems
    <3> QED
      BY <1>4, <1>8, <2>4, <3>1, <3>2
  <2> QED
    BY <1>6, <2>1, <2>2, <2>3, <2>4
<1> QED
  BY <1>3, <1>7, <1>8 DEF v

LEMMA ElemsShort ==
  /\ Elems(<<>>) = {} /\ Distinct(<<>>)
  /\ \A a : Elems(<<a>>) = {a} /\ Distinct(<<a>>)
  /\ \A a, b : Elems(<<a, b>>) = {a, b} /\ (a.id = 0 /\ b.id = 0 => Distinct(<<a, b>>))
BY DEF Elems, Distinct

LEMMA ElemsAppend ==
  ASSUME NEW S, NEW s \in Seq(S), NEW e \in S
  PROVE  /\ Append(s, e) \in Seq(S) /\ Elems(Append(s, e)) = Elems(s) \cup {e}
         /\ Distinct(s) /\ (\A m \in Elems(s) : m.id # 0 => m.id # e.id)
              => Distinct(Append(s, e))
<1>0. <<e>> \in Seq(S)
  OBVIOUS
<1>1. PICK u \in Seq(S) : u = <<e>>
  BY <1>0
<1>2. Elems(u) = {e} /\ Distinct(u)
  BY <1>1, ElemsShort
<1>3. Append(s, e) = s \o u
  BY <1>1, AppendIsConcat
<1>4. /\ s \o u \in Seq(S) /\ Elems(s \o u) = Elems(s) \cup Elems(u)
      /\ /\ Distinct(s) /\ Distinct(u)
         /\ \A m \in Elems(s), k \in Elems(u) : m.id # 0 => m.id # k.id
         => Distinct(s \o u)
  BY ElemsConcat
<1> QED
  BY <1>2, <1>3, <1>4

(* A set of numbers has a least one.                                       *)
LEMMA Least ==
  ASSUME NEW T, T \subseteq Nat, T # {}
  PROVE  \E i \in T : \A j \in T : i <= j
<1>1. PICK R : R = {ss \in Nat \X Nat : ss[1] < ss[2]} /\ IsWellFoundedOn(R, Nat)
  BY NatLessThanWellFounded DEF OpToRel
<1>2. PICK x \in T : \A y \in T : ~(<<y, x>> \in R)
  BY <1>1, WFMin
<1>3. \A y \in T : ~(y < x)
  BY <1>2, <1>1
<1> QED
  BY <1>3

---------------------------------------------------------------------------
(* Facts about steps and records.                                          *)
LEMMA HomeFact == ASSUME NEW t \in Thread PROVE Home[t] \in Client
BY ProgramAssumption

LEMMA ProgramFact ==
  ASSUME NEW t \in Thread
  PROVE  Len(Program[t]) \in Nat /\ DOMAIN Program[t] = 1 .. Len(Program[t])
<1>1. Program[t] \in Seq([op : Ops, name : Name, of : Name])
  BY ProgramAssumption
<1> QED
  BY <1>1, LenProperties

LEMMA StepFacts ==
  ASSUME TypeOK, Shape, NEW t \in Thread, ~Ended(t)
  PROVE  StepOf(t).op \in Ops /\ StepOf(t).name \in Name /\ StepOf(t).of \in Name
<1>1. PICK n \in Nat : n = th[t].pc /\ n >= 1
  BY DEF TypeOK, ThreadState, Shape, InOperation
<1>2. Program[t] \in Seq([op : Ops, name : Name, of : Name])
  BY ProgramAssumption
<1>3. PICK k \in Nat : k = Len(Program[t])
  BY ProgramFact
<1>4. n \in 1 .. k
  BY <1>1, <1>3 DEF Ended
<1>5. StepOf(t) \in [op : Ops, name : Name, of : Name]
  BY <1>1, <1>2, <1>3, <1>4, ElementOfSeq DEF StepOf
<1> QED
  BY <1>5

(* Messages and requests as they are made.                                 *)
LEMMA MsgFacts ==
  ASSUME NEW a \in MsgTypes, NEW i \in Nat, NEW o \in BOOLEAN, NEW k \in Kinds,
         NEW n \in Name, NEW F \in SUBSET Flags, NEW l \in Int
  PROVE  LET m == [type |-> a, id |-> i, ok |-> o, kind |-> k, name |-> n,
                   flags |-> F, live |-> l] IN
         /\ m \in Msg /\ m.type = a /\ m.id = i /\ m.kind = k /\ m.name = n
         /\ m.flags = F /\ m.live = l
BY DEF Msg

LEMMA NoteFacts ==
  ASSUME NEW a \in MsgTypes
  PROVE  LET m == Note(a) IN m \in Msg /\ m.type = a /\ m.id = 0 /\ m.flags = {}
<1>1. "" \in Name
  BY ProgramAssumption
<1>2. "none" \in Kinds
  BY DEF Kinds
<1>3. {} \in SUBSET Flags
  OBVIOUS
<1>4. PICK n \in Name, k \in Kinds, F \in SUBSET Flags : n = "" /\ k = "none" /\ F = {}
  BY <1>1, <1>2, <1>3
<1>a. PICK o \in BOOLEAN : o = TRUE
  BY Zenon
<1>5. PICK i \in Nat, l \in Int : i = 0 /\ l = 0
  BY SMT
<1>6. Note(a) = [type |-> a, id |-> i, ok |-> o, kind |-> k, name |-> n,
                 flags |-> F, live |-> l]
  BY <1>4, <1>a, <1>5 DEF Note
<1>7. LET m == Note(a) IN m \in Msg /\ m.type = a /\ m.id = i /\ m.flags = F
  BY <1>6, MsgFacts
<1> QED
  BY <1>4, <1>5, <1>7

LEMMA RequestFacts ==
  ASSUME NEW s, s.op \in Ops \cup {"eof"}, s.name \in Name, s.of \in Name, NEW i \in Nat
  PROVE  LET r == Request(s, i) IN
         r \in Req /\ r.type = s.op /\ r.id = i /\ r.name = s.name
<1>1. PICK a \in Ops \cup {"eof"}, n \in Name, f \in Name : a = s.op /\ n = s.name /\ f = s.of
  OBVIOUS
<1>2. Request(s, i) = [type |-> a, id |-> i, name |-> n, of |-> f]
  BY <1>1 DEF Request
<1> QED
  BY <1>1, <1>2 DEF Req

(* A thread that has left its operation.                                   *)
LEMMA FreshFacts ==
  ASSUME NEW p \in Nat
  PROVE  LET y == Fresh(p) IN
         /\ y \in ThreadState /\ y.pc = p /\ y.st = "ready" /\ ~y.waiter
         /\ ~y.signaled /\ y.msg.flags = {} /\ y.box = <<>>
<1>1. PICK m \in Msg : m = Note("none") /\ m.flags = {}
  BY NoteFacts DEF MsgTypes
<1>2. Fresh(p) = [pc |-> p, st |-> "ready", id |-> 0, waiter |-> FALSE,
                  signaled |-> FALSE, msg |-> m, box |-> <<>>, sig |-> FALSE]
  BY <1>1 DEF Fresh
<1> QED
  BY <1>1, <1>2 DEF ThreadState

(* Where the operations of a thread go on.                                 *)
LEMMA NextStep ==
  ASSUME TypeOK, NEW t \in Thread
  PROVE  \A y \in {Return(t), Throw(t), Interrupted(t)} :
           \E p \in Nat \ {0} : y = Fresh(p)
<1>1. PICK n \in Nat : n = th[t].pc
  BY DEF TypeOK, ThreadState
<1>2. PICK k \in Nat : k = Len(Program[t])
  BY ProgramFact
<1>3. \E p \in Nat \ {0} : Return(t) = Fresh(p)
  <2>1. n + 1 \in Nat \ {0}
    OBVIOUS
  <2> QED
    BY <1>1, <2>1 DEF Return
<1>4. \E p \in Nat \ {0} : Throw(t) = Fresh(p)
  <2> DEFINE rest == {i \in n + 1 .. k : Program[t][i].op \in LastOps}
  <2>1. CASE rest = {}
    <3>1. Throw(t) = Fresh(k + 1)
      BY <1>1, <1>2, <2>1 DEF Throw
    <3>2. k + 1 \in Nat \ {0}
      OBVIOUS
    <3> QED
      BY <3>1, <3>2
  <2>2. CASE rest # {}
    <3>1. rest \subseteq Nat \ {0}
      OBVIOUS
    <3>2. \E i \in rest : \A j \in rest : i <= j
      BY <2>2, <3>1, Least
    <3>3. (CHOOSE i \in rest : \A j \in rest : i <= j) \in rest
      BY <3>2
    <3>4. Throw(t) = Fresh(CHOOSE i \in rest : \A j \in rest : i <= j)
      BY <1>1, <1>2, <2>2 DEF Throw
    <3> QED
      BY <3>1, <3>3, <3>4
  <2> QED
    BY <2>1, <2>2
<1> QED
  BY <1>3, <1>4 DEF Interrupted

(* Updates of the state of a client, of a thread and of the server.        *)
SameCore(x, y) ==
  /\ y \in ClientState /\ y.shutdown = x.shutdown /\ y.tran = x.tran /\ y.calls = x.calls
  /\ y.endwrite = x.endwrite /\ y.crashed = x.crashed

LEMMA ClientUpdates ==
  ASSUME NEW x \in ClientState
  PROVE  /\ \A n \in Nat, S \in SUBSET (Nat \X Thread) :
              LET y == [x EXCEPT !.tran = n, !.calls = S] IN
              /\ y \in ClientState /\ y.shutdown = x.shutdown /\ y.tran = n /\ y.calls = S
              /\ y.endwrite = x.endwrite /\ y.crashed = x.crashed
         /\ \A S \in SUBSET (Nat \X Thread) :
              LET y == [x EXCEPT !.calls = S] IN
              /\ y \in ClientState /\ y.shutdown = x.shutdown /\ y.tran = x.tran /\ y.calls = S
              /\ y.endwrite = x.endwrite /\ y.crashed = x.crashed
         /\ LET y == [x EXCEPT !.shutdown = TRUE, !.term = TRUE] IN
              /\ y \in ClientState /\ y.shutdown = TRUE /\ y.tran = x.tran /\ y.calls = x.calls
              /\ y.endwrite = x.endwrite /\ y.crashed = x.crashed
         /\ LET y == [x EXCEPT !.endwrite = TRUE] IN
              /\ y \in ClientState /\ y.shutdown = x.shutdown /\ y.tran = x.tran
              /\ y.calls = x.calls /\ y.endwrite = TRUE /\ y.crashed = x.crashed
<1>1. ASSUME NEW n \in Nat, NEW S \in SUBSET (Nat \X Thread)
      PROVE   LET y == [x EXCEPT !.tran = n, !.calls = S] IN
              /\ y \in ClientState /\ y.shutdown = x.shutdown /\ y.tran = n /\ y.calls = S
              /\ y.endwrite = x.endwrite /\ y.crashed = x.crashed
  BY DEF ClientState
<1>2. ASSUME NEW S \in SUBSET (Nat \X Thread)
      PROVE   LET y == [x EXCEPT !.calls = S] IN
              /\ y \in ClientState /\ y.shutdown = x.shutdown /\ y.tran = x.tran /\ y.calls = S
              /\ y.endwrite = x.endwrite /\ y.crashed = x.crashed
  BY DEF ClientState
<1>3. LET y == [x EXCEPT !.shutdown = TRUE, !.term = TRUE] IN
      /\ y \in ClientState /\ y.shutdown = TRUE /\ y.tran = x.tran /\ y.calls = x.calls
      /\ y.endwrite = x.endwrite /\ y.crashed = x.crashed
  BY DEF ClientState
<1>4. LET y == [x EXCEPT !.endwrite = TRUE] IN
      /\ y \in ClientState /\ y.shutdown = x.shutdown /\ y.tran = x.tran
      /\ y.calls = x.calls /\ y.endwrite = TRUE /\ y.crashed = x.crashed
  BY DEF ClientState
<1> QED
  BY <1>1, <1>2, <1>3, <1>4

LEMMA CoreUpdates ==
  ASSUME NEW x \in ClientState, NEW S \in SUBSET Name, NEW T \in SUBSET Name
  PROVE  /\ SameCore(x, x)
         /\ SameCore(x, [x EXCEPT !.kernels = S]) /\ SameCore(x, [x EXCEPT !.running = S])
         /\ SameCore(x, [x EXCEPT !.got = S]) /\ SameCore(x, [x EXCEPT !.kernels = S, !.got = T])
         /\ SameCore(x, [x EXCEPT !.told = S, !.term = FALSE])
BY DEF ClientState, SameCore

SameThread(x, y) ==
  /\ y \in ThreadState /\ y.pc = x.pc /\ y.st = x.st /\ y.id = x.id /\ y.waiter = x.waiter

LEMMA SigUpdate ==
  ASSUME NEW x \in ThreadState
  PROVE  LET y == [x EXCEPT !.sig = TRUE] IN
         /\ SameThread(x, y) /\ y.signaled = x.signaled /\ y.msg = x.msg /\ y.box = x.box
         /\ y.sig = TRUE
BY DEF ThreadState, SameThread

LEMMA ReplyUpdate ==
  ASSUME NEW x \in ThreadState, NEW m \in Msg
  PROVE  LET y == [x EXCEPT !.msg = m, !.signaled = TRUE, !.sig = TRUE] IN
         /\ SameThread(x, y) /\ y.signaled = TRUE /\ y.msg = m /\ y.box = x.box
         /\ y.sig = TRUE
BY DEF ThreadState, SameThread

LEMMA ScanUpdate ==
  ASSUME NEW x \in ThreadState
  PROVE  LET y == [x EXCEPT !.st = "wait", !.box = <<>>, !.sig = FALSE] IN
         /\ y \in ThreadState /\ y.pc = x.pc /\ y.st = "wait" /\ y.id = x.id
         /\ y.waiter = x.waiter /\ y.msg = x.msg /\ y.box = <<>> /\ y.sig = FALSE
<1>1. PICK e \in Seq(Msg) : e = <<>>
  BY EmptySeq
<1>2. LET y == [x EXCEPT !.st = "wait", !.box = e, !.sig = FALSE] IN
      /\ y \in ThreadState /\ y.pc = x.pc /\ y.st = "wait" /\ y.id = x.id
      /\ y.waiter = x.waiter /\ y.msg = x.msg /\ y.box = e /\ y.sig = FALSE
  BY DEF ThreadState
<1> QED
  BY <1>1, <1>2

---------------------------------------------------------------------------
(* The steps of the threads of a program, in four classes: an operation    *)
(* returns or throws, a call begins, a wait begins or goes on, and the     *)
(* context is shut down.                                                   *)

(* What a message that asks nothing does to up.                            *)
Sends(c) ==
  \/ up' = up
  \/ \E r \in Req : /\ r.id = 0 /\ r.type \notin AskOps
                    /\ up' = [up EXCEPT ![c] = Append(@, r)]

LEMMA SendsFacts ==
  ASSUME TypeOK, NEW c \in Client, Sends(c)
  PROVE  /\ up' \in [Client -> Seq(Req)]
         /\ \A d \in Client : /\ Elems(up[d]) \subseteq Elems(up'[d])
                              /\ \A r \in Elems(up'[d]) : r \in Elems(up[d])
                                   \/ (r.id = 0 /\ r.type \notin AskOps)
                              /\ Distinct(up[d]) => Distinct(up'[d])
<1>1. CASE up' = up
  BY <1>1 DEF TypeOK
<1>2. CASE up' # up
  <2>1. PICK r \in Req : /\ r.id = 0 /\ r.type \notin AskOps
                         /\ up' = [up EXCEPT ![c] = Append(@, r)]
    BY <1>2 DEF Sends
  <2>2. up \in [Client -> Seq(Req)] /\ up[c] \in Seq(Req)
    BY DEF TypeOK
  <2>3. /\ Append(up[c], r) \in Seq(Req) /\ Elems(Append(up[c], r)) = Elems(up[c]) \cup {r}
        /\ Distinct(up[c]) => Distinct(Append(up[c], r))
    BY <2>1, <2>2, ElemsAppend
  <2>4. /\ up'[c] = Append(up[c], r) /\ \A d \in Client : d # c => up'[d] = up[d]
        /\ up' \in [Client -> Seq(Req)]
    BY <2>1, <2>2, <2>3
  <2> QED
    BY <2>1, <2>3, <2>4
<1> QED
  BY <1>1, <1>2

(* A thread that has not moved: no request is taken away, and no message   *)
(* that it waits for, short of a shutdown.                                 *)
Kept(u) ==
  /\ SameThread(th[u], th'[u]) /\ th'[u].signaled = th[u].signaled
  /\ th'[u].msg = th[u].msg /\ th'[u].box = th[u].box /\ (th[u].sig => th'[u].sig)

LEMMA KeptSame ==
  ASSUME TypeOK, NEW u \in Thread, th'[u] = th[u]
  PROVE  Kept(u)
BY DEF TypeOK, Kept, SameThread

LEMMA KeptThread ==
  ASSUME TypeOK, NEW u \in Thread, ThreadInv(u), Kept(u),
         NEW c, c = Home[u], cl'[c] \in ClientState,
         cl'[c].crashed = cl[c].crashed,
         th[u].st # "ready" => cl'[c].endwrite = cl[c].endwrite,
         cl'[c].tran >= cl[c].tran,
         th[u].st = "call" => (<<th[u].id, u>> \in cl[c].calls <=> <<th[u].id, u>> \in cl'[c].calls),
         cl[c].shutdown => cl'[c].shutdown,
         cl'[c].shutdown /\ th[u].st # "ready" => th'[u].sig,
         UNCHANGED srv, Elems(up[c]) \subseteq Elems(up'[c]),
         \A m \in Elems(down[c]) :
           \/ m \in Elems(down'[c]) \/ cl'[c].shutdown \/ ~Waits(u)
           \/ /\ m.type \notin {"terminate", "broadcast"}
              /\ ~(/\ m.type = "reply" /\ th[u].st = "call" /\ ~th[u].signaled
                   /\ m.id = th[u].id)
  PROVE  ThreadInv(u)'
<1> USE DEF ThreadInv
<1>0. c \in Client /\ cl[c] \in ClientState
  BY HomeFact DEF TypeOK
<1>1. PICK n \in Nat, k \in Nat : n = cl[c].tran /\ k = cl'[c].tran /\ k >= n
  BY <1>0 DEF ClientState
<1>2. (Ended(u)' <=> Ended(u)) /\ StepOf(u)' = StepOf(u)
  BY DEF Ended, StepOf, Kept, SameThread
<1>3. InOperation(u)'
  BY <1>1, <1>2 DEF InOperation, Kept, SameThread
<1>4. InRequest(u) => InRequest(u)'
  BY DEF InRequest, Kept, SameThread
<1>5. Unread(u)'
  BY <1>4 DEF Unread, Kept, SameThread
<1>6. Noticed(u)'
  <2> SUFFICES ASSUME Waits(u)', Home[u] \notin srv.closed, Happened(StepOf(u))'
               PROVE  Notice(u)'
    BY DEF Noticed
  <2>1. Waits(u)
    BY <1>2 DEF Waits, Kept, SameThread
  <2>2. Happened(StepOf(u))
    BY <1>2 DEF Happened
  <2>3. Notice(u)
    BY <2>1, <2>2 DEF Noticed
  <2>4. CASE cl'[c].shutdown
    BY <2>4 DEF Notice
  <2>5. CASE ~cl'[c].shutdown
    <3>1. InReply(u) => InReply(u)'
      BY <1>2, <2>1, <2>5 DEF InReply, Kept, SameThread
    <3>2. InCall(u) => InCall(u)'
      BY <1>2 DEF InCall, Kept, SameThread
    <3>3. InBox(u) => InBox(u)'
      BY <1>2 DEF InBox, Kept, SameThread
    <3>4. InBroadcast(u) => InBroadcast(u)'
      BY <1>2, <2>1, <2>5 DEF InBroadcast
    <3> QED
      BY <1>4, <2>3, <2>5, <3>1, <3>2, <3>3, <3>4 DEF Notice
  <2> QED
    BY <2>4, <2>5
<1>7. Truthful(u)'
  BY DEF Truthful, Truth, Kept, SameThread
<1> QED
  BY <1>3, <1>5, <1>6, <1>7

(* A thread outside of any operation.                                      *)
LEMMA ReadyThread ==
  ASSUME NEW u \in Thread, NEW p \in Nat \ {0}, th'[u] = Fresh(p),
         cl'[Home[u]].crashed => p > Len(Program[u])
  PROVE  ThreadInv(u)' /\ th'[u] \in ThreadState /\ th'[u].st = "ready"
<1>1. /\ th'[u].pc >= 1 /\ th'[u].st = "ready" /\ ~th'[u].waiter
      /\ th'[u].msg.flags = {} /\ th'[u].box = <<>> /\ th'[u] \in ThreadState
      /\ th'[u].pc = p /\ ~th'[u].signaled
  BY FreshFacts
<1>2. Truthful(u)'
  BY <1>1, ElemsShort DEF Truthful, Truth
<1> QED
  BY <1>1, <1>2 DEF ThreadInv, InOperation, Ended, Unread, Noticed, Waits

(* The messages of a process, where only requests that ask nothing come    *)
(* in, no message from the server and no new call.                         *)
LEMMA SameNumbers ==
  ASSUME TypeOK, NEW c \in Client, Numbered(c), cl'[c].tran = cl[c].tran,
         cl'[c].calls = cl[c].calls, cl'[c].crashed = cl[c].crashed,
         Elems(down'[c]) \subseteq Elems(down[c]), Distinct(down[c]) => Distinct(down'[c]),
         \A r \in Elems(up'[c]) : r \in Elems(up[c]) \/ (r.id = 0 /\ r.type \notin AskOps),
         Distinct(up[c]) => Distinct(up'[c]), Shape, th' \in [Thread -> ThreadState],
         \A u \in Thread : Home[u] = c /\ th'[u].st = "call" =>
           /\ th[u].st = "call" /\ th'[u].id = th[u].id /\ th'[u].signaled = th[u].signaled
           /\ th'[u].pc = th[u].pc
  PROVE  Numbered(c)'
<1> SUFFICES ASSUME ~cl[c].crashed
             PROVE  Own(c)' /\ Requests(c)' /\ Replies(c)' /\ Distinct(up'[c]) /\ Distinct(down'[c])
  BY DEF Numbered
<1>0. Own(c) /\ Requests(c) /\ Replies(c) /\ Distinct(up[c]) /\ Distinct(down[c])
  BY DEF Numbered
<1>1. \A n : Called(c, n)' <=> Called(c, n)
  BY DEF Called
<1>2. Requests(c)'
  <2> SUFFICES ASSUME NEW r \in Elems(up'[c])
               PROVE  /\ r.type \in AskOps => r.id # 0
                      /\ r.id # 0 => Called(c, r.id)'
                      /\ \A t \in Thread : Home[t] = c /\ th'[t].st = "call" /\ th'[t].id = r.id =>
                           /\ ~th'[t].signaled /\ r.type = StepOf(t)'.op
                           /\ r.name = StepOf(t)'.name
    BY DEF Requests
  <2>1. CASE r \in Elems(up[c])
    <3>1. /\ r.type \in AskOps => r.id # 0
          /\ r.id # 0 => Called(c, r.id)'
      BY <1>0, <1>1, <2>1 DEF Requests
    <3>2. ASSUME NEW t \in Thread, Home[t] = c, th'[t].st = "call", th'[t].id = r.id
          PROVE  ~th'[t].signaled /\ r.type = StepOf(t)'.op /\ r.name = StepOf(t)'.name
      <4>1. StepOf(t)' = StepOf(t)
        BY <3>2 DEF StepOf
      <4> QED
        BY <1>0, <2>1, <3>2, <4>1 DEF Requests
    <3> QED
      BY <3>1, <3>2
  <2>2. CASE r.id = 0 /\ r.type \notin AskOps
    <3>1. ASSUME NEW t \in Thread, Home[t] = c, th'[t].st = "call" PROVE th'[t].id # 0
      <4>1. th[t].st = "call" /\ th'[t].id = th[t].id
        BY <3>1
      <4>2. PICK n \in Nat : n = cl[Home[t]].tran
        BY HomeFact DEF TypeOK, ClientState
      <4>3. th[t].id \in 1 .. n
        BY <4>1, <4>2 DEF Shape, InOperation
      <4> QED
        BY <4>1, <4>3
    <3> QED
      BY <2>2, <3>1
  <2> QED
    BY <2>1, <2>2
<1>3. Replies(c)'
  <2> SUFFICES ASSUME NEW m \in Elems(down'[c])
               PROVE  /\ m.type # "reply" => m.id = 0
                      /\ m.type = "reply" => Called(c, m.id)' /\ \A r \in Elems(up'[c]) : r.id # m.id
    BY DEF Replies
  <2>1. /\ m.type # "reply" => m.id = 0
        /\ m.type = "reply" => Called(c, m.id) /\ \A r \in Elems(up[c]) : r.id # m.id
    BY <1>0 DEF Replies
  <2>2. m.type = "reply" => m.id # 0
    BY <2>1 DEF Called
  <2> QED
    BY <1>1, <2>1, <2>2
<1>4. Own(c)'
  BY <1>0 DEF Own
<1> QED
  BY <1>0, <1>2, <1>3, <1>4

(* A step that leaves the server alone, from what it does to each thread   *)
(* and to the messages of each process.                                    *)
LEMMA ClientSide ==
  ASSUME IInv, UNCHANGED srv, TypeOK', NoStrayReply',
         \A u \in Thread : ThreadInv(u)', \A c \in Client : Numbered(c)' /\ Finished(c)',
         \A c \in Client :
           /\ cl'[c].crashed => down'[c] = <<>>
           /\ Elems(down'[c]) \subseteq Elems(down[c])
           /\ cl[c].shutdown \/ cl[c].crashed => cl'[c].shutdown \/ cl'[c].crashed
           /\ \A m \in Elems(down[c]) : m.type = "terminate" =>
                m \in Elems(down'[c]) \/ cl'[c].shutdown \/ cl'[c].crashed
  PROVE  IInv'
<1>1. Connections'
  BY DEF IInv, Connections
<1>2. ASSUME NEW c \in Client PROVE ClientInv(c)'
  <2>1. Silent(c)'
    BY DEF Silent
  <2>2. NotHeard(c)'
    BY DEF IInv, ClientInv, NotHeard
  <2>3. EndTold(c)'
    BY DEF IInv, ClientInv, EndTold
  <2>4. Sincere(c)'
    BY DEF IInv, ClientInv, Sincere, Truth
  <2> QED
    BY <2>1, <2>2, <2>3, <2>4 DEF ClientInv
<1> QED
  BY <1>1, <1>2 DEF IInv

(* What a process that has ended its side of the connection has left.      *)
LEMMA StaysFinished ==
  ASSUME NEW c \in Client, Finished(c),
         cl'[c].endwrite => /\ cl[c].endwrite /\ cl'[c].got = cl[c].got
                            /\ cl'[c].kernels = cl[c].kernels,
         \A u \in Thread : Home[u] = c /\ cl[c].endwrite => th'[u].pc = th[u].pc
  PROVE  Finished(c)'
<1> SUFFICES ASSUME cl'[c].endwrite PROVE Idle(c)' /\ cl'[c].kernels = {}
  BY DEF Finished
<1>1. Idle(c) /\ cl[c].kernels = {} /\ cl'[c].got = cl[c].got
  BY DEF Finished
<1>2. \A u \in Thread : Home[u] = c => (Ended(u)' <=> Ended(u)) /\ StepOf(u)' = StepOf(u)
  BY DEF Ended, StepOf
<1>3. Idle(c)'
  BY <1>1, <1>2 DEF Idle, ThreadsOf
<1> QED
  BY <1>1, <1>3

(* The processes whose threads take steps have not ended.                  *)
LEMMA Living ==
  ASSUME IInv, NEW t \in Thread, ~Ended(t),
         StepOf(t).op = "spawned" => StepOf(t).name \in cl[Home[t]].got
  PROVE  /\ Home[t] \in Client /\ TypeOK /\ Shape
         /\ ~cl[Home[t]].crashed /\ ~cl[Home[t]].endwrite
BY HomeFact DEF IInv, ThreadInv, ClientInv, InOperation, Shape, Finished, Idle, ThreadsOf

(* A step of a process in which no call begins and no notice is taken      *)
(* from a waiter: threads stay where they are, are signalled, or leave     *)
(* their operation.                                                        *)
LEMMA Moving ==
  ASSUME IInv, NEW c \in Client, cl' \in [Client -> ClientState],
         \A d \in Client : d # c => cl'[d] = cl[d],
         cl'[c].tran = cl[c].tran, cl'[c].calls = cl[c].calls,
         cl'[c].crashed = cl[c].crashed, cl[c].shutdown => cl'[c].shutdown,
         cl'[c].endwrite = cl[c].endwrite,
         cl[c].endwrite => cl'[c].got = cl[c].got /\ cl'[c].kernels = cl[c].kernels,
         th' \in [Thread -> ThreadState],
         \A u \in Thread :
           \/ /\ Kept(u)
              /\ Home[u] = c /\ cl'[c].shutdown /\ th[u].st # "ready" => th'[u].sig
           \/ /\ Home[u] = c /\ ~cl[c].crashed /\ ~cl[c].endwrite
              /\ \E p \in Nat \ {0} : th'[u] = Fresh(p),
         Sends(c), UNCHANGED srv, NoStrayReply',
         down' \in [Client -> Seq(Msg)], \A d \in Client : d # c => down'[d] = down[d],
         Elems(down'[c]) \subseteq Elems(down[c]), Distinct(down[c]) => Distinct(down'[c]),
         down[c] = <<>> => down'[c] = <<>>,
         \A m \in Elems(down[c]) :
           \/ m \in Elems(down'[c]) \/ cl'[c].shutdown
           \/ m.type \notin {"terminate", "broadcast", "reply"}
  PROVE  IInv'
<1>1. TypeOK /\ Shape
  BY DEF IInv, ThreadInv, Shape
<1>2. /\ up' \in [Client -> Seq(Req)]
      /\ \A d \in Client : /\ Elems(up[d]) \subseteq Elems(up'[d])
                           /\ \A r \in Elems(up'[d]) : r \in Elems(up[d])
                                \/ (r.id = 0 /\ r.type \notin AskOps)
                           /\ Distinct(up[d]) => Distinct(up'[d])
  BY <1>1, SendsFacts
<1>3. TypeOK'
  BY <1>1, <1>2 DEF TypeOK
<1>4. ASSUME NEW u \in Thread
      PROVE  /\ ThreadInv(u)'
             /\ \/ Kept(u)
                \/ Home[u] = c /\ ~cl[c].endwrite /\ th'[u].st = "ready"
  <2>1. CASE Home[u] = c /\ ~cl[c].crashed /\ ~cl[c].endwrite /\ \E p \in Nat \ {0} : th'[u] = Fresh(p)
    BY <2>1, ReadyThread
  <2>2. CASE /\ Kept(u)
             /\ Home[u] = c /\ cl'[c].shutdown /\ th[u].st # "ready" => th'[u].sig
    <3>1. PICK d \in Client : d = Home[u]
      BY HomeFact
    <3>2. ThreadInv(u)
      BY DEF IInv
    <3>3. cl[d].tran \in Nat /\ cl'[d].tran >= cl[d].tran
      <4>1. cl[d].tran \in Nat
        BY <1>1 DEF TypeOK, ClientState
      <4>2. cl'[d].tran = cl[d].tran
        OBVIOUS
      <4> QED
        BY <4>1, <4>2
    <3>4. cl'[d].shutdown /\ th[u].st # "ready" => th'[u].sig
      <4>1. CASE d = c
        BY <2>2, <3>1, <4>1
      <4>2. CASE d # c
        BY <2>2, <3>1, <3>2, <4>2 DEF ThreadInv, InOperation, Kept
      <4> QED
        BY <4>1, <4>2
    <3>5. \A m \in Elems(down[d]) :
           \/ m \in Elems(down'[d]) \/ cl'[d].shutdown \/ ~Waits(u)
           \/ /\ m.type \notin {"terminate", "broadcast"}
              /\ ~(/\ m.type = "reply" /\ th[u].st = "call" /\ ~th[u].signaled
                   /\ m.id = th[u].id)
      OBVIOUS
    <3>6. /\ cl'[d] \in ClientState /\ cl'[d].crashed = cl[d].crashed
          /\ cl'[d].endwrite = cl[d].endwrite /\ cl'[d].calls = cl[d].calls
          /\ cl[d].shutdown => cl'[d].shutdown
      OBVIOUS
    <3>7. ThreadInv(u)'
      BY <1>1, <1>2, <2>2, <3>1, <3>2, <3>3, <3>4, <3>5, <3>6, KeptThread
    <3> QED
      BY <2>2, <3>7
  <2> QED
    BY <2>1, <2>2
<1>5. ASSUME NEW d \in Client PROVE Numbered(d)'
  <2>1. Numbered(d)
    BY DEF IInv, ClientInv
  <2>2. \A u \in Thread : Home[u] = d /\ th'[u].st = "call" =>
           /\ th[u].st = "call" /\ th'[u].id = th[u].id /\ th'[u].signaled = th[u].signaled
           /\ th'[u].pc = th[u].pc
    BY <1>4 DEF Kept, SameThread
  <2>3. /\ cl'[d].tran = cl[d].tran /\ cl'[d].calls = cl[d].calls
        /\ cl'[d].crashed = cl[d].crashed
        /\ Elems(down'[d]) \subseteq Elems(down[d]) /\ (Distinct(down[d]) => Distinct(down'[d]))
    OBVIOUS
  <2> QED
    BY <1>1, <1>2, <2>1, <2>2, <2>3, SameNumbers
<1>6. ASSUME NEW d \in Client PROVE Finished(d)'
  <2>1. \A u \in Thread : Home[u] = d /\ cl[d].endwrite => th'[u].pc = th[u].pc
    BY <1>4 DEF Kept, SameThread
  <2> QED
    BY <2>1, StaysFinished DEF IInv, ClientInv
<1>7. \A d \in Client :
        /\ cl'[d].crashed => down'[d] = <<>>
        /\ Elems(down'[d]) \subseteq Elems(down[d])
        /\ cl[d].shutdown \/ cl[d].crashed => cl'[d].shutdown \/ cl'[d].crashed
        /\ \A m \in Elems(down[d]) : m.type = "terminate" =>
             m \in Elems(down'[d]) \/ cl'[d].shutdown \/ cl'[d].crashed
  BY DEF IInv, ClientInv, Silent
<1> QED
  BY <1>3, <1>4, <1>5, <1>6, <1>7, ClientSide

(* An operation returns or throws.                                         *)
LEMMA Returning ==
  ASSUME IInv, NEW t \in Thread, ~Ended(t),
         StepOf(t).op = "spawned" => StepOf(t).name \in cl[Home[t]].got,
         NEW p \in Nat \ {0}, th' = [th EXCEPT ![t] = Fresh(p)],
         cl' \in [Client -> ClientState], SameCore(cl[Home[t]], cl'[Home[t]]),
         \A c \in Client : c # Home[t] => cl'[c] = cl[c], Sends(Home[t]),
         UNCHANGED <<down, srv>>, NoStrayReply'
  PROVE  IInv'
<1>1. PICK c \in Client : /\ c = Home[t] /\ TypeOK /\ Shape
                           /\ ~cl[c].crashed /\ ~cl[c].endwrite
  BY Living
<1>2. th'[t] = Fresh(p) /\ \A u \in Thread : u # t => th'[u] = th[u]
  BY <1>1 DEF TypeOK
<1>3. th' \in [Thread -> ThreadState]
  BY <1>1, <1>2, FreshFacts DEF TypeOK
<1>4. ASSUME NEW u \in Thread
      PROVE  \/ /\ Kept(u)
                /\ Home[u] = c /\ cl'[c].shutdown /\ th[u].st # "ready" => th'[u].sig
             \/ /\ Home[u] = c /\ ~cl[c].crashed /\ ~cl[c].endwrite
                /\ \E q \in Nat \ {0} : th'[u] = Fresh(q)
  <2>1. CASE u = t
    BY <1>1, <1>2, <2>1
  <2>2. CASE u # t
    BY <1>1, <1>2, <2>2, KeptSame DEF IInv, ThreadInv, InOperation, SameCore
  <2> QED
    BY <2>1, <2>2
<1>5. /\ cl'[c].tran = cl[c].tran /\ cl'[c].calls = cl[c].calls
      /\ cl'[c].crashed = cl[c].crashed /\ (cl[c].shutdown => cl'[c].shutdown)
      /\ cl'[c].endwrite = cl[c].endwrite
  BY <1>1 DEF SameCore
<1>6. down' \in [Client -> Seq(Msg)]
  BY <1>1 DEF TypeOK
<1> QED
  BY <1>1, <1>3, <1>4, <1>5, <1>6, Moving

(* A message comes in at a client.                                         *)
LEMMA IncomingFacts ==
  ASSUME TypeOK, NEW c \in Client, NEW types, Incoming(c, types)
  PROVE  /\ down' \in [Client -> Seq(Msg)] /\ down[c] # <<>> /\ Head(down[c]).type \in types
         /\ Head(down[c]) \in Msg /\ Head(down[c]) \in Elems(down[c])
         /\ Elems(down[c]) = {Head(down[c])} \cup Elems(down'[c])
         /\ Distinct(down[c]) =>
              /\ Distinct(down'[c])
              /\ \A m \in Elems(down'[c]) : m.id # 0 => m.id # Head(down[c]).id
         /\ \A d \in Client : d # c => down'[d] = down[d]
<1>1. down \in [Client -> Seq(Msg)] /\ down[c] \in Seq(Msg) /\ down[c] # <<>>
  BY DEF TypeOK, Incoming
<1>2. down'[c] = Tail(down[c]) /\ \A d \in Client : d # c => down'[d] = down[d]
  BY <1>1 DEF Incoming
<1>3. Tail(down[c]) \in Seq(Msg)
  BY <1>1, ElemsTail
<1>4. down' \in [Client -> Seq(Msg)]
  BY <1>1, <1>3 DEF Incoming
<1> QED
  BY <1>1, <1>2, <1>4, ElemsTail DEF Incoming

(* The context of a process is shut down, by the call of a thread or by a  *)
(* message.                                                                *)
LEMMA Shutting ==
  ASSUME IInv, NEW c \in Client, cl' = [cl EXCEPT ![c].shutdown = TRUE, ![c].term = TRUE],
         Sends(c), UNCHANGED srv, NoStrayReply', th' \in [Thread -> ThreadState],
         \A u \in Thread :
           \/ th'[u] = Signalled(c)[u]
           \/ /\ Home[u] = c /\ ~cl[c].crashed /\ ~cl[c].endwrite
              /\ \E p \in Nat \ {0} : th'[u] = Fresh(p),
         down' \in [Client -> Seq(Msg)], \A d \in Client : d # c => down'[d] = down[d],
         Elems(down'[c]) \subseteq Elems(down[c]), Distinct(down[c]) => Distinct(down'[c]),
         down[c] = <<>> => down'[c] = <<>>
  PROVE  IInv'
<1>1. TypeOK /\ cl \in [Client -> ClientState] /\ cl[c] \in ClientState
  BY DEF IInv, TypeOK
<1>2. PICK y : y = [cl[c] EXCEPT !.shutdown = TRUE, !.term = TRUE]
  OBVIOUS
<1>3. cl' = [cl EXCEPT ![c] = y]
  BY <1>1, <1>2
<1>4. /\ y \in ClientState /\ y.shutdown = TRUE /\ y.tran = cl[c].tran
      /\ y.calls = cl[c].calls /\ y.endwrite = cl[c].endwrite /\ y.crashed = cl[c].crashed
  BY <1>1, <1>2, ClientUpdates
<1>5. y.got = cl[c].got /\ y.kernels = cl[c].kernels
  BY <1>1, <1>2 DEF ClientState
<1>6. /\ cl' \in [Client -> ClientState] /\ cl'[c] = y
      /\ \A d \in Client : d # c => cl'[d] = cl[d]
  BY <1>1, <1>3, <1>4
<1>7. ASSUME NEW u \in Thread, th'[u] = Signalled(c)[u]
      PROVE  Kept(u) /\ (Home[u] = c /\ th[u].st # "ready" => th'[u].sig)
  <2>1. th[u] \in ThreadState
    BY <1>1 DEF TypeOK
  <2>2. CASE Home[u] = c /\ th[u].st \in {"call", "wait"}
    <3>1. th'[u] = [th[u] EXCEPT !.sig = TRUE]
      BY <1>7, <2>2 DEF Signalled
    <3> QED
      BY <2>1, <3>1, SigUpdate DEF Kept
  <2>3. CASE ~(Home[u] = c /\ th[u].st \in {"call", "wait"})
    <3>1. th'[u] = th[u]
      BY <1>7, <2>3 DEF Signalled
    <3>2. th[u].st \in {"ready", "call", "wait"}
      BY <2>1 DEF ThreadState
    <3> QED
      BY <1>1, <2>3, <3>1, <3>2, KeptSame
  <2> QED
    BY <2>2, <2>3
<1>8. \A u \in Thread :
           \/ /\ Kept(u)
              /\ Home[u] = c /\ cl'[c].shutdown /\ th[u].st # "ready" => th'[u].sig
           \/ /\ Home[u] = c /\ ~cl[c].crashed /\ ~cl[c].endwrite
              /\ \E p \in Nat \ {0} : th'[u] = Fresh(p)
  BY <1>7
<1> HIDE DEF Sends
<1>9. cl'[c].shutdown
  BY <1>4, <1>6
<1> QED
  BY <1>4, <1>5, <1>6, <1>8, <1>9, Moving

(* A call begins: its number is new.                                       *)
LEMMA Calling ==
  ASSUME IInv, NEW t \in Thread, At(t, CallOps \cup WaitOps), ~cl[Home[t]].shutdown,
         RemoteCall(t), UNCHANGED <<down, srv, failed>>
  PROVE  IInv'
<1>0. ~Ended(t) /\ th[t].st = "ready" /\ StepOf(t).op \in AskOps
  BY DEF At, AskOps
<1>1. PICK c \in Client : /\ c = Home[t] /\ TypeOK /\ Shape
                           /\ ~cl[c].crashed /\ ~cl[c].endwrite
  BY <1>0, Living DEF AskOps, CallOps, WaitOps
<1>2. /\ cl \in [Client -> ClientState] /\ th \in [Thread -> ThreadState]
      /\ up \in [Client -> Seq(Req)] /\ cl[c] \in ClientState /\ th[t] \in ThreadState
      /\ up[c] \in Seq(Req)
  BY <1>1 DEF TypeOK
<1>3. PICK n \in Nat : n = cl[c].tran
  BY <1>2 DEF ClientState
<1>k. PICK k \in Nat : k = n + 1
  OBVIOUS
<1>4. PICK S \in SUBSET (Nat \X Thread) : S = cl[c].calls \cup {<<n + 1, t>>}
  <2>1. cl[c].calls \in SUBSET (Nat \X Thread)
    BY <1>2 DEF ClientState
  <2>2. <<k, t>> \in Nat \X Thread
    OBVIOUS
  <2>3. cl[c].calls \cup {<<k, t>>} \in SUBSET (Nat \X Thread)
    BY <2>1, <2>2
  <2> QED
    BY <1>k, <2>3
<1>z. PICK z \in ClientState, w \in ThreadState : z = cl[c] /\ w = th[t]
  BY <1>2
<1>5. PICK x : x = [z EXCEPT !.tran = k, !.calls = S]
  OBVIOUS
<1>6. /\ x \in ClientState /\ x.shutdown = cl[c].shutdown /\ x.tran = n + 1 /\ x.calls = S
      /\ x.endwrite = cl[c].endwrite /\ x.crashed = cl[c].crashed
  <2>1. /\ x \in ClientState /\ x.shutdown = z.shutdown /\ x.tran = k /\ x.calls = S
        /\ x.endwrite = z.endwrite /\ x.crashed = z.crashed
    BY <1>5 DEF ClientState
  <2> QED
    BY <1>k, <1>z, <2>1
<1>7. cl' = [cl EXCEPT ![c] = x]
  BY <1>1, <1>2, <1>3, <1>k, <1>z, <1>4, <1>5 DEF RemoteCall
<1>8. /\ cl' \in [Client -> ClientState] /\ cl'[c] = x
      /\ \A d \in Client : d # c => cl'[d] = cl[d]
  BY <1>2, <1>6, <1>7
<1>9. PICK b \in BOOLEAN : b <=> StepOf(t).op \in WaitOps
  OBVIOUS
<1>10. PICK y : y = [w EXCEPT !.st = "call", !.id = k, !.waiter = b]
  OBVIOUS
<1>11. /\ y \in ThreadState /\ y.pc = th[t].pc /\ y.st = "call" /\ y.id = n + 1 /\ y.waiter = b
       /\ y.signaled = th[t].signaled /\ y.msg = th[t].msg /\ y.box = th[t].box
       /\ y.sig = th[t].sig
  <2>1. /\ y \in ThreadState /\ y.pc = w.pc /\ y.st = "call" /\ y.id = k /\ y.waiter = b
        /\ y.signaled = w.signaled /\ y.msg = w.msg /\ y.box = w.box
        /\ y.sig = w.sig
    BY <1>10 DEF ThreadState
  <2> QED
    BY <1>k, <1>z, <2>1
<1>12. th' = [th EXCEPT ![t] = y]
  BY <1>1, <1>2, <1>3, <1>k, <1>z, <1>9, <1>10 DEF RemoteCall
<1>13. /\ th' \in [Thread -> ThreadState] /\ th'[t] = y
       /\ \A u \in Thread : u # t => th'[u] = th[u]
  BY <1>2, <1>11, <1>12
<1>14. PICK r \in Req : /\ r = Request(StepOf(t), n + 1) /\ r.type = StepOf(t).op /\ r.id = n + 1
                        /\ r.name = StepOf(t).name
  BY <1>0, <1>1, StepFacts, RequestFacts
<1>15. up' = [up EXCEPT ![c] = Append(up[c], r)]
  BY <1>1, <1>2, <1>3, <1>14 DEF RemoteCall, SendMessage
<1>16. /\ Append(up[c], r) \in Seq(Req) /\ Elems(Append(up[c], r)) = Elems(up[c]) \cup {r}
       /\ Distinct(up[c]) /\ (\A m \in Elems(up[c]) : m.id # 0 => m.id # r.id)
            => Distinct(Append(up[c], r))
  BY <1>2, ElemsAppend
<1>17. /\ up' \in [Client -> Seq(Req)] /\ up'[c] = Append(up[c], r)
       /\ \A d \in Client : d # c => up'[d] = up[d]
  BY <1>2, <1>15, <1>16
<1>18. TypeOK'
  BY <1>1, <1>8, <1>13, <1>17 DEF TypeOK
<1>19. (Ended(t)' <=> Ended(t)) /\ StepOf(t)' = StepOf(t)
  BY <1>11, <1>13 DEF Ended, StepOf
<1>20. ThreadInv(t) /\ Numbered(c)
  BY DEF IInv, ClientInv
<1>21. ThreadInv(t)'
  <2>1. <<n + 1, t>> \in S /\ ~y.signaled
    BY <1>0, <1>4, <1>11, <1>20 DEF ThreadInv, InOperation
  <2>2. InOperation(t)'
    BY <1>0, <1>1, <1>6, <1>8, <1>9, <1>11, <1>13, <1>19, <1>20, <2>1
    DEF ThreadInv, InOperation
  <2>3. InRequest(t)'
    BY <1>1, <1>11, <1>13, <1>14, <1>16, <1>17, <2>1 DEF InRequest
  <2>4. Unread(t)' /\ Noticed(t)'
    BY <2>3 DEF Unread, Noticed, Notice
  <2>5. Truthful(t)'
    BY <1>11, <1>13, <1>20 DEF ThreadInv, Truthful, Truth
  <2> QED
    BY <2>2, <2>4, <2>5 DEF ThreadInv
<1>22. ASSUME NEW u \in Thread, u # t PROVE ThreadInv(u)'
  <2>1. PICK d \in Client : d = Home[u]
    BY HomeFact
  <2>2. ThreadInv(u) /\ th'[u] = th[u] /\ Kept(u)
    BY <1>1, <1>13, <1>22, KeptSame DEF IInv
  <2>3. /\ cl'[d] \in ClientState /\ cl'[d].crashed = cl[d].crashed
        /\ cl'[d].endwrite = cl[d].endwrite
        /\ cl'[d].shutdown = cl[d].shutdown
        /\ \A k1 : <<k1, u>> \in cl[d].calls <=> <<k1, u>> \in cl'[d].calls
    BY <1>4, <1>6, <1>8, <1>22
  <2>4. cl'[d].tran >= cl[d].tran
    <3>1. CASE d = c
      BY <1>3, <1>6, <1>8, <3>1
    <3>2. CASE d # c
      <4>1. cl[d].tran \in Nat /\ cl'[d].tran = cl[d].tran
        BY <1>2, <1>8, <3>2 DEF ClientState
      <4> QED
        BY <4>1
    <3> QED
      BY <3>1, <3>2
  <2>5. Elems(up[d]) \subseteq Elems(up'[d]) /\ down'[d] = down[d]
    BY <1>16, <1>17
  <2>6. cl'[d].shutdown /\ th[u].st # "ready" => th'[u].sig
    BY <2>1, <2>2, <2>3 DEF ThreadInv, InOperation
  <2> QED
    BY <1>1, <2>1, <2>2, <2>3, <2>4, <2>5, <2>6, KeptThread
<1>23. ASSUME NEW d \in Client PROVE Numbered(d)'
  <2>1. CASE d # c
    <3>1. /\ Numbered(d) /\ cl'[d] = cl[d] /\ up'[d] = up[d] /\ down'[d] = down[d]
      BY <1>8, <1>17, <2>1 DEF IInv, ClientInv
    <3>2. \A u \in Thread : Home[u] = d => th'[u] = th[u]
      BY <1>1, <1>13, <2>1
    <3> QED
      BY <1>1, <1>13, <3>1, <3>2, SameNumbers
  <2>2. CASE d = c
    <3>0. Own(c) /\ Requests(c) /\ Replies(c) /\ Distinct(up[c]) /\ Distinct(down[c])
      BY <1>1, <1>20 DEF Numbered
    <3>1. ASSUME NEW i, Called(c, i) PROVE Called(c, i)' /\ i <= n /\ i # n + 1
      <4>1. PICK u \in Thread : <<i, u>> \in cl[c].calls
        BY <3>1 DEF Called
      <4>2. i \in Nat /\ i # 0 /\ i <= n
        BY <1>2, <1>3, <3>1, <4>1 DEF Called, ClientState
      <4>3. <<i, u>> \in cl'[c].calls /\ i <= cl'[c].tran
        BY <1>3, <1>4, <1>6, <1>8, <4>1, <4>2
      <4> QED
        BY <4>2, <4>3 DEF Called
    <3>2. Called(c, n + 1)'
      BY <1>4, <1>6, <1>8 DEF Called
    <3>3. Requests(c)'
      <4> SUFFICES ASSUME NEW q \in Elems(up'[c])
                   PROVE  /\ q.type \in AskOps => q.id # 0
                          /\ q.id # 0 => Called(c, q.id)'
                          /\ \A u \in Thread :
                               Home[u] = c /\ th'[u].st = "call" /\ th'[u].id = q.id =>
                                 /\ ~th'[u].signaled /\ q.type = StepOf(u)'.op
                                 /\ q.name = StepOf(u)'.name
        BY DEF Requests
      <4>1. CASE q \in Elems(up[c])
        <5>1. /\ q.type \in AskOps => q.id # 0
              /\ q.id # 0 => Called(c, q.id)
              /\ q.id # n + 1
          BY <3>0, <3>1, <4>1 DEF Requests
        <5>2. ASSUME NEW u \in Thread, Home[u] = c, th'[u].st = "call", th'[u].id = q.id
              PROVE  /\ ~th'[u].signaled /\ q.type = StepOf(u)'.op
                     /\ q.name = StepOf(u)'.name
          <6>1. u # t
            BY <1>11, <1>13, <5>1, <5>2
          <6>2. th'[u] = th[u] /\ StepOf(u)' = StepOf(u)
            BY <1>13, <6>1 DEF StepOf
          <6> QED
            BY <3>0, <4>1, <5>2, <6>2 DEF Requests
        <5> QED
          BY <3>1, <5>1, <5>2
      <4>2. CASE q = r
        <5>1. ASSUME NEW u \in Thread, Home[u] = c, th'[u].st = "call", th'[u].id = n + 1
              PROVE  u = t
          <6> SUFFICES ASSUME u # t PROVE FALSE
            OBVIOUS
          <6>1. th[u].st = "call" /\ th[u].id = n + 1
            BY <1>13, <5>1
          <6>2. th[u].id \in 1 .. n
            BY <1>1, <1>3, <5>1, <6>1 DEF Shape, InOperation
          <6> QED
            BY <6>1, <6>2
        <5>2. ~y.signaled
          BY <1>0, <1>11, <1>20 DEF ThreadInv, InOperation
        <5> QED
          BY <1>13, <1>14, <1>19, <3>2, <4>2, <5>1, <5>2
      <4> QED
        BY <1>16, <1>17, <4>1, <4>2
    <3>4. Replies(c)'
      <4> SUFFICES ASSUME NEW m \in Elems(down[c])
                   PROVE  /\ m.type # "reply" => m.id = 0
                          /\ m.type = "reply" =>
                               Called(c, m.id)' /\ \A q \in Elems(up'[c]) : q.id # m.id
        BY DEF Replies
      <4> QED
        BY <1>14, <1>16, <1>17, <3>0, <3>1 DEF Replies
    <3>5. Distinct(up'[c])
      BY <1>14, <1>16, <1>17, <3>0, <3>1 DEF Requests
    <3>6. Own(c)'
      BY <1>1, <1>4, <1>6, <1>8, <3>0 DEF Own
    <3> QED
      BY <2>2, <3>0, <3>3, <3>4, <3>5, <3>6 DEF Numbered
  <2> QED
    BY <2>1, <2>2
<1>24. ASSUME NEW d \in Client PROVE Finished(d)'
  <2>1. CASE d = c
    BY <1>1, <1>6, <1>8, <2>1 DEF Finished
  <2>2. CASE d # c
    <3>1. Finished(d) /\ cl'[d] = cl[d]
      BY <1>8, <2>2 DEF IInv, ClientInv
    <3>2. \A u \in Thread : Home[u] = d => th'[u].pc = th[u].pc
      BY <1>11, <1>13
    <3> QED
      BY <3>1, <3>2, StaysFinished
  <2> QED
    BY <2>1, <2>2
<1>25. \A d \in Client : /\ Silent(d) /\ cl'[d].crashed = cl[d].crashed
                         /\ cl'[d].shutdown = cl[d].shutdown
  BY <1>6, <1>8 DEF IInv, ClientInv
<1>26. NoStrayReply'
  BY DEF IInv, NoStrayReply
<1> QED
  BY <1>18, <1>21, <1>22, <1>23, <1>24, <1>25, <1>26, ClientSide DEF Silent

(* A wait begins, or goes on: nothing of what has come is wanted.          *)
LEMMA Waiting ==
  ASSUME IInv, NEW t \in Thread, ~Ended(t), StepOf(t).op \in WaitOps, th[t].st # "ready",
         th[t].st = "call" => th[t].signaled /\ ~Wanted(StepOf(t), th[t].msg),
         \A m \in Elems(th[t].box) : ~Wanted(StepOf(t), m), ~cl[Home[t]].shutdown,
         th' = [th EXCEPT ![t] = [th[t] EXCEPT !.st = "wait", !.box = <<>>, !.sig = FALSE]],
         UNCHANGED <<cl, up, down, srv, failed>>
  PROVE  IInv'
<1>1. PICK c \in Client : /\ c = Home[t] /\ TypeOK /\ Shape
                           /\ ~cl[c].crashed /\ ~cl[c].endwrite
  BY Living DEF WaitOps
<1>2. th \in [Thread -> ThreadState] /\ th[t] \in ThreadState
  BY <1>1 DEF TypeOK
<1>3. PICK x \in ThreadState : x = th[t]
  BY <1>2
<1>4. PICK y : y = [x EXCEPT !.st = "wait", !.box = <<>>, !.sig = FALSE]
  OBVIOUS
<1>5. /\ y \in ThreadState /\ y.pc = x.pc /\ y.st = "wait" /\ y.id = x.id
      /\ y.waiter = x.waiter /\ y.msg = x.msg /\ y.box = <<>> /\ y.sig = FALSE
  BY <1>4, ScanUpdate
<1>6. /\ th' \in [Thread -> ThreadState] /\ th'[t] = y
      /\ \A u \in Thread : u # t => th'[u] = th[u]
  BY <1>2, <1>3, <1>4, <1>5
<1>7. TypeOK'
  BY <1>1, <1>6 DEF TypeOK
<1>8. ThreadInv(t)'
  <2>1. (Ended(t)' <=> Ended(t)) /\ StepOf(t)' = StepOf(t)
    BY <1>3, <1>5, <1>6 DEF Ended, StepOf
  <2>2. ThreadInv(t) /\ ~InRequest(t)
    BY DEF IInv, InRequest
  <2>3. InOperation(t)'
    BY <1>1, <1>3, <1>5, <1>6, <2>1, <2>2 DEF ThreadInv, InOperation
  <2>4. Unread(t)'
    BY <2>2 DEF ThreadInv, Unread
  <2>5. Noticed(t)'
    <3> SUFFICES ASSUME Home[t] \notin srv.closed, Happened(StepOf(t))' PROVE Notice(t)'
      BY DEF Noticed
    <3>1. Happened(StepOf(t))
      BY <2>1 DEF Happened
    <3>2. Notice(t)
      BY <2>2, <3>1 DEF ThreadInv, Noticed, Waits
    <3>3. InBroadcast(t)
      BY <2>2, <3>2 DEF Notice, InReply, InCall, InBox
    <3> QED
      BY <2>1, <3>3 DEF Notice, InBroadcast
  <2>6. Truthful(t)'
    BY <1>3, <1>5, <1>6, <2>2, ElemsShort DEF ThreadInv, Truthful, Truth
  <2> QED
    BY <2>3, <2>4, <2>5, <2>6 DEF ThreadInv
<1>9. ASSUME NEW u \in Thread, u # t PROVE ThreadInv(u)'
  <2>1. PICK d \in Client : d = Home[u]
    BY HomeFact
  <2>2. ThreadInv(u) /\ th'[u] = th[u] /\ Kept(u)
    BY <1>1, <1>6, <1>9, KeptSame DEF IInv
  <2>3. cl'[d] \in ClientState /\ cl'[d].tran >= cl[d].tran
    BY <1>1 DEF TypeOK, ClientState
  <2>4. cl'[d].shutdown /\ th[u].st # "ready" => th'[u].sig
    BY <2>1, <2>2 DEF ThreadInv, InOperation
  <2> QED
    BY <1>1, <2>1, <2>2, <2>3, <2>4, KeptThread
<1>10. ASSUME NEW d \in Client PROVE Numbered(d)'
  <2>1. Numbered(d)
    BY DEF IInv, ClientInv
  <2>2. \A u \in Thread : Home[u] = d /\ th'[u].st = "call" => th'[u] = th[u]
    BY <1>5, <1>6
  <2> QED
    BY <1>1, <1>6, <2>1, <2>2, SameNumbers
<1>11. ASSUME NEW d \in Client PROVE Finished(d)'
  <2>1. \A u \in Thread : th'[u].pc = th[u].pc
    BY <1>3, <1>5, <1>6
  <2> QED
    BY <2>1, StaysFinished DEF IInv, ClientInv
<1>12. \A d \in Client : Silent(d)
  BY DEF IInv, ClientInv
<1>13. NoStrayReply'
  BY DEF IInv, NoStrayReply
<1> QED
  BY <1>7, <1>8, <1>9, <1>10, <1>11, <1>12, <1>13, ClientSide DEF Silent

(* A broadcast goes to every generic waiter of the process.                *)
LEMMA Broadcasting ==
  ASSUME IInv, NEW c \in Client, DispatchBroadcast(c)
  PROVE  IInv'
<1>1. TypeOK /\ Shape /\ Incoming(c, {"broadcast"}) /\ UNCHANGED <<cl, up, srv, failed>>
  BY DEF IInv, ThreadInv, Shape, DispatchBroadcast
<1>2. PICK m \in Msg : m = Head(down[c])
  BY <1>1, IncomingFacts
<1>3. /\ down' \in [Client -> Seq(Msg)] /\ down[c] # <<>> /\ m.type = "broadcast"
      /\ m \in Elems(down[c]) /\ Elems(down[c]) = {m} \cup Elems(down'[c])
      /\ Distinct(down[c]) => Distinct(down'[c])
      /\ \A d \in Client : d # c => down'[d] = down[d]
  BY <1>1, <1>2, IncomingFacts
<1>4. ASSUME NEW u \in Thread
      PROVE  /\ SameThread(th[u], th'[u]) /\ th'[u].signaled = th[u].signaled
             /\ th'[u].msg = th[u].msg /\ (th[u].sig => th'[u].sig)
             /\ IF Home[u] = c /\ th[u].waiter
                THEN Elems(th'[u].box) = Elems(th[u].box) \cup {m}
                     /\ (th[u].st = "wait" => th'[u].sig)
                ELSE th'[u] = th[u]
  <2>1. PICK x \in ThreadState : x = th[u]
    BY <1>1 DEF TypeOK
  <2>2. CASE Home[u] = c /\ th[u].waiter
    <3>1. x.box \in Seq(Msg) /\ x.sig \in BOOLEAN
      BY DEF ThreadState
    <3>2. PICK s \in Seq(Msg) : s = Append(x.box, m) /\ Elems(s) = Elems(x.box) \cup {m}
      <4>1. PICK a \in Seq(Msg) : a = x.box
        BY <3>1
      <4>2. Append(a, m) \in Seq(Msg) /\ Elems(Append(a, m)) = Elems(a) \cup {m}
        BY ElemsAppend
      <4> QED
        BY <4>1, <4>2
    <3>3. PICK b \in BOOLEAN : b <=> (x.sig \/ x.st = "wait")
      OBVIOUS
    <3>4. th'[u] = [x EXCEPT !.box = s, !.sig = b]
      BY <1>2, <2>1, <2>2, <3>1, <3>2, <3>3 DEF DispatchBroadcast
    <3>5. LET y == [x EXCEPT !.box = s, !.sig = b] IN
          /\ SameThread(x, y) /\ y.signaled = x.signaled /\ y.msg = x.msg /\ y.box = s
          /\ y.sig = b
      BY DEF ThreadState, SameThread
    <3> QED
      BY <2>1, <2>2, <3>2, <3>3, <3>4, <3>5
  <2>3. CASE ~(Home[u] = c /\ th[u].waiter)
    <3>1. th'[u] = th[u]
      BY <2>3 DEF DispatchBroadcast
    <3> QED
      BY <2>1, <2>3, <3>1 DEF SameThread
  <2> QED
    BY <2>2, <2>3
<1>5. th' \in [Thread -> ThreadState]
  <2>1. th' = [u \in Thread |-> th'[u]]
    BY DEF DispatchBroadcast
  <2> QED
    BY <1>4, <2>1 DEF SameThread
<1>6. TypeOK'
  BY <1>1, <1>3, <1>5 DEF TypeOK
<1>7. ASSUME NEW u \in Thread PROVE ThreadInv(u)'
  <2>0. ThreadInv(u)
    BY DEF IInv
  <2>1. CASE Home[u] = c /\ th[u].waiter
    <3>1. (Ended(u)' <=> Ended(u)) /\ StepOf(u)' = StepOf(u)
      BY <1>4 DEF Ended, StepOf, SameThread
    <3>2. InOperation(u)'
      BY <1>1, <1>4, <2>0, <3>1 DEF ThreadInv, InOperation, SameThread
    <3>3. (InRequest(u)' <=> InRequest(u)) /\ (Unread(u) => Unread(u)')
      BY <1>1, <1>4 DEF InRequest, Unread, SameThread
    <3>4. Noticed(u)'
      <4> SUFFICES ASSUME Waits(u)', Home[u] \notin srv.closed, Happened(StepOf(u))'
                   PROVE  Notice(u)'
        BY <1>1 DEF Noticed
      <4>1. Happened(StepOf(u)) /\ Waits(u)
        BY <1>1, <1>4, <3>1 DEF Happened, Waits, SameThread
      <4>2. Notice(u)
        BY <2>0, <4>1 DEF ThreadInv, Noticed
      <4>3. InReply(u) => InReply(u)'
        BY <1>3, <1>4, <2>1, <3>1 DEF InReply, SameThread
      <4>4. InCall(u) => InCall(u)'
        BY <1>4, <3>1 DEF InCall, SameThread
      <4>5. InBox(u) => InBox(u)'
        BY <1>4, <2>1, <3>1 DEF InBox, SameThread
      <4>6. InBroadcast(u) => InBroadcast(u)' \/ InBox(u)'
        BY <1>3, <1>4, <2>1, <3>1 DEF InBroadcast, InBox, SameThread
      <4> QED
        BY <1>1, <3>3, <4>2, <4>3, <4>4, <4>5, <4>6 DEF Notice
    <3>5. Truthful(u)'
      <4>1. Truth(m)
        BY <1>3 DEF IInv, ClientInv, Sincere
      <4> QED
        BY <1>1, <1>4, <2>0, <2>1, <4>1 DEF ThreadInv, Truthful, Truth
    <3> QED
      BY <2>0, <3>2, <3>3, <3>4, <3>5 DEF ThreadInv
  <2>2. CASE ~(Home[u] = c /\ th[u].waiter)
    <3>1. PICK d \in Client : d = Home[u]
      BY HomeFact
    <3>2. th'[u] = th[u] /\ Kept(u)
      BY <1>1, <1>4, <2>2, KeptSame
    <3>3. cl'[d] \in ClientState /\ cl'[d].tran >= cl[d].tran /\ cl'[d] = cl[d]
      BY <1>1 DEF TypeOK, ClientState
    <3>4. cl'[d].shutdown /\ th[u].st # "ready" => th'[u].sig
      BY <2>0, <3>1, <3>2, <3>3 DEF ThreadInv, InOperation
    <3>5. d = c => ~Waits(u)
      BY <2>0, <2>2, <3>1 DEF ThreadInv, InOperation, Waits
    <3>6. \A k \in Elems(down[d]) : k \in Elems(down'[d]) \/ ~Waits(u)
      BY <1>3, <3>5
    <3> QED
      BY <1>1, <2>0, <3>1, <3>2, <3>3, <3>4, <3>6, KeptThread
  <2> QED
    BY <2>1, <2>2
<1>8. ASSUME NEW d \in Client PROVE Numbered(d)'
  <2>1. Numbered(d)
    BY DEF IInv, ClientInv
  <2>2. \A u \in Thread : Home[u] = d /\ th'[u].st = "call" =>
           /\ th[u].st = "call" /\ th'[u].id = th[u].id /\ th'[u].signaled = th[u].signaled
           /\ th'[u].pc = th[u].pc
    BY <1>4 DEF SameThread
  <2>3. Elems(down'[d]) \subseteq Elems(down[d]) /\ (Distinct(down[d]) => Distinct(down'[d]))
    BY <1>3
  <2> QED
    BY <1>1, <1>5, <2>1, <2>2, <2>3, SameNumbers
<1>9. ASSUME NEW d \in Client PROVE Finished(d)'
  <2>1. \A u \in Thread : th'[u].pc = th[u].pc
    BY <1>4 DEF SameThread
  <2> QED
    BY <1>1, <2>1, StaysFinished DEF IInv, ClientInv
<1>10. \A d \in Client :
        /\ cl'[d].crashed => down'[d] = <<>>
        /\ Elems(down'[d]) \subseteq Elems(down[d])
        /\ \A k \in Elems(down[d]) : k.type = "terminate" => k \in Elems(down'[d])
  <2>1. ~cl[c].crashed
    BY <1>3 DEF IInv, ClientInv, Silent
  <2> QED
    BY <1>1, <1>3, <2>1 DEF IInv, ClientInv, Silent
<1>11. NoStrayReply'
  BY <1>1 DEF IInv, NoStrayReply
<1> QED
  BY <1>1, <1>6, <1>7, <1>8, <1>9, <1>10, <1>11, ClientSide

(* A reply finds the entry of its call, and the thread that waits for it.  *)
LEMMA Replying ==
  ASSUME IInv, NEW c \in Client, DispatchReply(c)
  PROVE  IInv'
<1>1. TypeOK /\ Shape /\ Incoming(c, {"reply"}) /\ UNCHANGED <<up, srv>>
  BY DEF IInv, ThreadInv, Shape, DispatchReply
<1>2. PICK m \in Msg : m = Head(down[c])
  BY <1>1, IncomingFacts
<1>3. /\ down' \in [Client -> Seq(Msg)] /\ down[c] # <<>> /\ m.type = "reply"
      /\ m \in Elems(down[c]) /\ Elems(down[c]) = {m} \cup Elems(down'[c])
      /\ Distinct(down[c]) =>
           /\ Distinct(down'[c]) /\ \A k \in Elems(down'[c]) : k.id # 0 => k.id # m.id
      /\ \A d \in Client : d # c => down'[d] = down[d]
  <2>1. /\ down' \in [Client -> Seq(Msg)] /\ down[c] # <<>> /\ Head(down[c]).type \in {"reply"}
        /\ Head(down[c]) \in Elems(down[c])
        /\ Elems(down[c]) = {Head(down[c])} \cup Elems(down'[c])
        /\ Distinct(down[c]) =>
             /\ Distinct(down'[c])
             /\ \A k \in Elems(down'[c]) : k.id # 0 => k.id # Head(down[c]).id
        /\ \A d \in Client : d # c => down'[d] = down[d]
    BY <1>1, IncomingFacts
  <2> QED
    BY <1>2, <2>1
<1>4. ~cl[c].crashed
  BY <1>3 DEF IInv, ClientInv, Silent
<1>5. /\ Own(c) /\ Requests(c) /\ Replies(c) /\ Distinct(up[c]) /\ Distinct(down[c])
      /\ Called(c, m.id) /\ \A r \in Elems(up[c]) : r.id # m.id
  <2>1. Own(c) /\ Requests(c) /\ Replies(c) /\ Distinct(up[c]) /\ Distinct(down[c])
    BY <1>4 DEF IInv, ClientInv, Numbered
  <2> QED
    BY <1>3, <2>1 DEF Replies
<1>6. m.id # 0 /\ \E t \in Thread : <<m.id, t>> \in cl[c].calls
  BY <1>5 DEF Called
<1> DEFINE entry == {e \in cl[c].calls : e[1] = m.id}
           waiting == {t \in {e[2] : e \in entry} : th[t].st = "call" /\ th[t].id = m.id}
<1>7. /\ cl' = [cl EXCEPT ![c].calls = @ \ entry]
      /\ th' = [t \in Thread |-> IF t \in waiting
                  THEN [th[t] EXCEPT !.msg = m, !.signaled = TRUE, !.sig = TRUE]
                  ELSE th[t]]
      /\ "reply" \in failed' => "reply" \in failed \/ entry = {}
  BY <1>2 DEF DispatchReply
<1>8. entry # {}
  BY <1>6
<1>9. NoStrayReply'
  BY <1>7, <1>8 DEF IInv, NoStrayReply
<1>10. ASSUME NEW t \in Thread
       PROVE  t \in waiting <=> /\ Home[t] = c /\ th[t].st = "call" /\ th[t].id = m.id
                                /\ <<m.id, t>> \in cl[c].calls
  <2>1. ASSUME t \in waiting
        PROVE  /\ Home[t] = c /\ th[t].st = "call" /\ th[t].id = m.id
               /\ <<m.id, t>> \in cl[c].calls
    <3>1. PICK e \in entry : e[2] = t
      BY <2>1
    <3>2. e \in Nat \X Thread
      BY <1>1 DEF TypeOK, ClientState
    <3>3. e = <<m.id, t>>
      BY <3>1, <3>2
    <3>4. Home[t] = c
      BY <1>5, <3>1 DEF Own
    <3> QED
      BY <2>1, <3>1, <3>3, <3>4
  <2>2. ASSUME th[t].st = "call", th[t].id = m.id, <<m.id, t>> \in cl[c].calls
        PROVE  t \in waiting
    <3>1. <<m.id, t>> \in entry /\ <<m.id, t>>[2] = t
      BY <2>2
    <3> QED
      BY <2>2, <3>1
  <2> QED
    BY <2>1, <2>2
<1>11. PICK S : S = cl[c].calls \ entry
  OBVIOUS
<1>12. \A k, t : <<k, t>> \in S <=> <<k, t>> \in cl[c].calls /\ k # m.id
  BY <1>11
<1>13. PICK z \in ClientState : z = cl[c]
  BY <1>1 DEF TypeOK
<1>14. PICK y : y = [z EXCEPT !.calls = S]
  OBVIOUS
<1>15. /\ y \in ClientState /\ y.shutdown = z.shutdown /\ y.tran = z.tran /\ y.calls = S
       /\ y.endwrite = z.endwrite /\ y.crashed = z.crashed /\ y.got = z.got
       /\ y.kernels = z.kernels
  <2>1. S \in SUBSET (Nat \X Thread)
    BY <1>11, <1>13 DEF ClientState
  <2> HIDE DEF entry
  <2> QED
    BY <1>14, <2>1 DEF ClientState
<1>16. cl' = [cl EXCEPT ![c] = y]
  BY <1>1, <1>7, <1>11, <1>13, <1>14 DEF TypeOK
<1>17. /\ cl' \in [Client -> ClientState] /\ cl'[c] = y
       /\ \A d \in Client : d # c => cl'[d] = cl[d]
  BY <1>1, <1>15, <1>16 DEF TypeOK
<1>18. S \subseteq cl[c].calls
  BY <1>11
<1> HIDE DEF entry, waiting
<1>19. ASSUME NEW u \in Thread
       PROVE  /\ SameThread(th[u], th'[u]) /\ th'[u].box = th[u].box
              /\ (th[u].sig => th'[u].sig)
              /\ IF u \in waiting THEN th'[u].msg = m /\ th'[u].signaled /\ th'[u].sig
                 ELSE th'[u] = th[u]
  <2>1. PICK x \in ThreadState : x = th[u]
    BY <1>1 DEF TypeOK
  <2>2. CASE u \in waiting
    <3>1. th'[u] = [x EXCEPT !.msg = m, !.signaled = TRUE, !.sig = TRUE]
      BY <1>7, <2>1, <2>2
    <3>2. LET w == [x EXCEPT !.msg = m, !.signaled = TRUE, !.sig = TRUE] IN
          /\ SameThread(x, w) /\ w.signaled = TRUE /\ w.msg = m /\ w.box = x.box
          /\ w.sig = TRUE
      BY ReplyUpdate
    <3> QED
      BY <2>1, <2>2, <3>1, <3>2
  <2>3. CASE u \notin waiting
    <3>1. th'[u] = th[u]
      BY <1>7, <2>3
    <3> QED
      BY <2>1, <2>3, <3>1 DEF SameThread
  <2> QED
    BY <2>2, <2>3
<1>20. th' \in [Thread -> ThreadState]
  <2>1. th' = [u \in Thread |-> th'[u]]
    BY <1>7
  <2> QED
    BY <1>19, <2>1 DEF SameThread
<1>21. TypeOK'
  BY <1>1, <1>3, <1>17, <1>20 DEF TypeOK
<1>22. ASSUME NEW u \in Thread PROVE ThreadInv(u)'
  <2>0. ThreadInv(u)
    BY DEF IInv
  <2>1. CASE u \in waiting
    <3>0. /\ Home[u] = c /\ th[u].st = "call" /\ th[u].id = m.id /\ <<m.id, u>> \in cl[c].calls
          /\ ~th[u].signaled
      BY <1>10, <2>0, <2>1 DEF ThreadInv, InOperation
    <3>1. (Ended(u)' <=> Ended(u)) /\ StepOf(u)' = StepOf(u)
      BY <1>19 DEF Ended, StepOf, SameThread
    <3>2. InOperation(u)'
      <4>1. <<m.id, u>> \notin S
        BY <1>12
      <4>2. th'[u].id \in 1 .. cl'[c].tran
        BY <1>13, <1>15, <1>17, <1>19, <2>0, <3>0 DEF ThreadInv, InOperation, SameThread
      <4> QED
        BY <1>13, <1>15, <1>17, <1>19, <2>0, <2>1, <3>0, <3>1, <4>1, <4>2
        DEF ThreadInv, InOperation, SameThread
    <3>3. ~InRequest(u)
      BY <1>5, <3>0 DEF InRequest
    <3>4. Unread(u)'
      BY <1>1, <2>0, <3>0, <3>3 DEF ThreadInv, Unread
    <3>5. Noticed(u)'
      <4> SUFFICES ASSUME Waits(u)', Home[u] \notin srv.closed, Happened(StepOf(u))'
                   PROVE  Notice(u)'
        BY <1>1 DEF Noticed
      <4>1. Happened(StepOf(u)) /\ Waits(u)
        BY <1>1, <1>19, <3>1 DEF Happened, Waits, SameThread
      <4>2. Notice(u)
        BY <2>0, <4>1 DEF ThreadInv, Noticed
      <4>3. InReply(u) => InCall(u)'
        BY <1>3, <1>5, <1>6, <1>19, <2>1, <3>0, <3>1 DEF InReply, InCall, SameThread
      <4>4. ~InCall(u)
        BY <3>0 DEF InCall
      <4>5. InBox(u) => InBox(u)'
        BY <1>19, <3>1 DEF InBox, SameThread
      <4>6. InBroadcast(u) => InBroadcast(u)'
        BY <1>3, <3>0, <3>1 DEF InBroadcast
      <4>7. cl[c].shutdown => cl'[c].shutdown
        BY <1>13, <1>15, <1>17
      <4> QED
        BY <3>0, <3>3, <4>2, <4>3, <4>4, <4>5, <4>6, <4>7 DEF Notice
    <3>6. Truthful(u)'
      <4>1. Truth(m)
        BY <1>3 DEF IInv, ClientInv, Sincere
      <4> QED
        BY <1>1, <1>19, <2>0, <2>1, <4>1 DEF ThreadInv, Truthful, Truth
    <3> QED
      BY <3>2, <3>4, <3>5, <3>6 DEF ThreadInv
  <2>2. CASE u \notin waiting
    <3>1. PICK d \in Client : d = Home[u]
      BY HomeFact
    <3>2. th'[u] = th[u] /\ Kept(u)
      BY <1>1, <1>19, <2>2, KeptSame
    <3>3. /\ cl'[d] \in ClientState /\ cl'[d].tran = cl[d].tran /\ cl'[d].crashed = cl[d].crashed
          /\ cl'[d].shutdown = cl[d].shutdown /\ cl'[d].endwrite = cl[d].endwrite
      BY <1>13, <1>15, <1>17
    <3>4. cl'[d].tran >= cl[d].tran
      <4>1. cl[d].tran \in Nat
        BY <1>1 DEF TypeOK, ClientState
      <4> QED
        BY <3>3, <4>1
    <3>5. cl'[d].shutdown /\ th[u].st # "ready" => th'[u].sig
      BY <2>0, <3>1, <3>2, <3>3 DEF ThreadInv, InOperation
    <3>6. th[u].st = "call" => (<<th[u].id, u>> \in cl[d].calls <=> <<th[u].id, u>> \in cl'[d].calls)
      <4>1. CASE d = c
        BY <1>10, <1>12, <1>15, <1>17, <2>2, <3>1, <4>1
      <4>2. CASE d # c
        BY <1>17, <4>2
      <4> QED
        BY <4>1, <4>2
    <3>7. d = c => ~(th[u].st = "call" /\ ~th[u].signaled /\ m.id = th[u].id)
      BY <1>10, <2>0, <2>2, <3>1 DEF ThreadInv, InOperation
    <3>8. \A k \in Elems(down[d]) :
           \/ k \in Elems(down'[d]) \/ cl'[d].shutdown \/ ~Waits(u)
           \/ /\ k.type \notin {"terminate", "broadcast"}
              /\ ~(/\ k.type = "reply" /\ th[u].st = "call" /\ ~th[u].signaled
                   /\ k.id = th[u].id)
      <4>1. CASE d = c
        BY <1>3, <3>7, <4>1
      <4>2. CASE d # c
        BY <1>3, <4>2
      <4> QED
        BY <4>1, <4>2
    <3> QED
      BY <1>1, <2>0, <3>1, <3>2, <3>3, <3>4, <3>5, <3>6, <3>8, KeptThread
  <2> QED
    BY <2>1, <2>2
<1>23. ASSUME NEW d \in Client PROVE Numbered(d)'
  <2>1. CASE d # c
    <3>1. /\ Numbered(d) /\ cl'[d] = cl[d] /\ up'[d] = up[d] /\ down'[d] = down[d]
      BY <1>1, <1>3, <1>17, <2>1 DEF IInv, ClientInv
    <3>2. \A u \in Thread : Home[u] = d => th'[u] = th[u]
      BY <1>10, <1>19, <2>1
    <3> QED
      BY <1>1, <1>20, <3>1, <3>2, SameNumbers
  <2>2. CASE d = c
    <3>1. \A k : Called(c, k) /\ k # m.id => Called(c, k)'
      BY <1>12, <1>13, <1>15, <1>17 DEF Called
    <3>2. Requests(c)'
      <4> SUFFICES ASSUME NEW q \in Elems(up[c])
                   PROVE  /\ q.type \in AskOps => q.id # 0
                          /\ q.id # 0 => Called(c, q.id)'
                          /\ \A u \in Thread :
                               Home[u] = c /\ th'[u].st = "call" /\ th'[u].id = q.id =>
                                 /\ ~th'[u].signaled /\ q.type = StepOf(u)'.op
                                 /\ q.name = StepOf(u)'.name
        BY <1>1 DEF Requests
      <4>1. /\ q.type \in AskOps => q.id # 0
            /\ q.id # 0 => Called(c, q.id)
            /\ q.id # m.id
        BY <1>5 DEF Requests
      <4>2. ASSUME NEW u \in Thread, Home[u] = c, th'[u].st = "call", th'[u].id = q.id
            PROVE  /\ ~th'[u].signaled /\ q.type = StepOf(u)'.op
                   /\ q.name = StepOf(u)'.name
        <5>1. th[u].st = "call" /\ th[u].id = q.id
          BY <1>19, <4>2 DEF SameThread
        <5>2. u \notin waiting
          BY <1>10, <4>1, <5>1
        <5>3. th'[u] = th[u] /\ StepOf(u)' = StepOf(u)
          BY <1>19, <5>2 DEF StepOf
        <5> QED
          BY <1>5, <4>2, <5>1, <5>3 DEF Requests
      <4> QED
        BY <3>1, <4>1, <4>2
    <3>3. Replies(c)'
      <4> SUFFICES ASSUME NEW k \in Elems(down'[c])
                   PROVE  /\ k.type # "reply" => k.id = 0
                          /\ k.type = "reply" =>
                               Called(c, k.id)' /\ \A q \in Elems(up[c]) : q.id # k.id
        BY <1>1 DEF Replies
      <4>1. k \in Elems(down[c]) /\ (k.id # 0 => k.id # m.id)
        BY <1>3, <1>5
      <4>2. /\ k.type # "reply" => k.id = 0
            /\ k.type = "reply" => Called(c, k.id) /\ \A q \in Elems(up[c]) : q.id # k.id
        BY <1>5, <4>1 DEF Replies
      <4>3. k.type = "reply" => k.id # m.id
        BY <4>1, <4>2 DEF Called
      <4> QED
        BY <3>1, <4>2, <4>3
    <3>4. Own(c)'
      BY <1>5, <1>15, <1>17, <1>18 DEF Own
    <3> QED
      BY <1>1, <1>3, <1>5, <2>2, <3>2, <3>3, <3>4 DEF Numbered
  <2> QED
    BY <2>1, <2>2
<1>24. ASSUME NEW d \in Client PROVE Finished(d)'
  <2>1. \A u \in Thread : th'[u].pc = th[u].pc
    BY <1>19 DEF SameThread
  <2>2. /\ cl'[d].endwrite = cl[d].endwrite /\ cl'[d].got = cl[d].got
        /\ cl'[d].kernels = cl[d].kernels
    BY <1>13, <1>15, <1>17
  <2> QED
    BY <2>1, <2>2, StaysFinished DEF IInv, ClientInv
<1>25. \A d \in Client :
        /\ cl'[d].crashed => down'[d] = <<>>
        /\ Elems(down'[d]) \subseteq Elems(down[d])
        /\ cl[d].shutdown \/ cl[d].crashed => cl'[d].shutdown \/ cl'[d].crashed
        /\ \A k \in Elems(down[d]) : k.type = "terminate" => k \in Elems(down'[d])
  <2>1. \A d \in Client : cl'[d].crashed = cl[d].crashed /\ cl'[d].shutdown = cl[d].shutdown
    BY <1>13, <1>15, <1>17
  <2>2. \A k \in Elems(down[c]) : k.type = "terminate" => k \in Elems(down'[c])
    BY <1>3
  <2> QED
    BY <1>3, <1>4, <2>1, <2>2 DEF IInv, ClientInv, Silent
<1> QED
  BY <1>1, <1>9, <1>21, <1>22, <1>23, <1>24, <1>25, ClientSide

(* The destructor of the context, in a process where no thread runs.       *)
LEMMA Ending ==
  ASSUME IInv, NEW c \in Client, EndWrite(c)
  PROVE  IInv'
<1>1. /\ TypeOK /\ Shape /\ Idle(c) /\ cl[c].kernels = {} /\ ~cl[c].crashed
      /\ UNCHANGED <<th, down, srv, failed>>
  BY DEF IInv, ThreadInv, Shape, EndWrite
<1>2. PICK z \in ClientState : z = cl[c]
  BY <1>1 DEF TypeOK
<1>3. PICK y : y = [z EXCEPT !.endwrite = TRUE]
  OBVIOUS
<1>4. /\ y \in ClientState /\ y.shutdown = z.shutdown /\ y.tran = z.tran /\ y.calls = z.calls
      /\ y.crashed = z.crashed /\ y.got = z.got /\ y.kernels = z.kernels
  BY <1>3 DEF ClientState
<1>5. cl' = [cl EXCEPT ![c] = y]
  BY <1>1, <1>2, <1>3 DEF TypeOK, EndWrite
<1>6. /\ cl' \in [Client -> ClientState] /\ cl'[c] = y
      /\ \A d \in Client : d # c => cl'[d] = cl[d]
  BY <1>1, <1>4, <1>5 DEF TypeOK
<1>7. Sends(c)
  <2>1. PICK s : s = [op |-> "eof", name |-> "", of |-> ""]
    OBVIOUS
  <2>2. s.op = "eof" /\ s.name \in Name /\ s.of \in Name
    BY <2>1, ProgramAssumption
  <2>3. Request(s, 0) \in Req /\ Request(s, 0).type = "eof" /\ Request(s, 0).id = 0
    BY <2>2, RequestFacts
  <2>4. "eof" \notin AskOps
    BY DEF AskOps, CallOps, WaitOps
  <2>5. up' = [up EXCEPT ![c] = Append(@, Request(s, 0))]
    BY <2>1 DEF EndWrite
  <2> QED
    BY <2>3, <2>4, <2>5 DEF Sends
<1>8. /\ up' \in [Client -> Seq(Req)]
      /\ \A d \in Client : /\ Elems(up[d]) \subseteq Elems(up'[d])
                           /\ \A r \in Elems(up'[d]) : r \in Elems(up[d])
                                \/ (r.id = 0 /\ r.type \notin AskOps)
                           /\ Distinct(up[d]) => Distinct(up'[d])
  BY <1>1, <1>7, SendsFacts
<1>9. TypeOK'
  BY <1>1, <1>6, <1>8 DEF TypeOK
<1>10. ASSUME NEW u \in Thread PROVE ThreadInv(u)'
  <2>1. PICK d \in Client : d = Home[u] /\ ThreadInv(u) /\ Kept(u)
    BY <1>1, HomeFact, KeptSame DEF IInv
  <2>2. /\ cl'[d] \in ClientState /\ cl'[d].tran = cl[d].tran /\ cl'[d].crashed = cl[d].crashed
        /\ cl'[d].shutdown = cl[d].shutdown /\ cl'[d].calls = cl[d].calls
    BY <1>2, <1>4, <1>6
  <2>3. cl'[d].tran >= cl[d].tran
    <3>1. cl[d].tran \in Nat
      BY <1>1 DEF TypeOK, ClientState
    <3> QED
      BY <2>2, <3>1
  <2>4. cl'[d].shutdown /\ th[u].st # "ready" => th'[u].sig
    BY <1>1, <2>1, <2>2 DEF ThreadInv, InOperation
  <2>5. th[u].st # "ready" => cl'[d].endwrite = cl[d].endwrite
    <3>1. CASE d = c
      <4>1. ~Ended(u) => StepOf(u).op = "spawned"
        BY <1>1, <2>1, <3>1 DEF Idle, ThreadsOf
      <4>2. th[u].st = "ready"
        BY <2>1, <4>1 DEF ThreadInv, InOperation, AskOps, CallOps, WaitOps
      <4> QED
        BY <4>2
    <3>2. CASE d # c
      BY <1>6, <3>2
    <3> QED
      BY <3>1, <3>2
  <2> QED
    BY <1>1, <1>8, <2>1, <2>2, <2>3, <2>4, <2>5, KeptThread
<1>11. ASSUME NEW d \in Client PROVE Numbered(d)'
  <2>1. Numbered(d)
    BY DEF IInv, ClientInv
  <2>2. /\ cl'[d].tran = cl[d].tran /\ cl'[d].calls = cl[d].calls
        /\ cl'[d].crashed = cl[d].crashed
    BY <1>2, <1>4, <1>6
  <2>3. th' \in [Thread -> ThreadState]
    BY <1>1 DEF TypeOK
  <2> QED
    BY <1>1, <1>8, <2>1, <2>2, <2>3, SameNumbers
<1>12. ASSUME NEW d \in Client PROVE Finished(d)'
  <2>1. CASE d = c
    <3>1. Idle(c)'
      BY <1>1, <1>2, <1>4, <1>6 DEF Idle, ThreadsOf, Ended, StepOf
    <3> QED
      BY <1>1, <1>2, <1>4, <1>6, <2>1, <3>1 DEF Finished
  <2>2. CASE d # c
    BY <1>1, <1>6, <2>2, StaysFinished DEF IInv, ClientInv
  <2> QED
    BY <2>1, <2>2
<1>13. \A d \in Client : /\ Silent(d) /\ cl'[d].crashed = cl[d].crashed
                         /\ cl'[d].shutdown = cl[d].shutdown
  BY <1>2, <1>4, <1>6 DEF IInv, ClientInv
<1>14. NoStrayReply'
  BY <1>1 DEF IInv, NoStrayReply
<1> QED
  BY <1>1, <1>9, <1>10, <1>11, <1>12, <1>13, <1>14, ClientSide DEF Silent

(* The process dies.                                                       *)
LEMMA Crashing ==
  ASSUME IInv, NEW c \in Client, Crash(c)
  PROVE  IInv'
<1>1. TypeOK /\ Shape /\ UNCHANGED <<srv, failed>>
  BY DEF IInv, ThreadInv, Shape, Crash
<1>2. PICK y : y = [Started EXCEPT !.crashed = TRUE]
  OBVIOUS
<1>3. y \in ClientState /\ y.crashed /\ ~y.endwrite
  BY <1>2 DEF Started, ClientState
<1>4. /\ cl' \in [Client -> ClientState] /\ cl'[c] = y
      /\ \A d \in Client : d # c => cl'[d] = cl[d]
  BY <1>1, <1>2, <1>3 DEF TypeOK, Crash
<1>5. /\ down' \in [Client -> Seq(Msg)] /\ down'[c] = <<>>
      /\ \A d \in Client : d # c => down'[d] = down[d]
  BY <1>1, EmptySeq DEF TypeOK, Crash
<1>6. /\ up' \in [Client -> Seq(Req)] /\ \A d \in Client : d # c => up'[d] = up[d]
  <2>1. up \in [Client -> Seq(Req)] /\ up[c] \in Seq(Req)
    BY <1>1 DEF TypeOK
  <2>2. PICK s : s = [op |-> "eof", name |-> "", of |-> ""]
    OBVIOUS
  <2>3. s.op = "eof" /\ s.name \in Name /\ s.of \in Name
    BY <2>2, ProgramAssumption
  <2>4. Request(s, 0) \in Req
    BY <2>3, RequestFacts
  <2>5. PICK k \in 0 .. Len(up[c]) :
          up' = [up EXCEPT ![c] = Append(SubSeq(up[c], 1, k), Request(s, 0))]
    BY <2>1, <2>2 DEF Crash
  <2>6. SubSeq(up[c], 1, k) \in Seq(Req)
    BY <2>1, LenProperties, SubSeqProperties
  <2>7. Append(SubSeq(up[c], 1, k), Request(s, 0)) \in Seq(Req)
    BY <2>4, <2>6, ElemsAppend
  <2> QED
    BY <2>1, <2>5, <2>7
<1>7. ASSUME NEW u \in Thread
      PROVE  /\ th'[u] \in ThreadState
             /\ IF Home[u] = c THEN ThreadInv(u)' ELSE th'[u] = th[u]
  <2>1. CASE Home[u] = c
    <3>1. PICK k \in Nat : k = Len(Program[u])
      BY ProgramFact
    <3>2. PICK p \in Nat \ {0} : p = k + 1
      OBVIOUS
    <3>3. th'[u] = Fresh(p)
      BY <2>1, <3>1, <3>2 DEF Crash
    <3> QED
      BY <2>1, <3>1, <3>2, <3>3, ReadyThread
  <2>2. CASE Home[u] # c
    BY <1>1, <2>2 DEF Crash, TypeOK
  <2> QED
    BY <2>1, <2>2
<1>8. th' \in [Thread -> ThreadState]
  <2>1. th' = [u \in Thread |-> th'[u]]
    BY DEF Crash
  <2> QED
    BY <1>7, <2>1
<1>9. TypeOK'
  BY <1>1, <1>4, <1>5, <1>6, <1>8 DEF TypeOK
<1>10. ASSUME NEW u \in Thread PROVE ThreadInv(u)'
  <2>1. CASE Home[u] = c
    BY <1>7, <2>1
  <2>2. CASE Home[u] # c
    <3>1. PICK d \in Client : d = Home[u] /\ d # c
      BY <2>2, HomeFact
    <3>2. ThreadInv(u) /\ th'[u] = th[u] /\ Kept(u)
      BY <1>1, <1>7, <2>2, KeptSame DEF IInv
    <3>3. cl'[d] = cl[d] /\ cl[d] \in ClientState /\ cl'[d].tran >= cl[d].tran
      BY <1>1, <1>4, <3>1 DEF TypeOK, ClientState
    <3>4. cl'[d].shutdown /\ th[u].st # "ready" => th'[u].sig
      BY <3>1, <3>2, <3>3 DEF ThreadInv, InOperation
    <3> QED
      BY <1>1, <1>5, <1>6, <3>1, <3>2, <3>3, <3>4, KeptThread
  <2> QED
    BY <2>1, <2>2
<1>11. ASSUME NEW d \in Client PROVE Numbered(d)' /\ Finished(d)'
  <2>1. CASE d = c
    BY <1>3, <1>4, <2>1 DEF Numbered, Finished
  <2>2. CASE d # c
    <3>1. /\ Numbered(d) /\ Finished(d) /\ cl'[d] = cl[d] /\ up'[d] = up[d] /\ down'[d] = down[d]
      BY <1>4, <1>5, <1>6, <2>2 DEF IInv, ClientInv
    <3>2. \A u \in Thread : Home[u] = d => th'[u] = th[u]
      BY <1>7, <2>2
    <3>3. Numbered(d)'
      BY <1>1, <1>8, <3>1, <3>2, SameNumbers
    <3>4. Finished(d)'
      BY <3>1, <3>2, StaysFinished
    <3> QED
      BY <3>3, <3>4
  <2> QED
    BY <2>1, <2>2
<1>12. \A d \in Client :
        /\ cl'[d].crashed => down'[d] = <<>>
        /\ Elems(down'[d]) \subseteq Elems(down[d])
        /\ cl[d].shutdown \/ cl[d].crashed => cl'[d].shutdown \/ cl'[d].crashed
        /\ \A k \in Elems(down[d]) : k.type = "terminate" =>
             k \in Elems(down'[d]) \/ cl'[d].shutdown \/ cl'[d].crashed
  BY <1>3, <1>4, <1>5, ElemsShort DEF IInv, ClientInv, Silent
<1>13. NoStrayReply'
  BY <1>1 DEF IInv, NoStrayReply
<1> QED
  BY <1>1, <1>9, <1>10, <1>11, <1>12, <1>13, ClientSide

---------------------------------------------------------------------------
(* The steps of the server.                                                *)

(* A step of the server, from what it does to the messages of each process *)
(* and to what it knows.                                                   *)
LEMMA ServerSide ==
  ASSUME IInv, UNCHANGED <<cl, th>>, TypeOK', NoStrayReply', Connections',
         srv.accepted \subseteq srv'.accepted,
         DOMAIN srv.nodes \subseteq DOMAIN srv'.nodes,
         \A n \in DOMAIN srv.nodes : srv.nodes[n] \subseteq srv'.nodes[n],
         \A d \in Client :
           /\ Elems(up'[d]) \subseteq Elems(up[d]) /\ (Distinct(up[d]) => Distinct(up'[d]))
           /\ d \notin srv'.accepted => up'[d] = up[d]
           /\ cl[d].crashed => down'[d] = down[d]
           /\ ~cl[d].crashed => Distinct(down'[d])
           /\ \A m \in Elems(down'[d]) :
                \/ m \in Elems(down[d])
                \/ /\ Truth(m)' /\ (d \notin srv'.accepted => m.type = "eof")
                   /\ m.type # "reply" => m.id = 0
                   /\ m.type = "reply" => /\ m.id # 0 /\ \E r \in Elems(up[d]) : r.id = m.id
                                          /\ \A q \in Elems(up'[d]) : q.id # m.id,
         \A d \in Client : EndTold(d)', \A u \in Thread : Noticed(u)'
  PROVE  IInv'
<1>1. \A m : Truth(m) => Truth(m)'
  BY DEF Truth
<1>2. ASSUME NEW u \in Thread PROVE ThreadInv(u)'
  <2>1. ThreadInv(u)
    BY DEF IInv
  <2>2. InOperation(u)'
    BY <2>1 DEF ThreadInv, InOperation, Ended, StepOf
  <2>3. Unread(u)'
    BY <2>1, HomeFact DEF ThreadInv, Unread, InRequest
  <2>4. Truthful(u)'
    BY <1>1, <2>1 DEF ThreadInv, Truthful
  <2> QED
    BY <2>2, <2>3, <2>4 DEF ThreadInv
<1>3. ASSUME NEW d \in Client PROVE ClientInv(d)'
  <2>1. ClientInv(d)
    BY DEF IInv
  <2>2. Numbered(d)'
    <3> SUFFICES ASSUME ~cl[d].crashed
                 PROVE  Own(d)' /\ Requests(d)' /\ Replies(d)' /\ Distinct(up'[d])
      BY DEF Numbered
    <3>1. Own(d) /\ Requests(d) /\ Replies(d) /\ Distinct(up[d])
      BY <2>1 DEF ClientInv, Numbered
    <3>2. \A n : Called(d, n) <=> Called(d, n)'
      BY DEF Called
    <3>3. Own(d)'
      BY <3>1 DEF Own
    <3>4. \A u \in Thread : StepOf(u)' = StepOf(u)
      BY DEF StepOf
    <3>5. Requests(d)'
      BY <3>1, <3>2, <3>4 DEF Requests
    <3>6. Replies(d)'
      <4> SUFFICES ASSUME NEW m \in Elems(down'[d])
                   PROVE  /\ m.type # "reply" => m.id = 0
                          /\ m.type = "reply" =>
                               Called(d, m.id) /\ \A q \in Elems(up'[d]) : q.id # m.id
        BY <3>2 DEF Replies
      <4>1. CASE m \in Elems(down[d])
        BY <3>1, <4>1 DEF Replies
      <4>2. CASE m \notin Elems(down[d])
        BY <3>1, <4>2 DEF Requests
      <4> QED
        BY <4>1, <4>2
    <3> QED
      BY <3>1, <3>3, <3>5, <3>6
  <2>3. Finished(d)'
    BY <2>1, StaysFinished DEF ClientInv
  <2>4. Silent(d)'
    BY <2>1 DEF ClientInv, Silent
  <2>5. NotHeard(d)'
    BY <2>1 DEF ClientInv, NotHeard
  <2>6. Sincere(d)'
    BY <1>1, <2>1 DEF ClientInv, Sincere
  <2> QED
    BY <2>2, <2>3, <2>4, <2>5, <2>6 DEF ClientInv
<1> QED
  BY <1>2, <1>3 DEF IInv

(* The server reads a message.                                             *)
LEMMA ReceiveFacts ==
  ASSUME IInv, NEW c \in Client, NEW types, Receive(c, types)
  PROVE  /\ c \in srv.accepted \ srv.closed /\ up[c] # <<>> /\ Head(up[c]) \in Req
         /\ Head(up[c]) \in Elems(up[c]) /\ Head(up[c]).type \in types
         /\ up' \in [Client -> Seq(Req)] /\ \A d \in Client : d # c => up'[d] = up[d]
         /\ Elems(up[c]) = {Head(up[c])} \cup Elems(up'[c])
         /\ Distinct(up[c]) => /\ Distinct(up'[c])
                               /\ \A q \in Elems(up'[c]) : q.id # 0 => q.id # Head(up[c]).id
<1>1. up \in [Client -> Seq(Req)] /\ up[c] \in Seq(Req) /\ up[c] # <<>>
  BY DEF IInv, TypeOK, Receive
<1>2. up'[c] = Tail(up[c]) /\ \A d \in Client : d # c => up'[d] = up[d]
  BY <1>1 DEF Receive
<1>3. Tail(up[c]) \in Seq(Req)
  BY <1>1, ElemsTail
<1>4. up' \in [Client -> Seq(Req)]
  BY <1>1, <1>3 DEF Receive
<1>5. c \in srv.accepted \ srv.closed
  BY DEF Receive, Open, IInv, Connections
<1> QED
  BY <1>1, <1>2, <1>4, <1>5, ElemsTail DEF Receive

(* Whoever waits for what has happened keeps the notice of it: the request *)
(* that the server reads is answered, unless the end is on its way, and    *)
(* what has just happened is broadcast.                                    *)
LEMMA Heeded ==
  ASSUME IInv, NEW c \in Client, NEW types, Receive(c, types), UNCHANGED <<cl, th>>,
         srv.closed \subseteq srv'.closed, NEW u \in Thread,
         Elems(down[Home[u]]) \subseteq Elems(down'[Home[u]]),
         \/ srv.shutdown
         \/ /\ Home[u] = c /\ th[u].st = "call" /\ ~th[u].signaled
            /\ th[u].id = Head(up[c]).id /\ StepOf(u).op = Head(up[c]).type
            /\ StepOf(u).name = Head(up[c]).name /\ StepOf(u).op \in WaitOps
            /\ Happened(StepOf(u))
            => InReply(u)',
         Home[u] \in Open /\ StepOf(u).op \in WaitOps /\ ~cl[Home[u]].crashed
           /\ ~Happened(StepOf(u)) /\ Happened(StepOf(u))' => InBroadcast(u)'
  PROVE  Noticed(u)'
<1> SUFFICES ASSUME Waits(u)', Home[u] \notin srv'.closed, Happened(StepOf(u))'
             PROVE  Notice(u)'
  BY DEF Noticed
<1>1. PICK d \in Client : d = Home[u]
  BY HomeFact
<1>2. ThreadInv(u) /\ ClientInv(d) /\ Connections
  BY DEF IInv
<1>3. StepOf(u)' = StepOf(u) /\ Waits(u)
  BY DEF StepOf, Waits
<1>4. ~cl[d].crashed
  BY <1>1, <1>2, <1>3 DEF ThreadInv, InOperation, Waits
<1>5. /\ c \in srv.accepted \ srv.closed /\ Head(up[c]) \in Elems(up[c])
      /\ \A e \in Client : e # c => up'[e] = up[e]
      /\ Elems(up[c]) = {Head(up[c])} \cup Elems(up'[c])
  BY ReceiveFacts
<1>6. InRequest(u) => InRequest(u)' \/ (d = c /\ th[u].id = Head(up[c]).id)
  BY <1>1, <1>5 DEF InRequest
<1>7. CASE d \notin srv.accepted
  BY <1>1, <1>2, <1>3, <1>5, <1>6, <1>7 DEF ThreadInv, Unread, Waits, Notice
<1>8. CASE d \in srv.accepted /\ ~Happened(StepOf(u))
  <2>1. d \in Open
    BY <1>1, <1>2, <1>8 DEF Open, Connections
  <2> QED
    BY <1>1, <1>3, <1>4, <1>8, <2>1 DEF Notice, Waits
<1>9. CASE d \in srv.accepted /\ Happened(StepOf(u))
  <2>1. Notice(u)
    BY <1>1, <1>2, <1>3, <1>9 DEF ThreadInv, Noticed
  <2>2. CASE ~InRequest(u)
    <3>1. InReply(u) => InReply(u)'
      BY <1>1, <1>3 DEF InReply
    <3>2. InCall(u) => InCall(u)'
      BY <1>3 DEF InCall
    <3>3. InBox(u) => InBox(u)'
      BY <1>3 DEF InBox
    <3>4. InBroadcast(u) => InBroadcast(u)'
      BY <1>1, <1>3 DEF InBroadcast
    <3> QED
      BY <2>1, <2>2, <3>1, <3>2, <3>3, <3>4 DEF Notice
  <2>3. CASE InRequest(u) /\ d = c /\ th[u].id = Head(up[c]).id
    <3>1. CASE srv.shutdown
      <4>1. cl[d].shutdown \/ \E m \in Elems(down[d]) : m.type = "terminate"
        BY <1>1, <1>2, <1>4, <1>9, <3>1 DEF ClientInv, EndTold
      <4> QED
        BY <1>1, <4>1 DEF Notice, InBroadcast
    <3>2. CASE ~srv.shutdown
      <4>1. Requests(c) /\ th[u].st = "call"
        BY <1>2, <1>4, <2>3 DEF ClientInv, Numbered, InRequest
      <4>2. /\ ~th[u].signaled /\ Head(up[c]).type = StepOf(u).op
            /\ Head(up[c]).name = StepOf(u).name
        <5>1. PICK r \in Elems(up[c]) : r = Head(up[c])
          BY <1>5
        <5>2. Home[u] = c /\ th[u].id = r.id
          BY <1>1, <2>3, <5>1
        <5>3. ~th[u].signaled /\ r.type = StepOf(u).op /\ r.name = StepOf(u).name
          BY <4>1, <5>2 DEF Requests
        <5> QED
          BY <5>1, <5>3
      <4> QED
        BY <1>1, <1>3, <1>9, <2>3, <3>2, <4>1, <4>2 DEF Notice, Waits
    <3> QED
      BY <3>1, <3>2
  <2> QED
    BY <1>6, <2>2, <2>3 DEF Notice
<1> QED
  BY <1>7, <1>8, <1>9

(* One message, or none, goes out.                                         *)
LEMMA SentFacts ==
  ASSUME IInv, NEW to, NEW m \in Msg, down' = Sent(to, <<m>>)
  PROVE  /\ down' \in [Client -> Seq(Msg)]
         /\ \A d \in Client :
              /\ cl[d].crashed \/ d \notin to => down'[d] = down[d]
              /\ ~cl[d].crashed /\ d \in to =>
                   /\ Elems(down'[d]) = Elems(down[d]) \cup {m}
                   /\ /\ Distinct(down[d])
                      /\ \A k \in Elems(down[d]) : k.id # 0 => k.id # m.id
                      => Distinct(down'[d])
<1>1. down \in [Client -> Seq(Msg)]
  BY DEF IInv, TypeOK
<1>2. PICK s \in Seq(Msg) : s = <<m>> /\ Elems(s) = {m} /\ Distinct(s)
  <2>1. <<m>> \in Seq(Msg)
    OBVIOUS
  <2>2. Elems(<<m>>) = {m} /\ Distinct(<<m>>)
    BY ElemsShort
  <2> QED
    BY <2>1, <2>2
<1>3. ASSUME NEW d \in Client
      PROVE  /\ down'[d] \in Seq(Msg)
             /\ cl[d].crashed \/ d \notin to => down'[d] = down[d]
             /\ ~cl[d].crashed /\ d \in to =>
                  /\ Elems(down'[d]) = Elems(down[d]) \cup {m}
                  /\ /\ Distinct(down[d])
                     /\ \A k \in Elems(down[d]) : k.id # 0 => k.id # m.id
                     => Distinct(down'[d])
  <2>1. PICK a \in Seq(Msg) : a = down[d]
    BY <1>1
  <2>2. /\ a \o s \in Seq(Msg) /\ Elems(a \o s) = Elems(a) \cup Elems(s)
        /\ /\ Distinct(a) /\ Distinct(s)
           /\ \A k \in Elems(a), l \in Elems(s) : k.id # 0 => k.id # l.id
           => Distinct(a \o s)
    BY ElemsConcat
  <2>3. down'[d] = IF d \in to /\ ~cl[d].crashed THEN a \o s ELSE a
    BY <1>2, <2>1 DEF Sent
  <2> QED
    BY <1>2, <2>1, <2>2, <2>3
<1>4. down' = [d \in Client |-> down'[d]]
  BY DEF Sent
<1> QED
  BY <1>3, <1>4

(* The maps of the server.                                                 *)
LEMMA KnownFacts ==
  ASSUME NEW S, NEW f
  PROVE  f \in Known(S) <=> DOMAIN f \subseteq Name /\ f \in [DOMAIN f -> S]
<1>1. ASSUME f \in Known(S) PROVE DOMAIN f \subseteq Name /\ f \in [DOMAIN f -> S]
  <2>1. PICK D \in SUBSET Name : f \in [D -> S]
    BY <1>1 DEF Known
  <2> QED
    BY <2>1
<1>2. ASSUME DOMAIN f \subseteq Name, f \in [DOMAIN f -> S] PROVE f \in Known(S)
  BY <1>2 DEF Known
<1> QED
  BY <1>1, <1>2

LEMMA PutFacts ==
  ASSUME NEW S, NEW f \in Known(S), NEW x \in Name, NEW v \in S
  PROVE  /\ Put(f, x, v) \in Known(S) /\ DOMAIN Put(f, x, v) = DOMAIN f \cup {x}
         /\ Put(f, x, v)[x] = v
         /\ \A y \in DOMAIN f : y # x => Put(f, x, v)[y] = f[y]
<1>1. DOMAIN f \subseteq Name /\ f \in [DOMAIN f -> S]
  BY KnownFacts
<1>2. PICK g : g = Put(f, x, v)
  OBVIOUS
<1>3. g = [y \in DOMAIN f \cup {x} |-> IF y = x THEN v ELSE f[y]]
  BY <1>2 DEF Put
<1>4. /\ DOMAIN g = DOMAIN f \cup {x} /\ g[x] = v
      /\ \A y \in DOMAIN f : y # x => g[y] = f[y]
  BY <1>3
<1>5. DOMAIN g \subseteq Name /\ g \in [DOMAIN g -> S]
  BY <1>1, <1>3, <1>4
<1>6. g \in Known(S)
  BY <1>5, KnownFacts
<1> QED
  BY <1>2, <1>4, <1>6

(* The server answers, broadcasts, passes on a message, or does nothing    *)
(* but take note of what it has read.                                      *)
LEMMA Serving ==
  ASSUME IInv, NEW c \in Client, NEW types, Receive(c, types),
         NEW to, NEW m \in Msg, down' = Sent(to, <<m>>), to \subseteq srv.accepted,
         \/ m.type # "reply" /\ m.id = 0
         \/ /\ to = {c} /\ m.type = "reply" /\ m.id = Head(up[c]).id
            /\ Head(up[c]).type \in AskOps,
         Truth(m)', srv' \in ServerState, srv'.shutdown = srv.shutdown,
         srv'.accepted = srv.accepted, srv'.clients = srv.clients,
         srv'.closed = srv.closed \/ srv'.closed = srv.closed \cup {c},
         DOMAIN srv.nodes \subseteq DOMAIN srv'.nodes,
         \A n \in DOMAIN srv.nodes : srv.nodes[n] \subseteq srv'.nodes[n], NoStrayReply',
         \A u \in Thread :
           \/ srv.shutdown
           \/ /\ Home[u] = c /\ th[u].st = "call" /\ ~th[u].signaled
              /\ th[u].id = Head(up[c]).id /\ StepOf(u).op = Head(up[c]).type
              /\ StepOf(u).name = Head(up[c]).name /\ StepOf(u).op \in WaitOps
              /\ Happened(StepOf(u))
              => InReply(u)',
         \A u \in Thread :
           Home[u] \in Open /\ StepOf(u).op \in WaitOps /\ ~cl[Home[u]].crashed
             /\ ~Happened(StepOf(u)) /\ Happened(StepOf(u))' => InBroadcast(u)'
  PROVE  IInv'
<1>1. UNCHANGED <<cl, th>>
  BY DEF Receive
<1>2. PICK r \in Req : r = Head(up[c])
  BY ReceiveFacts
<1>3. /\ c \in srv.accepted \ srv.closed /\ r \in Elems(up[c])
      /\ up' \in [Client -> Seq(Req)] /\ \A d \in Client : d # c => up'[d] = up[d]
      /\ Elems(up[c]) = {r} \cup Elems(up'[c])
      /\ Distinct(up[c]) =>
           Distinct(up'[c]) /\ \A q \in Elems(up'[c]) : q.id # 0 => q.id # r.id
  BY <1>2, ReceiveFacts
<1>4. /\ down' \in [Client -> Seq(Msg)]
      /\ \A d \in Client :
           /\ cl[d].crashed \/ d \notin to => down'[d] = down[d]
           /\ ~cl[d].crashed /\ d \in to =>
                /\ Elems(down'[d]) = Elems(down[d]) \cup {m}
                /\ /\ Distinct(down[d])
                   /\ \A k \in Elems(down[d]) : k.id # 0 => k.id # m.id
                   => Distinct(down'[d])
  BY SentFacts
<1>5. TypeOK'
  BY <1>1, <1>3, <1>4 DEF IInv, TypeOK
<1>6. Connections'
  BY <1>3 DEF IInv, Connections
<1>7. ASSUME NEW u \in Thread PROVE Noticed(u)'
  <2>1. Elems(down[Home[u]]) \subseteq Elems(down'[Home[u]])
    BY <1>4, HomeFact
  <2> QED
    BY <1>1, <2>1, Heeded
<1>8. ASSUME NEW d \in Client PROVE EndTold(d)'
  <2>1. EndTold(d) /\ Elems(down[d]) \subseteq Elems(down'[d])
    BY <1>4 DEF IInv, ClientInv
  <2>2. d \notin srv'.closed => d \notin srv.closed
    OBVIOUS
  <2> QED
    BY <1>1, <2>1, <2>2 DEF EndTold
<1>9. ASSUME NEW d \in Client
      PROVE  /\ Elems(up'[d]) \subseteq Elems(up[d]) /\ (Distinct(up[d]) => Distinct(up'[d]))
             /\ d \notin srv'.accepted => up'[d] = up[d]
             /\ cl[d].crashed => down'[d] = down[d]
             /\ ~cl[d].crashed => Distinct(down'[d])
             /\ \A k \in Elems(down'[d]) :
                  \/ k \in Elems(down[d])
                  \/ /\ Truth(k)' /\ (d \notin srv'.accepted => k.type = "eof")
                     /\ k.type # "reply" => k.id = 0
                     /\ k.type = "reply" => /\ k.id # 0 /\ \E q \in Elems(up[d]) : q.id = k.id
                                            /\ \A q \in Elems(up'[d]) : q.id # k.id
  <2>1. Elems(up'[d]) \subseteq Elems(up[d]) /\ (Distinct(up[d]) => Distinct(up'[d]))
    BY <1>3
  <2>2. (d \notin srv'.accepted => up'[d] = up[d]) /\ (cl[d].crashed => down'[d] = down[d])
    BY <1>3, <1>4
  <2>3. CASE cl[d].crashed \/ d \notin to
    <3>1. ~cl[d].crashed => Distinct(down[d])
      BY DEF IInv, ClientInv, Numbered
    <3> QED
      BY <1>4, <2>1, <2>2, <2>3, <3>1
  <2>4. CASE ~cl[d].crashed /\ d \in to
    <3>1. Requests(d) /\ Replies(d) /\ Distinct(up[d]) /\ Distinct(down[d])
      BY <2>4 DEF IInv, ClientInv, Numbered
    <3>2. CASE m.type # "reply" /\ m.id = 0
      <4>1. Distinct(down'[d])
        BY <1>4, <2>4, <3>1, <3>2
      <4>2. d \in srv'.accepted
        BY <2>4
      <4> QED
        BY <1>4, <2>1, <2>2, <2>4, <3>2, <4>1, <4>2
    <3>3. CASE to = {c} /\ m.type = "reply" /\ m.id = r.id /\ r.type \in AskOps
      <4>1. d = c /\ r.id # 0
        BY <1>3, <2>4, <3>1, <3>3 DEF Requests
      <4>2. \A k \in Elems(down[d]) : k.id # 0 => k.id # m.id
        BY <1>3, <3>1, <3>3, <4>1 DEF Replies
      <4>3. Distinct(down'[d])
        BY <1>4, <2>4, <3>1, <4>2
      <4>4. /\ m.id # 0 /\ (\E q \in Elems(up[d]) : q.id = m.id)
            /\ \A q \in Elems(up'[d]) : q.id # m.id
        BY <1>3, <3>1, <3>3, <4>1
      <4>5. d \in srv'.accepted
        BY <2>4
      <4> QED
        BY <1>4, <2>1, <2>2, <2>4, <3>3, <4>3, <4>4, <4>5
    <3> QED
      BY <1>2, <3>2, <3>3
  <2> QED
    BY <2>3, <2>4
<1> QED
  BY <1>1, <1>5, <1>6, <1>7, <1>8, <1>9, ServerSide

(* What the server sends.                                                  *)
LEMMA ReplyFacts ==
  ASSUME IInv, NEW r \in Req, NEW ok \in BOOLEAN, NEW kind \in Kinds, NEW F \in SUBSET Flags
  PROVE  LET m == Reply(r, ok, kind, F) IN
         /\ m \in Msg /\ m.type = "reply" /\ m.id = r.id /\ m.kind = kind /\ m.name = r.name
         /\ m.flags = F /\ m.live = srv.live
<1>1. PICK i \in Nat, n \in Name, l \in Int : i = r.id /\ n = r.name /\ l = srv.live
  BY DEF IInv, TypeOK, ServerState, Req
<1>2. Reply(r, ok, kind, F) = [type |-> "reply", id |-> i, ok |-> ok, kind |-> kind,
                               name |-> n, flags |-> F, live |-> l]
  BY <1>1 DEF Reply
<1>3. LET m == Reply(r, ok, kind, F) IN
         /\ m \in Msg /\ m.type = "reply" /\ m.id = i /\ m.kind = kind /\ m.name = n
         /\ m.flags = F /\ m.live = l
  BY <1>2 DEF Msg, MsgTypes
<1> QED
  BY <1>1, <1>3

(* What goes out on the request that the server reads from c: to some that *)
(* are connected, or an answer.                                            *)
Outgoing(c, to, m) ==
  /\ to \subseteq srv.accepted /\ m \in Msg /\ m.flags = {} /\ down' = Sent(to, <<m>>)
  /\ \/ m.type # "reply" /\ m.id = 0
     \/ /\ to = {c} /\ m.type = "reply" /\ m.id = Head(up[c]).id
        /\ Head(up[c]).type \in AskOps

LEMMA NoMessage ==
  ASSUME IInv, UNCHANGED down, NEW c
  PROVE  \E m : Outgoing(c, {}, m)
<1>1. /\ Note("none") \in Msg /\ Note("none").type = "none" /\ Note("none").id = 0
      /\ Note("none").flags = {}
  BY NoteFacts DEF MsgTypes
<1>2. down' = Sent({}, <<Note("none")>>)
  BY DEF IInv, TypeOK, Sent
<1> QED
  BY <1>1, <1>2 DEF Outgoing

LEMMA Answer ==
  ASSUME IInv, NEW c \in Client, NEW types, Receive(c, types), types \subseteq AskOps,
         NEW ok \in BOOLEAN, NEW kind \in {"none", "kernel", "node"},
         down' = Sent({c}, <<Reply(Head(up[c]), ok, kind, {})>>)
  PROVE  \E m : Outgoing(c, {c}, m)
<1>1. PICK r \in Req : r = Head(up[c]) /\ r.type \in AskOps /\ c \in srv.accepted
  BY ReceiveFacts
<1>2. PICK k \in Kinds, F \in SUBSET Flags : k = kind /\ F = {}
  BY Zenon DEF Kinds
<1>3. /\ Reply(r, ok, k, F) \in Msg /\ Reply(r, ok, k, F).type = "reply"
      /\ Reply(r, ok, k, F).id = r.id /\ Reply(r, ok, k, F).flags = F
  BY ReplyFacts
<1>4. PICK m : m = Reply(r, ok, k, F)
  OBVIOUS
<1>5. Outgoing(c, {c}, m)
  BY <1>1, <1>2, <1>3, <1>4 DEF Outgoing
<1> QED
  BY <1>5

(* Nothing happens that a thread waits for.                                *)
Calm(s, x) ==
  /\ x \in ServerState /\ x.shutdown = s.shutdown /\ x.accepted = s.accepted
  /\ x.clients = s.clients /\ x.live = s.live
  /\ DOMAIN s.nodes \subseteq DOMAIN x.nodes
  /\ \A n \in DOMAIN s.nodes : s.nodes[n] \subseteq x.nodes[n]
  /\ \A n \in DOMAIN x.nodes : x.nodes[n] # {} =>
       n \in DOMAIN s.nodes /\ x.nodes[n] = s.nodes[n]
  /\ \A n \in DOMAIN x.kernels : x.kernels[n].flags # {} =>
       n \in DOMAIN s.kernels /\ x.kernels[n].flags = s.kernels[n].flags

LEMMA CalmServer ==
  ASSUME NEW s \in ServerState
  PROVE  /\ Calm(s, s)
         /\ \A f \in Known(Name) :
              Calm(s, [s EXCEPT !.ends = f]) /\ [s EXCEPT !.ends = f].closed = s.closed
         /\ \A C \in SUBSET Client :
              Calm(s, [s EXCEPT !.closed = C]) /\ [s EXCEPT !.closed = C].closed = C
<1>1. Calm(s, s)
  BY DEF Calm
<1>2. ASSUME NEW f \in Known(Name)
      PROVE  Calm(s, [s EXCEPT !.ends = f]) /\ [s EXCEPT !.ends = f].closed = s.closed
  <2>1. PICK x : x = [s EXCEPT !.ends = f]
    OBVIOUS
  <2>2. /\ x \in ServerState /\ x.shutdown = s.shutdown /\ x.accepted = s.accepted
        /\ x.clients = s.clients /\ x.closed = s.closed /\ x.kernels = s.kernels
        /\ x.nodes = s.nodes /\ x.live = s.live
    BY <2>1 DEF ServerState
  <2> QED
    BY <2>1, <2>2 DEF Calm
<1>3. ASSUME NEW C \in SUBSET Client
      PROVE  Calm(s, [s EXCEPT !.closed = C]) /\ [s EXCEPT !.closed = C].closed = C
  <2>1. PICK x : x = [s EXCEPT !.closed = C]
    OBVIOUS
  <2>2. /\ x \in ServerState /\ x.shutdown = s.shutdown /\ x.accepted = s.accepted
        /\ x.clients = s.clients /\ x.closed = C /\ x.kernels = s.kernels
        /\ x.nodes = s.nodes /\ x.live = s.live
    BY <2>1 DEF ServerState
  <2> QED
    BY <2>1, <2>2 DEF Calm
<1> QED
  BY <1>1, <1>2, <1>3

(* A kernel is set up that does not live yet.                              *)
LEMMA KernelPut ==
  ASSUME NEW s \in ServerState, NEW n \in Name, NEW v \in KernelInfo, v.flags = {}
  PROVE  LET x == [s EXCEPT !.kernels = Put(s.kernels, n, v)] IN
         Calm(s, x) /\ x.closed = s.closed
<1>1. PICK g \in Known(KernelInfo) : g = s.kernels
  BY DEF ServerState
<1>2. PICK f \in Known(KernelInfo) :
        /\ f = Put(g, n, v) /\ DOMAIN f = DOMAIN g \cup {n} /\ f[n] = v
        /\ \A y \in DOMAIN g : y # n => f[y] = g[y]
  BY PutFacts
<1>3. PICK x : x = [s EXCEPT !.kernels = f]
  OBVIOUS
<1>4. /\ x \in ServerState /\ x.shutdown = s.shutdown /\ x.accepted = s.accepted
      /\ x.clients = s.clients /\ x.closed = s.closed /\ x.nodes = s.nodes
      /\ x.live = s.live /\ x.kernels = f
  BY <1>3 DEF ServerState
<1>5. \A k \in DOMAIN f : f[k].flags # {} => k \in DOMAIN g /\ f[k].flags = g[k].flags
  BY <1>2
<1>6. Calm(s, x) /\ x.closed = s.closed
  BY <1>1, <1>4, <1>5 DEF Calm
<1> QED
  BY <1>1, <1>2, <1>3, <1>6

(* A node gets its key and has not started yet.                            *)
LEMMA NodePut ==
  ASSUME NEW s \in ServerState, NEW n \in Name, n \notin DOMAIN s.nodes
  PROVE  LET x == [s EXCEPT !.nodes = Put(s.nodes, n, {})] IN
         Calm(s, x) /\ x.closed = s.closed
<1>1. PICK g \in Known(NodeInfo), v \in NodeInfo : g = s.nodes /\ v = {}
  BY DEF ServerState, NodeInfo
<1>2. PICK f \in Known(NodeInfo) :
        /\ f = Put(g, n, v) /\ DOMAIN f = DOMAIN g \cup {n} /\ f[n] = v
        /\ \A y \in DOMAIN g : y # n => f[y] = g[y]
  BY PutFacts
<1>3. PICK x : x = [s EXCEPT !.nodes = f]
  OBVIOUS
<1>4. /\ x \in ServerState /\ x.shutdown = s.shutdown /\ x.accepted = s.accepted
      /\ x.clients = s.clients /\ x.closed = s.closed /\ x.kernels = s.kernels
      /\ x.live = s.live /\ x.nodes = f
  BY <1>3 DEF ServerState
<1>5. /\ DOMAIN g \subseteq DOMAIN f /\ \A k \in DOMAIN g : g[k] \subseteq f[k]
      /\ \A k \in DOMAIN f : f[k] # {} => k \in DOMAIN g /\ f[k] = g[k]
  BY <1>1, <1>2
<1>6. Calm(s, x) /\ x.closed = s.closed
  BY <1>1, <1>4, <1>5 DEF Calm
<1> QED
  BY <1>1, <1>2, <1>3, <1>6

(* The server takes note of something that no thread waits for.            *)
LEMMA Taking ==
  ASSUME IInv, NEW c \in Client, NEW types, Receive(c, types),
         srv.shutdown \/ types \cap WaitOps = {},
         NEW to, NEW m, Outgoing(c, to, m), Calm(srv, srv'),
         srv'.closed = srv.closed \/ srv'.closed = srv.closed \cup {c}, NoStrayReply'
  PROVE  IInv'
<1>1. Truth(m)'
  BY DEF Truth, Outgoing
<1>2. Head(up[c]).type \in types /\ UNCHANGED th
  BY DEF Receive
<1>3. ASSUME NEW u \in Thread, Happened(StepOf(u))' PROVE Happened(StepOf(u))
  <2>1. StepOf(u)' = StepOf(u)
    BY <1>2 DEF StepOf
  <2> QED
    BY <1>3, <2>1 DEF Happened, Calm
<1>4. ASSUME NEW u \in Thread
      PROVE  \/ srv.shutdown
             \/ /\ Home[u] = c /\ th[u].st = "call" /\ ~th[u].signaled
                /\ th[u].id = Head(up[c]).id /\ StepOf(u).op = Head(up[c]).type
                /\ StepOf(u).name = Head(up[c]).name /\ StepOf(u).op \in WaitOps
                /\ Happened(StepOf(u))
                => InReply(u)'
  BY <1>2
<1>5. /\ srv' \in ServerState /\ srv'.shutdown = srv.shutdown
      /\ srv'.accepted = srv.accepted /\ srv'.clients = srv.clients
      /\ DOMAIN srv.nodes \subseteq DOMAIN srv'.nodes
      /\ \A n \in DOMAIN srv.nodes : srv.nodes[n] \subseteq srv'.nodes[n]
  BY DEF Calm
<1>6. /\ m \in Msg /\ down' = Sent(to, <<m>>) /\ to \subseteq srv.accepted
      /\ \/ m.type # "reply" /\ m.id = 0
         \/ /\ to = {c} /\ m.type = "reply" /\ m.id = Head(up[c]).id
            /\ Head(up[c]).type \in AskOps
  BY DEF Outgoing
<1> QED
  BY <1>1, <1>3, <1>4, <1>5, <1>6, Serving

(* The messages after which no answer comes.                               *)
LEMMA Unanswered ==
  ASSUME IInv, NEW c \in Client, Ignore(c) \/ LogMessage(c)
  PROVE  IInv'
<1>1. UNCHANGED <<down, srv, failed>>
  BY DEF Ignore, LogMessage
<1>2. PICK m : Outgoing(c, {}, m)
  BY <1>1, NoMessage
<1>3. Calm(srv, srv') /\ NoStrayReply'
  BY <1>1, CalmServer DEF IInv, TypeOK, NoStrayReply
<1>4. PICK types : Receive(c, types) /\ (srv.shutdown \/ types \cap WaitOps = {})
  <2>1. CASE Ignore(c)
    BY <2>1 DEF Ignore
  <2>2. CASE LogMessage(c)
    <3>1. Receive(c, {"log"}) /\ {"log"} \cap WaitOps = {}
      BY <2>2 DEF LogMessage, Dispatch, WaitOps
    <3> QED
      BY <3>1
  <2> QED
    BY <2>1, <2>2
<1> QED
  BY <1>1, <1>2, <1>3, <1>4, Taking

LEMMA Connecting ==
  ASSUME IInv, NEW c \in Client, ConnectEndpoints(c)
  PROVE  IInv'
<1>1. UNCHANGED <<down, failed>> /\ Receive(c, {"connect"})
  BY DEF ConnectEndpoints, Dispatch
<1>2. PICK m : Outgoing(c, {}, m)
  BY <1>1, NoMessage
<1>3. PICK s \in ServerState, r \in Req : s = srv /\ r = Head(up[c])
  BY <1>1, ReceiveFacts DEF IInv, TypeOK
<1>4. PICK e \in Known(Name) : e = Put(Put(s.ends, r.of, r.name), r.name, r.of)
  <2>1. r.of \in Name /\ r.name \in Name /\ s.ends \in Known(Name)
    BY DEF Req, ServerState
  <2>2. Put(s.ends, r.of, r.name) \in Known(Name)
    BY <2>1, PutFacts
  <2>3. Put(Put(s.ends, r.of, r.name), r.name, r.of) \in Known(Name)
    BY <2>1, <2>2, PutFacts
  <2> QED
    BY <2>3
<1>5. srv' = [s EXCEPT !.ends = e]
  BY <1>3, <1>4 DEF ConnectEndpoints
<1>6. Calm(srv, srv') /\ srv'.closed = srv.closed
  BY <1>3, <1>5, CalmServer
<1>7. NoStrayReply' /\ {"connect"} \cap WaitOps = {}
  BY <1>1 DEF IInv, NoStrayReply, WaitOps
<1> QED
  BY <1>1, <1>2, <1>6, <1>7, Taking

LEMMA Routing ==
  ASSUME IInv, NEW c \in Client, RouteKernelMessage(c)
  PROVE  IInv'
<1>1. UNCHANGED srv /\ Receive(c, {"create"})
  BY DEF RouteKernelMessage, Dispatch
<1>2. PICK r \in Req : r = Head(up[c])
  BY <1>1, ReceiveFacts
<1>3. PICK m : m = [type |-> "kernel", id |-> 0, ok |-> TRUE, kind |-> r.of,
                    name |-> r.name, flags |-> {}, live |-> 0]
  OBVIOUS
<1>4. m \in Msg /\ m.type = "kernel" /\ m.id = 0 /\ m.flags = {}
  <2>1. PICK k \in Kinds, n \in Name : k = r.of /\ n = r.name
    BY DEF Req, Kinds
  <2>2. m = [type |-> "kernel", id |-> 0, ok |-> TRUE, kind |-> k,
             name |-> n, flags |-> {}, live |-> 0]
    BY <1>3, <2>1
  <2> QED
    BY <2>2 DEF Msg, MsgTypes, Flags
<1>5. PICK to : to \subseteq srv.accepted /\ down' = Sent(to, <<m>>)
  <2>1. \A x : {x} \cap Open \subseteq srv.accepted
    BY DEF Open, IInv, Connections
  <2> QED
    BY <1>2, <1>3, <2>1 DEF RouteKernelMessage
<1>6. Outgoing(c, to, m)
  BY <1>4, <1>5 DEF Outgoing
<1>7. Calm(srv, srv')
  BY <1>1, CalmServer DEF IInv, TypeOK
<1>8. NoStrayReply' /\ {"create"} \cap WaitOps = {}
  BY DEF IInv, NoStrayReply, RouteKernelMessage, WaitOps
<1> QED
  BY <1>1, <1>6, <1>7, <1>8, Taking

LEMMA SettingUp ==
  ASSUME IInv, NEW c \in Client, SetupKernel(c)
  PROVE  IInv'
<1>1. UNCHANGED failed /\ Receive(c, {"setup"})
  BY DEF SetupKernel, Dispatch
<1>2. NoStrayReply' /\ {"setup"} \cap WaitOps = {} /\ {"setup"} \subseteq AskOps
  BY <1>1 DEF IInv, NoStrayReply, WaitOps, AskOps, CallOps
<1>3. PICK s \in ServerState, r \in Req : s = srv /\ r = Head(up[c])
  BY <1>1, ReceiveFacts DEF IInv, TypeOK
<1>4. CASE r.name \in DOMAIN srv.kernels
  <2>1. UNCHANGED <<srv, down>>
    BY <1>3, <1>4 DEF SetupKernel
  <2>2. PICK m : Outgoing(c, {}, m)
    BY <2>1, NoMessage
  <2>3. Calm(srv, srv')
    BY <1>3, <2>1, CalmServer
  <2> QED
    BY <1>1, <1>2, <2>1, <2>2, <2>3, Taking
<1>5. CASE r.name \notin DOMAIN srv.kernels
  <2>1. PICK m : Outgoing(c, {c}, m)
    <3>1. down' = Sent({c}, <<Reply(Head(up[c]), TRUE, "kernel", {})>>)
      BY <1>3, <1>5 DEF SetupKernel
    <3> QED
      BY <1>1, <1>2, <3>1, Answer, Zenon
  <2>2. PICK v \in KernelInfo, n \in Name : v = [client |-> c, flags |-> {}] /\ n = r.name
    <3>1. [client |-> c, flags |-> {}] \in KernelInfo /\ r.name \in Name
      BY DEF KernelInfo, Req
    <3> QED
      BY <3>1
  <2>3. srv' = [s EXCEPT !.kernels = Put(s.kernels, n, v)] /\ v.flags = {}
    BY <1>3, <1>5, <2>2 DEF SetupKernel
  <2>4. Calm(srv, srv') /\ srv'.closed = srv.closed
    BY <1>3, <2>3, KernelPut
  <2> QED
    BY <1>1, <1>2, <2>1, <2>4, Taking
<1> QED
  BY <1>4, <1>5

LEMMA MakingNodeKey ==
  ASSUME IInv, NEW c \in Client, CreateNodeKey(c)
  PROVE  IInv'
<1>1. UNCHANGED failed /\ Receive(c, {"nodekey"})
  BY DEF CreateNodeKey, Dispatch
<1>2. NoStrayReply' /\ {"nodekey"} \cap WaitOps = {} /\ {"nodekey"} \subseteq AskOps
  BY <1>1 DEF IInv, NoStrayReply, WaitOps, AskOps, CallOps
<1>3. PICK s \in ServerState, r \in Req : s = srv /\ r = Head(up[c])
  BY <1>1, ReceiveFacts DEF IInv, TypeOK
<1>4. PICK m : Outgoing(c, {c}, m)
  <2>1. PICK o \in BOOLEAN : o = (r.name \notin DOMAIN srv.nodes)
    OBVIOUS
  <2>2. down' = Sent({c}, <<Reply(Head(up[c]), o, "node", {})>>)
    BY <1>3, <2>1 DEF CreateNodeKey
  <2> QED
    BY <1>1, <1>2, <2>2, Answer, Zenon
<1>5. CASE r.name \in DOMAIN srv.nodes
  <2>1. srv' = s
    BY <1>3, <1>5 DEF CreateNodeKey
  <2> QED
    BY <1>1, <1>2, <1>3, <1>4, <2>1, CalmServer, Taking
<1>6. CASE r.name \notin DOMAIN srv.nodes
  <2>1. PICK n \in Name : n = r.name
    BY DEF Req
  <2>2. srv' = [s EXCEPT !.nodes = Put(s.nodes, n, {})]
    BY <1>3, <1>6, <2>1 DEF CreateNodeKey
  <2>3. Calm(srv, srv') /\ srv'.closed = srv.closed
    BY <1>3, <1>6, <2>1, <2>2, NodePut
  <2> QED
    BY <1>1, <1>2, <1>4, <2>3, Taking
<1> QED
  BY <1>5, <1>6

LEMMA MakingEndpoint ==
  ASSUME IInv, NEW c \in Client, GetCreateEndpointKey(c)
  PROVE  IInv'
<1>1. UNCHANGED failed /\ Receive(c, {"endpoint"})
  BY DEF GetCreateEndpointKey, Dispatch
<1>2. NoStrayReply' /\ {"endpoint"} \cap WaitOps = {} /\ {"endpoint"} \subseteq AskOps
  BY <1>1 DEF IInv, NoStrayReply, WaitOps, AskOps, CallOps
<1>3. PICK s \in ServerState, r \in Req : s = srv /\ r = Head(up[c])
  BY <1>1, ReceiveFacts DEF IInv, TypeOK
<1>4. PICK m : Outgoing(c, {c}, m)
  <2>1. PICK o \in BOOLEAN : o = (r.of \in DOMAIN srv.nodes)
    <3>1. (r.of \in DOMAIN srv.nodes) \in BOOLEAN
      OBVIOUS
    <3> QED
      BY <3>1, Zenon
  <2>2. down' = Sent({c}, <<Reply(Head(up[c]), o, "none", {})>>)
    BY <1>3, <2>1 DEF GetCreateEndpointKey
  <2> QED
    BY <1>1, <1>2, <2>2, Answer, Zenon
<1>5. PICK f \in Known(Name) : f = Put(s.ends, r.name, "")
  <2>1. "" \in Name /\ r.name \in Name /\ s.ends \in Known(Name)
    BY ProgramAssumption DEF Req, ServerState
  <2> QED
    BY <2>1, PutFacts
<1>6. srv' = s \/ srv' = [s EXCEPT !.ends = f]
  BY <1>3, <1>5 DEF GetCreateEndpointKey
<1>7. Calm(srv, srv') /\ srv'.closed = srv.closed
  <2>1. CASE srv' = s
    BY <1>3, <2>1, CalmServer
  <2>2. CASE srv' = [s EXCEPT !.ends = f]
    BY <1>3, <2>2, CalmServer
  <2> QED
    BY <1>6, <2>1, <2>2
<1> QED
  BY <1>1, <1>2, <1>4, <1>7, Taking

LEMMA Disconnecting ==
  ASSUME IInv, NEW c \in Client, Disconnect(c)
  PROVE  IInv'
<1>1. UNCHANGED failed /\ Receive(c, {"eof"})
  BY DEF Disconnect
<1>2. NoStrayReply' /\ {"eof"} \cap WaitOps = {}
  BY <1>1 DEF IInv, NoStrayReply, WaitOps
<1>3. PICK m \in Msg : m = Note("eof") /\ m.type = "eof" /\ m.id = 0 /\ m.flags = {}
  BY NoteFacts DEF MsgTypes
<1>4. c \in srv.accepted
  BY <1>1, ReceiveFacts
<1>5. Outgoing(c, {c}, m)
  BY <1>3, <1>4 DEF Disconnect, Outgoing
<1>6. PICK s \in ServerState : s = srv
  BY DEF IInv, TypeOK
<1>7. PICK C \in SUBSET Client : C = s.closed \cup {c}
  BY DEF ServerState
<1>8. srv' = [s EXCEPT !.closed = C]
  BY <1>6, <1>7 DEF Disconnect
<1>9. Calm(srv, srv') /\ srv'.closed = srv.closed \cup {c}
  BY <1>6, <1>7, <1>8, CalmServer
<1> QED
  BY <1>1, <1>2, <1>5, <1>9, Taking

---------------------------------------------------------------------------
(* What a wait operation looks for.                                        *)
LEMMA SoughtFacts ==
  /\ Sought("waitkernel") = <<"kernel", "live">>
  /\ Sought("waitstart") = <<"node", "started">>
  /\ Sought("waitend") = <<"node", "dead">>
BY DEF Sought

LEMMA WantedFacts ==
  ASSUME NEW s, NEW m
  PROVE  /\ s.op = "waitall" => (Wanted(s, m) <=> m.live = 0)
         /\ s.op = "waitkernel" =>
              (Wanted(s, m) <=> m.kind = "kernel" /\ "live" \in m.flags /\ m.name = s.name)
         /\ s.op = "waitstart" =>
              (Wanted(s, m) <=> m.kind = "node" /\ "started" \in m.flags /\ m.name = s.name)
         /\ s.op = "waitend" =>
              (Wanted(s, m) <=> m.kind = "node" /\ "dead" \in m.flags /\ m.name = s.name)
BY SoughtFacts DEF Wanted

LEMMA HappenedFacts ==
  ASSUME NEW s
  PROVE  /\ s.op = "waitall" => (Happened(s) <=> srv.live = 0)
         /\ s.op = "waitkernel" =>
              (Happened(s) <=>
                 s.name \in DOMAIN srv.kernels /\ srv.kernels[s.name].flags # {})
         /\ s.op = "waitstart" =>
              (Happened(s) <=>
                 s.name \in DOMAIN srv.nodes /\ "started" \in srv.nodes[s.name])
         /\ s.op = "waitend" =>
              (Happened(s) <=> s.name \in DOMAIN srv.nodes /\ "dead" \in srv.nodes[s.name])
BY SoughtFacts DEF Happened

LEMMA InfoFacts ==
  ASSUME IInv
  PROVE  /\ \A n \in DOMAIN srv.kernels : srv.kernels[n].flags \in SUBSET {"live"}
         /\ \A n \in DOMAIN srv.nodes : srv.nodes[n] \in SUBSET {"started", "dead"}
<1>1. PICK f \in Known(KernelInfo), g \in Known(NodeInfo) : f = srv.kernels /\ g = srv.nodes
  BY DEF IInv, TypeOK, ServerState
<1>2. f \in [DOMAIN f -> KernelInfo] /\ g \in [DOMAIN g -> NodeInfo]
  BY KnownFacts
<1>3. \A n \in DOMAIN f : f[n] \in KernelInfo
  BY <1>2
<1>4. \A n \in DOMAIN g : g[n] \in NodeInfo
  BY <1>2
<1> QED
  BY <1>1, <1>3, <1>4 DEF KernelInfo, NodeInfo

(* The answer to the question of a wait operation ends the wait when what  *)
(* it waits for has happened.                                              *)
LEMMA Informing ==
  ASSUME IInv, NEW c \in Client, GetInfo(c)
  PROVE  IInv'
<1> DEFINE T == {"kernelinfo", "nodeinfo", "endpointinfo"} \cup WaitOps
<1>1. UNCHANGED <<srv, failed>> /\ Receive(c, T)
  BY DEF GetInfo, Dispatch
<1>2. PICK r \in Req : r = Head(up[c]) /\ r.type \in T /\ c \in srv.accepted
  BY <1>1, ReceiveFacts
<1>3. UNCHANGED <<cl, th>>
  BY <1>1 DEF Receive
<1>4. PICK ok \in BOOLEAN, kind \in Kinds, F \in SUBSET Flags :
        /\ down' = Sent({c}, <<Reply(r, ok, kind, F)>>)
        /\ kind = "node" /\ F # {} => r.name \in DOMAIN srv.nodes /\ F \subseteq srv.nodes[r.name]
        /\ r.type = "waitkernel" /\ r.name \in DOMAIN srv.kernels =>
             kind = "kernel" /\ F = srv.kernels[r.name].flags
        /\ r.type \in {"waitstart", "waitend"} /\ r.name \in DOMAIN srv.nodes =>
             kind = "node" /\ F = srv.nodes[r.name]
  <2>1. "none" \in Kinds /\ "kernel" \in Kinds /\ "node" \in Kinds /\ {} \in SUBSET Flags
    BY DEF Kinds
  <2>2. TRUE \in BOOLEAN /\ FALSE \in BOOLEAN /\ (r.name \in DOMAIN srv.ends) \in BOOLEAN
    OBVIOUS
  <2>3. CASE r.type \in {"kernelinfo", "waitkernel"} /\ r.name \in DOMAIN srv.kernels
    <3>1. down' = Sent({c}, <<Reply(r, TRUE, "kernel", srv.kernels[r.name].flags)>>)
      BY <1>2, <2>3 DEF GetInfo
    <3>2. srv.kernels[r.name].flags \in SUBSET Flags
      BY <2>3, InfoFacts DEF Flags
    <3>3. r.type \notin {"waitstart", "waitend"}
      BY <2>3
    <3> QED
      BY <2>1, <2>2, <3>1, <3>2, <3>3, Zenon
  <2>4. CASE r.type \in {"kernelinfo", "waitkernel"} /\ r.name \notin DOMAIN srv.kernels
    <3>1. down' = Sent({c}, <<Reply(r, FALSE, "none", {})>>)
      BY <1>2, <2>4 DEF GetInfo
    <3>3. r.type \notin {"waitstart", "waitend"}
      BY <2>4
    <3> QED
      BY <2>1, <2>2, <2>4, <3>1, <3>3, Zenon
  <2>5. CASE r.type \in {"nodeinfo", "waitstart", "waitend"} /\ r.name \in DOMAIN srv.nodes
    <3>1. down' = Sent({c}, <<Reply(r, TRUE, "node", srv.nodes[r.name])>>)
      BY <1>2, <2>5 DEF GetInfo
    <3>2. srv.nodes[r.name] \in SUBSET Flags
      BY <2>5, InfoFacts DEF Flags
    <3>3. r.type # "waitkernel"
      BY <2>5
    <3> QED
      BY <2>1, <2>2, <2>5, <3>1, <3>2, <3>3, Zenon
  <2>6. CASE r.type \in {"nodeinfo", "waitstart", "waitend"} /\ r.name \notin DOMAIN srv.nodes
    <3>1. down' = Sent({c}, <<Reply(r, FALSE, "none", {})>>)
      BY <1>2, <2>6 DEF GetInfo
    <3>3. r.type # "waitkernel"
      BY <2>6
    <3> QED
      BY <2>1, <2>2, <2>6, <3>1, <3>3, Zenon
  <2>7. CASE r.type \in {"endpointinfo", "waitall"}
    <3>1. PICK o \in BOOLEAN : down' = Sent({c}, <<Reply(r, o, "none", {})>>)
      <4>1. CASE r.type = "endpointinfo"
        <5>1. down' = Sent({c}, <<Reply(r, r.name \in DOMAIN srv.ends, "none", {})>>)
          BY <1>2, <4>1 DEF GetInfo
        <5> QED
          BY <2>2, <5>1, Zenon
      <4>2. CASE r.type = "waitall"
        <5>1. down' = Sent({c}, <<Reply(r, TRUE, "none", {})>>)
          BY <1>2, <4>2 DEF GetInfo
        <5> QED
          BY <2>2, <5>1, Zenon
      <4> QED
        BY <2>7, <4>1, <4>2
    <3>3. r.type \notin {"waitkernel", "waitstart", "waitend"}
      BY <2>7
    <3> QED
      BY <2>1, <2>2, <3>1, <3>3, Zenon
  <2> QED
    BY <1>2, <2>3, <2>4, <2>5, <2>6, <2>7 DEF WaitOps
<1>5. PICK m \in Msg :
        /\ m = Reply(r, ok, kind, F) /\ m.type = "reply" /\ m.id = r.id /\ m.kind = kind
        /\ m.name = r.name /\ m.flags = F /\ m.live = srv.live
  BY ReplyFacts
<1>6. Truth(m)'
  BY <1>1, <1>4, <1>5 DEF Truth
<1>7. ASSUME NEW u \in Thread, Home[u] = c, th[u].st = "call", ~th[u].signaled,
             th[u].id = r.id, StepOf(u).op = r.type, StepOf(u).name = r.name,
             StepOf(u).op \in WaitOps, Happened(StepOf(u))
      PROVE  InReply(u)'
  <2>1. PICK s : s = StepOf(u) /\ s = StepOf(u)'
    BY <1>3 DEF StepOf
  <2>2. Wanted(s, m)
    <3>1. CASE s.op = "waitall"
      BY <1>5, <1>7, <2>1, <3>1, WantedFacts, HappenedFacts
    <3>2. CASE s.op = "waitkernel"
      <4>1. s.name \in DOMAIN srv.kernels /\ srv.kernels[s.name].flags # {}
        BY <1>7, <2>1, <3>2, HappenedFacts
      <4>2. "live" \in srv.kernels[s.name].flags
        BY <4>1, InfoFacts
      <4>3. m.kind = "kernel" /\ "live" \in m.flags /\ m.name = s.name
        BY <1>4, <1>5, <1>7, <2>1, <3>2, <4>1, <4>2
      <4> QED
        BY <3>2, <4>3, WantedFacts
    <3>3. CASE s.op = "waitstart"
      <4>1. s.name \in DOMAIN srv.nodes /\ "started" \in srv.nodes[s.name]
        BY <1>7, <2>1, <3>3, HappenedFacts
      <4>2. m.kind = "node" /\ "started" \in m.flags /\ m.name = s.name
        BY <1>4, <1>5, <1>7, <2>1, <3>3, <4>1
      <4> QED
        BY <3>3, <4>2, WantedFacts
    <3>4. CASE s.op = "waitend"
      <4>1. s.name \in DOMAIN srv.nodes /\ "dead" \in srv.nodes[s.name]
        BY <1>7, <2>1, <3>4, HappenedFacts
      <4>2. m.kind = "node" /\ "dead" \in m.flags /\ m.name = s.name
        BY <1>4, <1>5, <1>7, <2>1, <3>4, <4>1
      <4> QED
        BY <3>4, <4>2, WantedFacts
    <3> QED
      BY <1>7, <2>1, <3>1, <3>2, <3>3, <3>4 DEF WaitOps
  <2>3. ~cl[c].crashed
    BY <1>7 DEF IInv, ThreadInv, InOperation
  <2>4. m \in Elems(down'[c])
    <3>1. PICK to : to = {c} /\ down' = Sent(to, <<m>>)
      BY <1>4, <1>5
    <3>2. \A d \in Client : ~cl[d].crashed /\ d \in to => Elems(down'[d]) = Elems(down[d]) \cup {m}
      BY <1>5, <3>1, SentFacts
    <3> QED
      BY <2>3, <3>1, <3>2
  <2> QED
    BY <1>3, <1>5, <1>7, <2>1, <2>2, <2>4 DEF InReply
<1>8. ASSUME NEW u \in Thread, Happened(StepOf(u))' PROVE Happened(StepOf(u))
  BY <1>1, <1>3, <1>8 DEF Happened, StepOf
<1>9. r.type \in AskOps /\ srv \in ServerState /\ srv' \in ServerState /\ NoStrayReply'
  BY <1>1, <1>2 DEF AskOps, CallOps, IInv, TypeOK, NoStrayReply
<1>a. ASSUME NEW u \in Thread
      PROVE  \/ srv.shutdown
             \/ /\ Home[u] = c /\ th[u].st = "call" /\ ~th[u].signaled
                /\ th[u].id = Head(up[c]).id /\ StepOf(u).op = Head(up[c]).type
                /\ StepOf(u).name = Head(up[c]).name /\ StepOf(u).op \in WaitOps
                /\ Happened(StepOf(u))
                => InReply(u)'
  BY <1>2, <1>7
<1>b. down' = Sent({c}, <<m>>) /\ {c} \subseteq srv.accepted /\ m.id = Head(up[c]).id
      /\ Head(up[c]).type \in AskOps
  BY <1>2, <1>4, <1>5, <1>9
<1> HIDE DEF T
<1> QED
  BY <1>1, <1>5, <1>6, <1>8, <1>9, <1>a, <1>b, Serving

(* The message that a broadcast carries to every open connection.          *)
LEMMA Announcing ==
  ASSUME IInv, NEW c \in Client, NEW types, Receive(c, types), types \cap WaitOps = {},
         NEW kind \in Kinds, NEW n \in Name, NEW F \in SUBSET Flags, NEW l \in Int,
         Broadcast(kind, n, F, l), srv' \in ServerState, srv'.shutdown = srv.shutdown,
         srv'.accepted = srv.accepted, srv'.clients = srv.clients, srv'.closed = srv.closed,
         DOMAIN srv.nodes \subseteq DOMAIN srv'.nodes,
         \A k \in DOMAIN srv.nodes : srv.nodes[k] \subseteq srv'.nodes[k], NoStrayReply',
         kind = "node" => n \in DOMAIN srv'.nodes /\ F \subseteq srv'.nodes[n],
         \A s : s.op \in WaitOps /\ ~Happened(s) /\ Happened(s)' =>
           \/ s.op = "waitall" /\ l = 0
           \/ s.op # "waitall" /\ s.name = n /\ Sought(s.op)[1] = kind /\ Sought(s.op)[2] \in F
  PROVE  IInv'
<1>0. PICK o \in BOOLEAN : o = TRUE
  BY Zenon
<1>1. PICK i \in Nat, a \in MsgTypes : i = 0 /\ a = "broadcast"
  <2>1. 0 \in Nat /\ "broadcast" \in MsgTypes
    BY DEF MsgTypes
  <2> QED
    BY <2>1
<1>m. PICK m : m = [type |-> a, id |-> i, ok |-> o, kind |-> kind,
                    name |-> n, flags |-> F, live |-> l]
  OBVIOUS
<1>2. /\ m \in Msg /\ m.type = a /\ m.id = i /\ m.kind = kind /\ m.name = n
      /\ m.flags = F /\ m.live = l
  BY <1>m, MsgFacts
<1>3. PICK to : to = Open /\ down' = Sent(to, <<m>>)
  BY <1>0, <1>1, <1>m DEF Broadcast
<1>4. to \subseteq srv.accepted
  BY <1>3 DEF Open, IInv, Connections
<1>5. Truth(m)'
  BY <1>2 DEF Truth
<1>6. UNCHANGED <<cl, th>> /\ Head(up[c]).type \notin WaitOps
  BY DEF Receive
<1>7. ASSUME NEW u \in Thread, Home[u] \in Open, StepOf(u).op \in WaitOps,
             ~cl[Home[u]].crashed, ~Happened(StepOf(u)), Happened(StepOf(u))'
      PROVE  InBroadcast(u)'
  <2>1. PICK s : s = StepOf(u) /\ s = StepOf(u)'
    BY <1>6 DEF StepOf
  <2>2. Happened(s)' /\ ~Happened(s) /\ s.op \in WaitOps
    BY <1>7, <2>1 DEF Happened
  <2>3. Wanted(s, m)
    BY <1>2, <2>2 DEF Wanted
  <2>4. PICK d \in Client : d = Home[u]
    BY HomeFact
  <2>5. m \in Elems(down'[d])
    <3>1. ~cl[d].crashed /\ d \in to => Elems(down'[d]) = Elems(down[d]) \cup {m}
      BY <1>2, <1>3, SentFacts
    <3> QED
      BY <1>3, <1>7, <2>4, <3>1
  <2> QED
    BY <1>1, <1>2, <2>1, <2>3, <2>4, <2>5 DEF InBroadcast
<1>8. ASSUME NEW u \in Thread
      PROVE  \/ srv.shutdown
             \/ /\ Home[u] = c /\ th[u].st = "call" /\ ~th[u].signaled
                /\ th[u].id = Head(up[c]).id /\ StepOf(u).op = Head(up[c]).type
                /\ StepOf(u).name = Head(up[c]).name /\ StepOf(u).op \in WaitOps
                /\ Happened(StepOf(u))
                => InReply(u)'
  BY <1>6
<1>9. m.type # "reply" /\ m.id = 0
  BY <1>1, <1>2
<1> QED
  BY <1>2, <1>3, <1>4, <1>5, <1>7, <1>8, <1>9, Serving

(* The server is told of something that it does not know: an ASSERT fails. *)
LEMMA Unknown ==
  ASSUME IInv, NEW c \in Client, NEW types, Receive(c, types), types \cap WaitOps = {},
         failed' = failed \cup {"server"}, UNCHANGED <<srv, down>>
  PROVE  IInv'
<1>1. PICK m : Outgoing(c, {}, m)
  BY NoMessage
<1>2. Calm(srv, srv')
  BY CalmServer DEF IInv, TypeOK
<1>3. NoStrayReply'
  BY DEF IInv, NoStrayReply
<1> QED
  BY <1>1, <1>2, <1>3, Taking

LEMMA SignallingKernel ==
  ASSUME IInv, NEW c \in Client, SignalKernel(c)
  PROVE  IInv'
<1> DEFINE T == {"kernelstart", "kernelend"}
<1>1. Receive(c, T) /\ T \cap WaitOps = {}
  BY DEF SignalKernel, Dispatch, WaitOps
<1>2. PICK s \in ServerState, r \in Req : s = srv /\ r = Head(up[c])
  BY <1>1, ReceiveFacts DEF IInv, TypeOK
<1>3. PICK n \in Name : n = r.name
  BY DEF Req
<1>4. CASE n \in DOMAIN srv.kernels
  <2>1. PICK F \in SUBSET {"live"} : F = IF r.type = "kernelstart" THEN {"live"} ELSE {}
    OBVIOUS
  <2>2. PICK g \in Known(KernelInfo) : g = s.kernels /\ n \in DOMAIN g
    BY <1>2, <1>4 DEF ServerState
  <2>3. PICK f : f = [g EXCEPT ![n].flags = F]
    OBVIOUS
  <2>4. g \in [DOMAIN g -> KernelInfo] /\ DOMAIN g \subseteq Name
    BY KnownFacts
  <2>5. f \in [DOMAIN g -> KernelInfo]
    BY <2>2, <2>3, <2>4 DEF KernelInfo
  <2>6. DOMAIN f = DOMAIN g /\ f \in Known(KernelInfo)
    BY <2>4, <2>5, KnownFacts
  <2>7. f[n].flags = F /\ \A k \in DOMAIN g : k # n => f[k] = g[k]
    BY <2>2, <2>3, <2>4 DEF KernelInfo
  <2>8. srv' = [s EXCEPT !.kernels = f]
    BY <1>2, <1>3, <1>4, <2>1, <2>2, <2>3 DEF SignalKernel
  <2>9. /\ srv' \in ServerState /\ srv'.shutdown = srv.shutdown /\ srv'.accepted = srv.accepted
        /\ srv'.clients = srv.clients /\ srv'.closed = srv.closed /\ srv'.nodes = srv.nodes
        /\ srv'.live = srv.live /\ srv'.kernels = f
    BY <1>2, <2>6, <2>8 DEF ServerState
  <2>a. /\ Broadcast("kernel", n, F, srv.live) /\ UNCHANGED failed
    BY <1>2, <1>3, <1>4, <2>1 DEF SignalKernel
  <2>b. PICK k \in Kinds, l \in Int : k = "kernel" /\ l = srv.live
    <3>1. "kernel" \in Kinds /\ s.live \in Int
      BY DEF Kinds, ServerState
    <3> QED
      BY <1>2, <3>1
  <2>c. F \in SUBSET Flags /\ NoStrayReply'
    BY <2>a DEF Flags, IInv, NoStrayReply
  <2>d. ASSUME NEW x, x.op \in WaitOps, ~Happened(x), Happened(x)'
        PROVE  x.op # "waitall" /\ x.name = n /\ Sought(x.op)[1] = k /\ Sought(x.op)[2] \in F
    <3>1. x.op = "waitkernel"
      BY <2>9, <2>d DEF Happened, WaitOps
    <3>2. x.name \in DOMAIN f /\ f[x.name].flags # {}
      BY <2>9, <2>d, <3>1 DEF Happened
    <3>3. ~(x.name \in DOMAIN g /\ g[x.name].flags # {})
      BY <1>2, <2>2, <2>d, <3>1 DEF Happened
    <3>4. x.name = n
      BY <2>6, <2>7, <3>2, <3>3
    <3>5. "live" \in F
      BY <2>7, <3>2, <3>4
    <3> QED
      BY <2>b, <3>1, <3>4, <3>5, SoughtFacts
  <2>e. Broadcast(k, n, F, l) /\ k # "node"
    BY <2>a, <2>b
  <2>f. /\ DOMAIN srv.nodes \subseteq DOMAIN srv'.nodes
        /\ \A y \in DOMAIN srv.nodes : srv.nodes[y] \subseteq srv'.nodes[y]
    BY <2>9
  <2> HIDE DEF T
  <2> QED
    BY <1>1, <2>9, <2>c, <2>d, <2>e, <2>f, Announcing
<1>5. CASE n \notin DOMAIN srv.kernels
  <2>1. failed' = failed \cup {"server"} /\ UNCHANGED <<srv, down>>
    BY <1>2, <1>3, <1>5 DEF SignalKernel
  <2> HIDE DEF T
  <2> QED
    BY <1>1, <2>1, Unknown
<1> QED
  BY <1>4, <1>5

LEMMA SignallingNode ==
  ASSUME IInv, NEW c \in Client, SignalNode(c)
  PROVE  IInv'
<1> DEFINE T == {"nodestart", "nodeend"}
<1>1. Receive(c, T) /\ T \cap WaitOps = {}
  BY DEF SignalNode, Dispatch, WaitOps
<1>2. PICK s \in ServerState, r \in Req : s = srv /\ r = Head(up[c])
  BY <1>1, ReceiveFacts DEF IInv, TypeOK
<1>3. PICK n \in Name : n = r.name
  BY DEF Req
<1>4. CASE n \in DOMAIN srv.nodes
  <2>1. PICK flag \in {"started", "dead"} :
          flag = IF r.type = "nodestart" THEN "started" ELSE "dead"
    OBVIOUS
  <2>2. PICK g \in Known(NodeInfo) : g = s.nodes /\ n \in DOMAIN g
    BY <1>2, <1>4 DEF ServerState
  <2>3. g \in [DOMAIN g -> NodeInfo] /\ DOMAIN g \subseteq Name
    BY KnownFacts
  <2>4. PICK F \in NodeInfo : F = g[n] \cup {flag}
    BY <2>2, <2>3 DEF NodeInfo
  <2>5. PICK f : f = [g EXCEPT ![n] = F]
    OBVIOUS
  <2>6. f \in [DOMAIN g -> NodeInfo] /\ DOMAIN f = DOMAIN g
    BY <2>2, <2>3, <2>5
  <2>7. f \in Known(NodeInfo)
    BY <2>3, <2>6, KnownFacts
  <2>8. f[n] = F /\ \A k \in DOMAIN g : k # n => f[k] = g[k]
    BY <2>2, <2>3, <2>5
  <2>b. PICK k \in Kinds, l \in Int :
          k = "node" /\ l = srv.live + (IF r.type = "nodestart" THEN 1 ELSE -1)
    <3>1. "node" \in Kinds
      BY DEF Kinds
    <3>2. PICK i \in Int : i = srv.live
      BY <1>2 DEF ServerState
    <3>3. i + (IF r.type = "nodestart" THEN 1 ELSE -1) \in Int
      OBVIOUS
    <3> QED
      BY <3>1, <3>2, <3>3
  <2>9. srv' = [s EXCEPT !.nodes = f, !.live = l]
    BY <1>2, <1>3, <1>4, <2>1, <2>2, <2>4, <2>5, <2>b DEF SignalNode
  <2>a. /\ srv' \in ServerState /\ srv'.shutdown = srv.shutdown /\ srv'.accepted = srv.accepted
        /\ srv'.clients = srv.clients /\ srv'.closed = srv.closed
        /\ srv'.kernels = srv.kernels /\ srv'.live = l /\ srv'.nodes = f
    BY <1>2, <2>7, <2>9 DEF ServerState
  <2>c. Broadcast(k, n, F, l) /\ UNCHANGED failed
    BY <1>2, <1>3, <1>4, <2>1, <2>2, <2>4, <2>b DEF SignalNode
  <2>d. F \in SUBSET Flags /\ NoStrayReply'
    BY <2>c DEF Flags, NodeInfo, IInv, NoStrayReply
  <2>e. ASSUME NEW x, x.op \in WaitOps, ~Happened(x), Happened(x)'
        PROVE  \/ x.op = "waitall" /\ l = 0
               \/ x.op # "waitall" /\ x.name = n /\ Sought(x.op)[1] = k /\ Sought(x.op)[2] \in F
    <3>1. CASE x.op = "waitall"
      BY <2>a, <2>e, <3>1 DEF Happened
    <3>2. CASE x.op # "waitall"
      <4>1. x.op \in {"waitstart", "waitend"}
        BY <2>a, <2>e, <3>2 DEF Happened, WaitOps
      <4>2. x.name \in DOMAIN f /\ Sought(x.op)[2] \in f[x.name]
        BY <2>a, <2>e, <4>1 DEF Happened
      <4>3. ~(x.name \in DOMAIN g /\ Sought(x.op)[2] \in g[x.name])
        BY <1>2, <2>2, <2>e, <4>1 DEF Happened
      <4>4. x.name = n
        BY <2>6, <2>8, <4>2, <4>3
      <4>5. Sought(x.op)[1] = "node"
        BY <4>1, SoughtFacts
      <4> QED
        BY <2>8, <2>b, <3>2, <4>2, <4>4, <4>5
    <3> QED
      BY <3>1, <3>2
  <2>f. /\ DOMAIN srv.nodes \subseteq DOMAIN srv'.nodes
        /\ \A y \in DOMAIN srv.nodes : srv.nodes[y] \subseteq srv'.nodes[y]
        /\ n \in DOMAIN srv'.nodes /\ F \subseteq srv'.nodes[n]
    BY <1>2, <2>2, <2>4, <2>6, <2>8, <2>a
  <2> HIDE DEF T
  <2> QED
    BY <1>1, <2>a, <2>c, <2>d, <2>e, <2>f, Announcing
<1>5. CASE n \notin DOMAIN srv.nodes
  <2>1. failed' = failed \cup {"server"} /\ UNCHANGED <<srv, down>>
    BY <1>2, <1>3, <1>5 DEF SignalNode
  <2> HIDE DEF T
  <2> QED
    BY <1>1, <2>1, Unknown
<1> QED
  BY <1>4, <1>5

(* The server terminates: every open connection gets TERMINATE and the end *)
(* of the stream, and a process not yet accepted is reset.                 *)
LEMMA Stopping ==
  ASSUME IInv, UNCHANGED <<cl, th, failed>>, NEW s \in ServerState, ServeTerminate(s),
         s.shutdown = srv.shutdown, s.accepted = srv.accepted, s.closed = srv.closed,
         s.kernels = srv.kernels, s.nodes = srv.nodes, s.live = srv.live,
         s.clients \subseteq srv.clients, srv.accepted \ srv.closed \subseteq s.clients,
         up' \in [Client -> Seq(Req)],
         \A d \in Client :
           /\ Elems(up'[d]) \subseteq Elems(up[d]) /\ (Distinct(up[d]) => Distinct(up'[d]))
           /\ d \notin srv.accepted => up'[d] = up[d],
         \A u \in Thread : InRequest(u) => InRequest(u)'
  PROVE  IInv'
<1>0. down \in [Client -> Seq(Msg)] /\ TypeOK /\ Connections
  BY DEF IInv, TypeOK
<1>1. PICK a \in Msg, b \in Msg :
        /\ a = Note("terminate") /\ a.type = "terminate" /\ a.id = 0 /\ a.flags = {}
        /\ b = Note("eof") /\ b.type = "eof" /\ b.id = 0 /\ b.flags = {}
  BY NoteFacts DEF MsgTypes
<1>2. /\ srv' \in ServerState /\ srv'.accepted = srv.accepted /\ srv'.closed = srv.closed
      /\ srv'.kernels = srv.kernels /\ srv'.nodes = srv.nodes /\ srv'.live = srv.live
      /\ srv'.clients = s.clients
  <2>1. CASE s.shutdown
    BY <2>1 DEF ServeTerminate
  <2>2. CASE ~s.shutdown
    <3>1. srv' = [s EXCEPT !.shutdown = TRUE]
      BY <2>2 DEF ServeTerminate
    <3> QED
      BY <3>1 DEF ServerState
  <2> QED
    BY <2>1, <2>2
<1>3. PICK q \in Seq(Msg), p \in Seq(Msg) :
        /\ q = <<a, b>> /\ Elems(q) = {a, b} /\ Distinct(q)
        /\ p = <<b>> /\ Elems(p) = {b} /\ Distinct(p)
  <2>1. <<a, b>> \in Seq(Msg) /\ <<b>> \in Seq(Msg)
    OBVIOUS
  <2>2. Elems(<<a, b>>) = {a, b} /\ Distinct(<<a, b>>) /\ Elems(<<b>>) = {b} /\ Distinct(<<b>>)
    BY <1>1, ElemsShort
  <2> QED
    BY <2>1, <2>2
<1>4. ASSUME NEW d \in Client
      PROVE  /\ down'[d] \in Seq(Msg) /\ Elems(down[d]) \subseteq Elems(down'[d])
             /\ cl[d].crashed => down'[d] = down[d]
             /\ Elems(down'[d]) \subseteq Elems(down[d]) \cup {a, b}
             /\ Distinct(down[d]) => Distinct(down'[d])
             /\ d \notin srv.accepted => Elems(down'[d]) \subseteq Elems(down[d]) \cup {b}
             /\ ~s.shutdown /\ d \in srv.accepted \ srv.closed /\ ~cl[d].crashed =>
                  a \in Elems(down'[d])
  <2>1. PICK x \in Seq(Msg) : x = down[d]
    BY <1>0
  <2>2. CASE down'[d] = down[d] /\ (s.shutdown \/ cl[d].crashed \/ d \notin srv.accepted \ srv.closed)
    BY <2>1, <2>2
  <2>3. CASE ~s.shutdown /\ ~cl[d].crashed /\ d \in s.clients \ s.closed
    <3>1. down'[d] = x \o q
      BY <1>1, <1>3, <2>1, <2>3 DEF ServeTerminate
    <3>2. /\ x \o q \in Seq(Msg) /\ Elems(x \o q) = Elems(x) \cup Elems(q)
          /\ /\ Distinct(x) /\ Distinct(q)
             /\ \A k \in Elems(x), l \in Elems(q) : k.id # 0 => k.id # l.id
             => Distinct(x \o q)
      BY ElemsConcat
    <3>3. \A k \in Elems(x), l \in Elems(q) : k.id # 0 => k.id # l.id
      BY <1>1, <1>3
    <3>4. d \in srv.accepted
      BY <1>0, <2>3 DEF Connections
    <3> QED
      BY <1>3, <2>1, <2>3, <3>1, <3>2, <3>3, <3>4
  <2>4. CASE ~s.shutdown /\ ~cl[d].crashed /\ d \notin s.clients \ s.closed /\ d \notin s.accepted
    <3>1. down'[d] = Append(x, b)
      BY <1>1, <2>1, <2>4 DEF ServeTerminate
    <3>2. /\ Append(x, b) \in Seq(Msg) /\ Elems(Append(x, b)) = Elems(x) \cup {b}
          /\ Distinct(x) /\ (\A m \in Elems(x) : m.id # 0 => m.id # b.id)
               => Distinct(Append(x, b))
      BY ElemsAppend
    <3> QED
      BY <1>1, <2>1, <2>4, <3>1, <3>2
  <2>5. \/ down'[d] = down[d] /\ (s.shutdown \/ cl[d].crashed \/ d \notin srv.accepted \ srv.closed)
        \/ ~s.shutdown /\ ~cl[d].crashed /\ d \in s.clients \ s.closed
        \/ ~s.shutdown /\ ~cl[d].crashed /\ d \notin s.clients \ s.closed /\ d \notin s.accepted
    BY DEF ServeTerminate
  <2> QED
    BY <2>2, <2>3, <2>4, <2>5
<1>5. TypeOK'
  <2>1. down' = [d \in Client |-> down'[d]]
    <3>1. CASE s.shutdown
      BY <1>0, <3>1 DEF ServeTerminate
    <3>2. CASE ~s.shutdown
      BY <3>2 DEF ServeTerminate
    <3> QED
      BY <3>1, <3>2
  <2>2. down' \in [Client -> Seq(Msg)]
    BY <1>4, <2>1
  <2> QED
    BY <1>0, <1>2, <2>2 DEF TypeOK
<1>6. NoStrayReply' /\ Connections'
  BY <1>0, <1>2 DEF IInv, NoStrayReply, Connections
<1>7. ASSUME NEW d \in Client PROVE EndTold(d)'
  <2>1. EndTold(d)
    BY DEF IInv, ClientInv
  <2>2. CASE s.shutdown
    BY <1>2, <1>4, <2>1, <2>2 DEF EndTold
  <2>3. CASE ~s.shutdown
    BY <1>1, <1>2, <1>4, <2>3 DEF EndTold
  <2> QED
    BY <2>2, <2>3
<1>8. ASSUME NEW u \in Thread PROVE Noticed(u)'
  <2>1. StepOf(u)' = StepOf(u)
    BY DEF StepOf
  <2>2. PICK d \in Client : d = Home[u]
    BY HomeFact
  <2>3. Elems(down[d]) \subseteq Elems(down'[d])
    BY <1>4
  <2>4. Notice(u) => Notice(u)'
    BY <2>1, <2>2, <2>3 DEF Notice, InReply, InCall, InBox, InBroadcast
  <2>5. Waits(u)' => Waits(u)
    BY <2>1 DEF Waits
  <2>6. Happened(StepOf(u))' => Happened(StepOf(u))
    BY <1>2, <2>1 DEF Happened
  <2> QED
    BY <1>2, <2>2, <2>4, <2>5, <2>6 DEF IInv, ThreadInv, Noticed
<1>9. ASSUME NEW d \in Client
      PROVE  /\ Elems(up'[d]) \subseteq Elems(up[d]) /\ (Distinct(up[d]) => Distinct(up'[d]))
             /\ d \notin srv'.accepted => up'[d] = up[d]
             /\ cl[d].crashed => down'[d] = down[d]
             /\ ~cl[d].crashed => Distinct(down'[d])
             /\ \A k \in Elems(down'[d]) :
                  \/ k \in Elems(down[d])
                  \/ /\ Truth(k)' /\ (d \notin srv'.accepted => k.type = "eof")
                     /\ k.type # "reply" => k.id = 0
                     /\ k.type = "reply" => /\ k.id # 0 /\ \E r \in Elems(up[d]) : r.id = k.id
                                            /\ \A r \in Elems(up'[d]) : r.id # k.id
  <2>1. ~cl[d].crashed => Distinct(down[d])
    BY DEF IInv, ClientInv, Numbered
  <2>2. Truth(a)' /\ Truth(b)'
    BY <1>1 DEF Truth
  <2> QED
    BY <1>1, <1>2, <1>4, <2>1, <2>2
<1>a. /\ srv.accepted \subseteq srv'.accepted /\ DOMAIN srv.nodes \subseteq DOMAIN srv'.nodes
      /\ \A n \in DOMAIN srv.nodes : srv.nodes[n] \subseteq srv'.nodes[n]
  BY <1>2
<1> QED
  BY <1>5, <1>6, <1>7, <1>8, <1>9, <1>a, ServerSide

LEMMA ServerTerminating ==
  ASSUME IInv, NEW c \in Client, DispatchServerTerminate(c)
  PROVE  IInv'
<1>1. Receive(c, {"terminate"}) /\ ServeTerminate(srv) /\ UNCHANGED failed
  BY DEF DispatchServerTerminate, Dispatch
<1>2. /\ up' \in [Client -> Seq(Req)] /\ \A d \in Client : d # c => up'[d] = up[d]
      /\ Elems(up[c]) = {Head(up[c])} \cup Elems(up'[c]) /\ c \in srv.accepted
      /\ Head(up[c]).type \in {"terminate"} /\ (Distinct(up[c]) => Distinct(up'[c]))
  BY <1>1, ReceiveFacts
<1>3. UNCHANGED <<cl, th>>
  BY <1>1 DEF Receive
<1>4. ASSUME NEW u \in Thread, InRequest(u) PROVE InRequest(u)'
  <2>1. PICK d \in Client : d = Home[u]
    BY HomeFact
  <2>2. PICK r \in Elems(up[d]) : r.id = th[u].id
    BY <1>4, <2>1 DEF InRequest
  <2>3. th[u].st = "call" /\ ~th[u].signaled
    BY <1>4 DEF InRequest
  <2>4. StepOf(u).op \in AskOps /\ ~cl[d].crashed
    BY <2>1, <2>3 DEF IInv, ThreadInv, InOperation
  <2>5. r.type = StepOf(u).op
    BY <2>1, <2>2, <2>3, <2>4 DEF IInv, ClientInv, Numbered, Requests
  <2>6. r.type # "terminate"
    BY <2>4, <2>5 DEF AskOps, CallOps, WaitOps
  <2>7. r \in Elems(up'[d])
    BY <1>2, <2>2, <2>6
  <2> QED
    BY <1>3, <2>1, <2>2, <2>3, <2>7 DEF InRequest
<1>5. PICK s \in ServerState : s = srv
  BY DEF IInv, TypeOK
<1>6. /\ s.shutdown = srv.shutdown /\ s.accepted = srv.accepted /\ s.closed = srv.closed
      /\ s.kernels = srv.kernels /\ s.nodes = srv.nodes /\ s.live = srv.live
      /\ s.clients \subseteq srv.clients /\ srv.accepted \ srv.closed \subseteq s.clients
      /\ ServeTerminate(s)
  BY <1>1, <1>5 DEF IInv, Connections
<1>7. \A d \in Client :
        /\ Elems(up'[d]) \subseteq Elems(up[d]) /\ (Distinct(up[d]) => Distinct(up'[d]))
        /\ d \notin srv.accepted => up'[d] = up[d]
  BY <1>2
<1> QED
  BY <1>1, <1>2, <1>3, <1>4, <1>6, <1>7, Stopping

LEMMA Sweeping ==
  ASSUME IInv, NEW c \in Client, Sweep(c)
  PROVE  IInv'
<1>1. UNCHANGED <<cl, th, up, failed>> /\ c \in srv.closed
  BY DEF Sweep
<1>2. PICK x \in ServerState : x = srv
  BY DEF IInv, TypeOK
<1>3. PICK C \in SUBSET Client : C = x.clients \ {c}
  BY DEF ServerState
<1>4. PICK s : s = [x EXCEPT !.clients = C]
  OBVIOUS
<1>5. /\ s \in ServerState /\ s.shutdown = x.shutdown /\ s.accepted = x.accepted
      /\ s.closed = x.closed /\ s.kernels = x.kernels /\ s.nodes = x.nodes /\ s.live = x.live
      /\ s.clients = C
  BY <1>4 DEF ServerState
<1>6. ServeTerminate(s)
  BY <1>2, <1>3, <1>4 DEF Sweep
<1>7. s.clients \subseteq srv.clients /\ srv.accepted \ srv.closed \subseteq s.clients
  BY <1>1, <1>2, <1>3, <1>5 DEF IInv, Connections
<1>8. up' \in [Client -> Seq(Req)]
  BY <1>1 DEF IInv, TypeOK
<1>9. ASSUME NEW u \in Thread, InRequest(u) PROVE InRequest(u)'
  BY <1>1, <1>9 DEF InRequest
<1> QED
  BY <1>1, <1>2, <1>5, <1>6, <1>7, <1>8, <1>9, Stopping

LEMMA Accepting ==
  ASSUME IInv, NEW c \in Client, Accept(c)
  PROVE  IInv'
<1>1. UNCHANGED <<cl, th, up, down, failed>> /\ ~srv.shutdown /\ c \notin srv.accepted
  BY DEF Accept
<1>2. PICK x \in ServerState : x = srv
  BY DEF IInv, TypeOK
<1>3. PICK C \in SUBSET Client, A \in SUBSET Client :
        C = x.clients \cup {c} /\ A = x.accepted \cup {c}
  BY DEF ServerState
<1>4. srv' = [x EXCEPT !.clients = C, !.accepted = A]
  BY <1>2, <1>3 DEF Accept
<1>5. /\ srv' \in ServerState /\ srv'.shutdown = x.shutdown /\ srv'.accepted = A
      /\ srv'.closed = x.closed /\ srv'.kernels = x.kernels /\ srv'.nodes = x.nodes
      /\ srv'.live = x.live /\ srv'.clients = C
  BY <1>4 DEF ServerState
<1>6. TypeOK' /\ NoStrayReply'
  BY <1>1, <1>5 DEF IInv, TypeOK, NoStrayReply
<1>7. Connections'
  BY <1>2, <1>3, <1>5 DEF IInv, Connections
<1>8. ASSUME NEW d \in Client PROVE EndTold(d)'
  BY <1>1, <1>2, <1>5 DEF EndTold
<1>9. ASSUME NEW u \in Thread PROVE Noticed(u)'
  <2>1. StepOf(u)' = StepOf(u)
    BY <1>1 DEF StepOf
  <2>2. Notice(u) => Notice(u)'
    BY <1>1, <2>1 DEF Notice, InRequest, InReply, InCall, InBox, InBroadcast
  <2>3. Waits(u)' => Waits(u)
    BY <1>1, <2>1 DEF Waits
  <2>4. Happened(StepOf(u))' => Happened(StepOf(u))
    BY <1>2, <1>5, <2>1 DEF Happened
  <2> QED
    BY <1>2, <1>5, <2>2, <2>3, <2>4 DEF IInv, ThreadInv, Noticed
<1>a. \A d \in Client : ~cl[d].crashed => Distinct(down[d])
  BY DEF IInv, ClientInv, Numbered
<1>b. /\ srv.accepted \subseteq srv'.accepted /\ DOMAIN srv.nodes \subseteq DOMAIN srv'.nodes
      /\ \A n \in DOMAIN srv.nodes : srv.nodes[n] \subseteq srv'.nodes[n]
  BY <1>2, <1>3, <1>5
<1> QED
  BY <1>1, <1>6, <1>7, <1>8, <1>9, <1>a, <1>b, ServerSide

---------------------------------------------------------------------------
(* The actions of the processes.                                           *)

(* An operation ends, which may change what the process knows of itself    *)
(* and send a message that asks nothing.                                   *)
LEMMA Leaving ==
  ASSUME IInv, NEW t \in Thread, ~Ended(t),
         StepOf(t).op = "spawned" => StepOf(t).name \in cl[Home[t]].got,
         NEW y \in {Return(t), Throw(t), Interrupted(t)}, th' = [th EXCEPT ![t] = y],
         NEW x, SameCore(cl[Home[t]], x), cl' = [cl EXCEPT ![Home[t]] = x],
         Sends(Home[t]), UNCHANGED <<down, srv>>, NoStrayReply'
  PROVE  IInv'
<1>1. TypeOK /\ Home[t] \in Client
  BY HomeFact DEF IInv
<1>2. PICK p \in Nat \ {0} : y = Fresh(p)
  BY <1>1, NextStep
<1>3. cl' \in [Client -> ClientState] /\ cl'[Home[t]] = x
  BY <1>1 DEF TypeOK, SameCore
<1>4. \A c \in Client : c # Home[t] => cl'[c] = cl[c]
  BY <1>1 DEF TypeOK
<1>5. th' = [th EXCEPT ![t] = Fresh(p)]
  BY <1>2
<1> QED
  BY <1>3, <1>4, <1>5, Returning

LEMMA LeavingUnchanged ==
  ASSUME IInv, NEW t \in Thread, ~Ended(t),
         StepOf(t).op = "spawned" => StepOf(t).name \in cl[Home[t]].got,
         NEW y \in {Return(t), Throw(t), Interrupted(t)}, th' = [th EXCEPT ![t] = y],
         Sends(Home[t]), UNCHANGED <<cl, down, srv>>, NoStrayReply'
  PROVE  IInv'
<1>1. Home[t] \in Client /\ cl \in [Client -> ClientState]
  BY HomeFact DEF IInv, TypeOK
<1>2. PICK x : x = cl[Home[t]] /\ SameCore(cl[Home[t]], x)
  BY <1>1 DEF SameCore
<1>3. cl' = [cl EXCEPT ![Home[t]] = x]
  BY <1>1, <1>2
<1> QED
  BY <1>2, <1>3, Leaving

(* A message of a step that asks nothing.                                  *)
LEMMA Sending ==
  ASSUME IInv, NEW t \in Thread, ~Ended(t), StepOf(t).op \notin AskOps,
         SendMessage(Home[t], Request(StepOf(t), 0))
  PROVE  Sends(Home[t])
<1>1. TypeOK /\ Shape
  BY DEF IInv, ThreadInv, Shape
<1>2. PICK s : s = StepOf(t)
  OBVIOUS
<1>3. s.op \in Ops \cup {"eof"} /\ s.name \in Name /\ s.of \in Name
  BY <1>1, <1>2, StepFacts
<1>4. PICK i \in Nat : i = 0
  OBVIOUS
<1>5. PICK r : r = Request(s, i)
  OBVIOUS
<1>6. r \in Req /\ r.type = s.op /\ r.id = i
  BY <1>3, <1>5, RequestFacts
<1> QED
  BY <1>2, <1>4, <1>5, <1>6 DEF SendMessage, Sends

LEMMA BeginningCall ==
  ASSUME IInv, NEW t \in Thread, BeginCall(t)
  PROVE  IInv'
<1>1. CASE cl[Home[t]].shutdown
  <2>1. /\ ~Ended(t) /\ th' = [th EXCEPT ![t] = Interrupted(t)] /\ StepOf(t).op # "spawned"
        /\ UNCHANGED <<cl, up, down, srv, failed>>
    BY <1>1 DEF BeginCall, At, CallOps, WaitOps
  <2>2. Sends(Home[t]) /\ NoStrayReply'
    BY <2>1 DEF Sends, IInv, NoStrayReply
  <2> QED
    BY <2>1, <2>2, LeavingUnchanged
<1>2. CASE ~cl[Home[t]].shutdown
  BY <1>2, Calling DEF BeginCall
<1> QED
  BY <1>1, <1>2

LEMMA BeginningSend ==
  ASSUME IInv, NEW t \in Thread, BeginSend(t)
  PROVE  IInv'
<1>1. /\ ~Ended(t) /\ StepOf(t).op \in SendOps /\ UNCHANGED <<cl, down, srv, failed>>
  BY DEF BeginSend, At
<1>2. StepOf(t).op # "spawned" /\ StepOf(t).op \notin AskOps
  BY <1>1 DEF SendOps, AskOps, CallOps, WaitOps
<1>3. NoStrayReply'
  BY <1>1 DEF IInv, NoStrayReply
<1>4. CASE cl[Home[t]].shutdown
  <2>1. th' = [th EXCEPT ![t] = Throw(t)] /\ Sends(Home[t])
    BY <1>4 DEF BeginSend, Sends
  <2> QED
    BY <1>1, <1>2, <1>3, <2>1, LeavingUnchanged
<1>5. CASE ~cl[Home[t]].shutdown
  <2>1. th' = [th EXCEPT ![t] = Return(t)] /\ SendMessage(Home[t], Request(StepOf(t), 0))
    BY <1>5 DEF BeginSend
  <2>2. Sends(Home[t])
    BY <1>1, <1>2, <2>1, Sending
  <2> QED
    BY <1>1, <1>2, <1>3, <2>1, <2>2, LeavingUnchanged
<1> QED
  BY <1>4, <1>5

LEMMA Telling ==
  ASSUME IInv, NEW t \in Thread, Log(t) \/ SignalNodeEnd(t) \/ Told(t)
  PROVE  IInv'
<1>1. /\ ~Ended(t) /\ StepOf(t).op \in {"log", "nodeend", "told"}
      /\ th' = [th EXCEPT ![t] = Return(t)] /\ UNCHANGED <<cl, down, srv, failed>>
      /\ UNCHANGED up \/ SendMessage(Home[t], Request(StepOf(t), 0))
  BY DEF Log, SignalNodeEnd, Told, At
<1>2. StepOf(t).op # "spawned" /\ StepOf(t).op \notin AskOps
  BY <1>1 DEF AskOps, CallOps, WaitOps
<1>3. NoStrayReply'
  BY <1>1 DEF IInv, NoStrayReply
<1>4. Sends(Home[t])
  <2>1. CASE UNCHANGED up
    BY <2>1 DEF Sends
  <2>2. CASE SendMessage(Home[t], Request(StepOf(t), 0))
    BY <1>1, <1>2, <2>2, Sending
  <2> QED
    BY <1>1, <2>1, <2>2
<1> QED
  BY <1>1, <1>2, <1>3, <1>4, LeavingUnchanged

LEMMA KernelEnding ==
  ASSUME IInv, NEW t \in Thread, SignalKernelEnd(t)
  PROVE  IInv'
<1>1. /\ ~Ended(t) /\ StepOf(t).op = "kernelend" /\ th' = [th EXCEPT ![t] = Return(t)]
      /\ SendMessage(Home[t], Request(StepOf(t), 0)) /\ UNCHANGED <<down, srv, failed>>
      /\ cl' = [cl EXCEPT ![Home[t]].kernels = @ \ {StepOf(t).name}]
  BY DEF SignalKernelEnd, At
<1>2. StepOf(t).op # "spawned" /\ StepOf(t).op \notin AskOps
  BY <1>1 DEF AskOps, CallOps, WaitOps
<1>3. NoStrayReply' /\ Sends(Home[t])
  BY <1>1, <1>2, Sending DEF IInv, NoStrayReply
<1>4. PICK k \in ClientState : k = cl[Home[t]]
  BY HomeFact DEF IInv, TypeOK
<1>5. PICK S \in SUBSET Name : S = k.kernels \ {StepOf(t).name}
  BY DEF ClientState
<1>6. PICK x : x = [k EXCEPT !.kernels = S] /\ SameCore(k, x)
  BY CoreUpdates
<1>7. cl' = [cl EXCEPT ![Home[t]] = x]
  BY <1>1, <1>4, <1>5, <1>6
<1> QED
  BY <1>1, <1>2, <1>3, <1>4, <1>6, <1>7, Leaving

LEMMA Spawning ==
  ASSUME IInv, NEW t \in Thread, Spawned(t)
  PROVE  IInv'
<1>1. /\ ~Ended(t) /\ th' = [th EXCEPT ![t] = Return(t)] /\ UNCHANGED <<up, down, srv, failed>>
      /\ cl' = [cl EXCEPT ![Home[t]].running = @ \cup {StepOf(t).name}]
      /\ StepOf(t).name \in cl[Home[t]].got
  BY DEF Spawned, At
<1>2. NoStrayReply' /\ Sends(Home[t])
  BY <1>1 DEF IInv, NoStrayReply, Sends
<1>3. PICK k \in ClientState : k = cl[Home[t]]
  BY HomeFact DEF IInv, TypeOK
<1>4. TypeOK /\ Shape
  BY DEF IInv, ThreadInv, Shape
<1>5. PICK S \in SUBSET Name : S = k.running \cup {StepOf(t).name}
  BY <1>1, <1>4, StepFacts DEF ClientState
<1>6. PICK x : x = [k EXCEPT !.running = S] /\ SameCore(k, x)
  BY CoreUpdates
<1>7. cl' = [cl EXCEPT ![Home[t]] = x]
  BY <1>1, <1>3, <1>5, <1>6
<1> QED
  BY <1>1, <1>2, <1>3, <1>6, <1>7, Leaving

LEMMA Terminating ==
  ASSUME IInv, NEW t \in Thread, Terminate(t)
  PROVE  IInv'
<1>1. ~Ended(t) /\ StepOf(t).op = "terminate" /\ UNCHANGED <<down, srv, failed>>
  BY DEF Terminate, At
<1>2. StepOf(t).op # "spawned" /\ StepOf(t).op \notin AskOps
  BY <1>1 DEF AskOps, CallOps, WaitOps
<1>3. NoStrayReply'
  BY <1>1 DEF IInv, NoStrayReply
<1>4. PICK c \in Client : c = Home[t] /\ TypeOK /\ ~cl[c].crashed /\ ~cl[c].endwrite
  BY <1>1, <1>2, Living
<1>5. CASE cl[c].shutdown
  <2>1. th' = [th EXCEPT ![t] = Return(t)] /\ UNCHANGED cl /\ Sends(Home[t])
    BY <1>4, <1>5 DEF Terminate, Sends
  <2> QED
    BY <1>1, <1>2, <1>3, <2>1, LeavingUnchanged
<1>6. CASE ~cl[c].shutdown
  <2>1. /\ cl' = [cl EXCEPT ![c].shutdown = TRUE, ![c].term = TRUE]
        /\ th' = [Signalled(c) EXCEPT ![t] = Return(t)]
        /\ SendMessage(Home[t], Request(StepOf(t), 0))
    BY <1>4, <1>6 DEF Terminate
  <2>2. Sends(c)
    BY <1>1, <1>2, <1>4, <2>1, Sending
  <2>3. PICK p \in Nat \ {0} : Return(t) = Fresh(p)
    BY <1>4, NextStep
  <2>4. th'[t] = Fresh(p) /\ \A u \in Thread : u # t => th'[u] = Signalled(c)[u]
    BY <2>1, <2>3 DEF Signalled
  <2>5. \A u \in Thread : Signalled(c)[u] \in ThreadState
    <3> SUFFICES ASSUME NEW u \in Thread PROVE Signalled(c)[u] \in ThreadState
      OBVIOUS
    <3>1. PICK x \in ThreadState : x = th[u]
      BY <1>4 DEF TypeOK
    <3>2. [x EXCEPT !.sig = TRUE] \in ThreadState
      BY SigUpdate DEF SameThread
    <3>3. Signalled(c)[u] = x \/ Signalled(c)[u] = [x EXCEPT !.sig = TRUE]
      BY <3>1 DEF Signalled
    <3> QED
      BY <3>2, <3>3
  <2>6. Fresh(p) \in ThreadState
    BY FreshFacts
  <2>7. th' \in [Thread -> ThreadState]
    <3>1. th' = [u \in Thread |-> th'[u]]
      BY <2>1 DEF Signalled
    <3>2. \A u \in Thread : th'[u] \in ThreadState
      BY <2>4, <2>5, <2>6
    <3> QED
      BY <3>1, <3>2
  <2>8. \A u \in Thread :
           \/ th'[u] = Signalled(c)[u]
           \/ /\ Home[u] = c /\ ~cl[c].crashed /\ ~cl[c].endwrite
              /\ \E q \in Nat \ {0} : th'[u] = Fresh(q)
    BY <1>4, <2>4
  <2>9. down' \in [Client -> Seq(Msg)]
    BY <1>1, <1>4 DEF TypeOK
  <2> QED
    BY <1>1, <1>3, <2>1, <2>2, <2>7, <2>8, <2>9, Shutting
<1> QED
  BY <1>5, <1>6

(* What a thread that scans its messages does.                             *)
LEMMA Scanning ==
  ASSUME IInv, NEW t \in Thread, ~Ended(t), StepOf(t).op \in WaitOps, th[t].st # "ready",
         th[t].st = "call" => th[t].signaled /\ ~Wanted(StepOf(t), th[t].msg),
         ~cl[Home[t]].shutdown, th' = [th EXCEPT ![t] = Scan(t)],
         UNCHANGED <<cl, up, down, srv, failed>>
  PROVE  IInv'
<1>1. StepOf(t).op # "spawned" /\ Sends(Home[t]) /\ NoStrayReply'
  BY DEF WaitOps, Sends, IInv, NoStrayReply
<1>2. CASE \E i \in DOMAIN th[t].box : Wanted(StepOf(t), th[t].box[i])
  <2>1. th' = [th EXCEPT ![t] = Return(t)]
    BY <1>2 DEF Scan
  <2> QED
    BY <1>1, <2>1, LeavingUnchanged
<1>3. CASE ~\E i \in DOMAIN th[t].box : Wanted(StepOf(t), th[t].box[i])
  <2>1. th' = [th EXCEPT ![t] = [th[t] EXCEPT !.st = "wait", !.box = <<>>, !.sig = FALSE]]
    BY <1>3 DEF Scan
  <2>2. \A m \in Elems(th[t].box) : ~Wanted(StepOf(t), m)
    BY <1>3 DEF Elems
  <2> QED
    BY <2>1, <2>2, Waiting
<1> QED
  BY <1>2, <1>3

LEMMA WakingCall ==
  ASSUME IInv, NEW t \in Thread, WakeCall(t)
  PROVE  IInv'
<1>1. ~Ended(t) /\ th[t].st = "call" /\ UNCHANGED <<up, down, srv>>
  BY DEF WakeCall
<1>2. StepOf(t).op \in AskOps
  BY <1>1 DEF IInv, ThreadInv, InOperation
<1>3. StepOf(t).op # "spawned" /\ Sends(Home[t])
  BY <1>1, <1>2 DEF AskOps, CallOps, WaitOps, Sends
<1>4. CASE cl[Home[t]].shutdown
  <2>1. th' = [th EXCEPT ![t] = Interrupted(t)] /\ UNCHANGED <<cl, failed>>
    BY <1>4 DEF WakeCall
  <2>2. NoStrayReply'
    BY <2>1 DEF IInv, NoStrayReply
  <2> QED
    BY <1>1, <1>3, <2>1, <2>2, LeavingUnchanged
<1>5. CASE ~cl[Home[t]].shutdown /\ StepOf(t).op \in CallOps
  <2>0. StepOf(t).op \notin WaitOps
    BY <1>5 DEF CallOps, WaitOps
  <2>1. /\ th' = [th EXCEPT ![t] = IF th[t].msg.ok THEN Return(t) ELSE Throw(t)]
        /\ cl' = IF StepOf(t).op = "setup" /\ th[t].msg.ok
                 THEN [cl EXCEPT ![Home[t]].kernels = @ \cup {StepOf(t).name},
                                 ![Home[t]].got = @ \cup {StepOf(t).name}]
                 ELSE cl
        /\ failed' = failed \/ failed' = failed \cup {"endpoint"}
    BY <1>5, <2>0 DEF WakeCall
  <2>2. PICK y \in {Return(t), Throw(t), Interrupted(t)} : th' = [th EXCEPT ![t] = y]
    BY <2>1
  <2>3. NoStrayReply'
    BY <2>1 DEF IInv, NoStrayReply
  <2>4. CASE cl' = cl
    BY <1>1, <1>3, <2>2, <2>3, <2>4, LeavingUnchanged
  <2>5. CASE cl' = [cl EXCEPT ![Home[t]].kernels = @ \cup {StepOf(t).name},
                              ![Home[t]].got = @ \cup {StepOf(t).name}]
    <3>1. TypeOK /\ Shape
      BY DEF IInv, ThreadInv, Shape
    <3>2. PICK k \in ClientState : k = cl[Home[t]]
      BY <3>1, HomeFact DEF TypeOK
    <3>3. PICK n \in Name : n = StepOf(t).name
      BY <1>1, <3>1, StepFacts
    <3>4. PICK S \in SUBSET Name, G \in SUBSET Name : S = k.kernels \cup {n} /\ G = k.got \cup {n}
      BY DEF ClientState
    <3>5. PICK x : x = [k EXCEPT !.kernels = S, !.got = G] /\ SameCore(k, x)
      BY CoreUpdates
    <3>6. cl' = [cl EXCEPT ![Home[t]] = x]
      <4>1. Home[t] \in Client /\ cl \in [Client -> ClientState]
        BY <3>1, HomeFact DEF TypeOK
      <4> QED
        BY <2>5, <3>2, <3>3, <3>4, <3>5, <4>1 DEF ClientState
    <3> QED
      BY <1>1, <1>3, <2>2, <2>3, <3>2, <3>5, <3>6, Leaving
  <2> QED
    BY <2>1, <2>4, <2>5
<1>6. CASE ~cl[Home[t]].shutdown /\ StepOf(t).op \in WaitOps
  <2>0. StepOf(t).op \notin CallOps
    BY <1>6 DEF CallOps, WaitOps
  <2>1. /\ th' = [th EXCEPT ![t] = IF Wanted(StepOf(t), th[t].msg) THEN Return(t) ELSE Scan(t)]
        /\ UNCHANGED <<cl, failed>> /\ th[t].signaled
    BY <1>6, <2>0 DEF WakeCall
  <2>2. NoStrayReply'
    BY <2>1 DEF IInv, NoStrayReply
  <2>3. CASE Wanted(StepOf(t), th[t].msg)
    <3>1. th' = [th EXCEPT ![t] = Return(t)]
      BY <2>1, <2>3
    <3> QED
      BY <1>1, <1>3, <2>1, <2>2, <3>1, LeavingUnchanged
  <2>4. CASE ~Wanted(StepOf(t), th[t].msg)
    <3>1. th' = [th EXCEPT ![t] = Scan(t)]
      BY <2>1, <2>4
    <3> QED
      BY <1>1, <1>6, <2>1, <2>4, <3>1, Scanning
  <2> QED
    BY <2>3, <2>4
<1> QED
  BY <1>2, <1>4, <1>5, <1>6 DEF AskOps

LEMMA WakingWait ==
  ASSUME IInv, NEW t \in Thread, WakeWait(t)
  PROVE  IInv'
<1>1. /\ ~Ended(t) /\ th[t].st = "wait" /\ UNCHANGED <<cl, up, down, srv, failed>>
      /\ th' = [th EXCEPT ![t] = IF cl[Home[t]].shutdown THEN Interrupted(t) ELSE Scan(t)]
  BY DEF WakeWait
<1>2. StepOf(t).op \in WaitOps
  BY <1>1 DEF IInv, ThreadInv, InOperation
<1>3. CASE cl[Home[t]].shutdown
  <2>1. StepOf(t).op # "spawned" /\ Sends(Home[t]) /\ NoStrayReply'
    BY <1>1, <1>2 DEF WaitOps, Sends, IInv, NoStrayReply
  <2>2. th' = [th EXCEPT ![t] = Interrupted(t)]
    BY <1>1, <1>3
  <2> QED
    BY <1>1, <2>1, <2>2, LeavingUnchanged
<1>4. CASE ~cl[Home[t]].shutdown
  <2>1. th' = [th EXCEPT ![t] = Scan(t)] /\ th[t].st # "call" /\ th[t].st # "ready"
    BY <1>1, <1>4
  <2> QED
    BY <1>1, <1>2, <1>4, <2>1, Scanning
<1> QED
  BY <1>3, <1>4

(* The process takes note of a message that no thread waits for, or of     *)
(* nothing but its own state.                                              *)
LEMMA Resting ==
  ASSUME IInv, NEW c \in Client, UNCHANGED <<th, srv>>, NEW x, SameCore(cl[c], x),
         cl' = [cl EXCEPT ![c] = x],
         cl[c].endwrite => x.got = cl[c].got /\ x.kernels = cl[c].kernels,
         Sends(c), NoStrayReply',
         \/ UNCHANGED down
         \/ \E types : /\ Incoming(c, types)
                       /\ cl[c].shutdown \/ types \cap {"terminate", "broadcast", "reply"} = {}
  PROVE  IInv'
<1>1. TypeOK
  BY DEF IInv
<1>2. cl' \in [Client -> ClientState] /\ cl'[c] = x /\ \A d \in Client : d # c => cl'[d] = cl[d]
  BY <1>1 DEF TypeOK, SameCore
<1>3. /\ cl'[c].tran = cl[c].tran /\ cl'[c].calls = cl[c].calls
      /\ cl'[c].crashed = cl[c].crashed /\ cl'[c].shutdown = cl[c].shutdown
      /\ cl'[c].endwrite = cl[c].endwrite
  BY <1>2 DEF SameCore
<1>4. ASSUME NEW u \in Thread
      PROVE  Kept(u) /\ (Home[u] = c /\ cl'[c].shutdown /\ th[u].st # "ready" => th'[u].sig)
  BY <1>1, <1>3, KeptSame DEF IInv, ThreadInv, InOperation
<1>5. /\ down' \in [Client -> Seq(Msg)] /\ \A d \in Client : d # c => down'[d] = down[d]
      /\ Elems(down'[c]) \subseteq Elems(down[c]) /\ (Distinct(down[c]) => Distinct(down'[c]))
      /\ down[c] = <<>> => down'[c] = <<>>
      /\ \A m \in Elems(down[c]) :
           \/ m \in Elems(down'[c]) \/ cl'[c].shutdown
           \/ m.type \notin {"terminate", "broadcast", "reply"}
  <2>1. CASE UNCHANGED down
    BY <1>1, <2>1 DEF TypeOK
  <2>2. CASE ~UNCHANGED down
    <3>1. PICK types : /\ Incoming(c, types)
                       /\ cl[c].shutdown \/ types \cap {"terminate", "broadcast", "reply"} = {}
      BY <2>2
    <3>2. /\ down' \in [Client -> Seq(Msg)] /\ down[c] # <<>> /\ Head(down[c]).type \in types
          /\ Elems(down[c]) = {Head(down[c])} \cup Elems(down'[c])
          /\ Distinct(down[c]) => Distinct(down'[c])
          /\ \A d \in Client : d # c => down'[d] = down[d]
      BY <1>1, <3>1, IncomingFacts
    <3> QED
      BY <1>3, <3>1, <3>2
  <2> QED
    BY <2>1, <2>2
<1>6. th' \in [Thread -> ThreadState]
  BY <1>1 DEF TypeOK
<1> QED
  BY <1>2, <1>3, <1>4, <1>5, <1>6, Moving

LEMMA RestingUnchanged ==
  ASSUME IInv, NEW c \in Client, UNCHANGED <<cl, th, srv>>, Sends(c), NoStrayReply',
         \E types : /\ Incoming(c, types)
                    /\ cl[c].shutdown \/ types \cap {"terminate", "broadcast", "reply"} = {}
  PROVE  IInv'
<1>1. cl \in [Client -> ClientState]
  BY DEF IInv, TypeOK
<1>2. PICK x : x = cl[c] /\ SameCore(cl[c], x)
  BY <1>1 DEF SameCore
<1>3. cl' = [cl EXCEPT ![c] = x]
  BY <1>1, <1>2
<1> QED
  BY <1>2, <1>3, Resting

(* The end of the network reaches a process.                               *)
LEMMA Stopped ==
  ASSUME IInv, NEW c \in Client, NEW types, Incoming(c, types), InternalTerminate(c),
         Sends(c), UNCHANGED <<srv, failed>>
  PROVE  IInv'
<1>1. NoStrayReply' /\ TypeOK
  BY DEF IInv, NoStrayReply
<1>2. CASE cl[c].shutdown
  <2>1. UNCHANGED <<cl, th>>
    BY <1>2 DEF InternalTerminate
  <2> QED
    BY <1>1, <1>2, <2>1, RestingUnchanged
<1>3. CASE ~cl[c].shutdown
  <2>1. cl' = [cl EXCEPT ![c].shutdown = TRUE, ![c].term = TRUE] /\ th' = Signalled(c)
    BY <1>3 DEF InternalTerminate
  <2>2. th' \in [Thread -> ThreadState]
    <3>1. ASSUME NEW u \in Thread PROVE th'[u] \in ThreadState
      <4>1. PICK x \in ThreadState : x = th[u]
        BY <1>1 DEF TypeOK
      <4>2. [x EXCEPT !.sig = TRUE] \in ThreadState
        BY SigUpdate DEF SameThread
      <4>3. th'[u] = x \/ th'[u] = [x EXCEPT !.sig = TRUE]
        BY <2>1, <4>1 DEF Signalled
      <4> QED
        BY <4>2, <4>3
    <3>2. th' = [u \in Thread |-> th'[u]]
      BY <2>1 DEF Signalled
    <3> QED
      BY <3>1, <3>2
  <2>3. /\ down' \in [Client -> Seq(Msg)] /\ down[c] # <<>>
        /\ Elems(down[c]) = {Head(down[c])} \cup Elems(down'[c])
        /\ Distinct(down[c]) => Distinct(down'[c])
        /\ \A d \in Client : d # c => down'[d] = down[d]
    BY <1>1, IncomingFacts
  <2>4. Elems(down'[c]) \subseteq Elems(down[c])
    BY <2>3
  <2>5. \A u \in Thread : th'[u] = Signalled(c)[u]
    BY <2>1
  <2> QED
    BY <1>1, <2>1, <2>2, <2>3, <2>4, <2>5, Shutting
<1> QED
  BY <1>2, <1>3

LEMMA EndArriving ==
  ASSUME IInv, NEW c \in Client, DispatchTerminate(c) \/ EndOfStream(c)
  PROVE  IInv'
<1>1. CASE DispatchTerminate(c)
  BY <1>1, Stopped DEF DispatchTerminate, Sends
<1>2. CASE EndOfStream(c)
  <2>1. Sends(c)
    <3>1. PICK s : s = [op |-> "terminate", name |-> "", of |-> ""]
      OBVIOUS
    <3>2. /\ s.op \in Ops \cup {"eof"} /\ s.name \in Name /\ s.of \in Name
          /\ s.op \notin AskOps
      BY <3>1, ProgramAssumption DEF Ops, LocalOps, AskOps, CallOps, WaitOps
    <3>3. PICK i \in Nat : i = 0
      OBVIOUS
    <3>4. PICK r : r = Request(s, i)
      OBVIOUS
    <3>5. r \in Req /\ r.type = s.op /\ r.id = i
      BY <3>2, <3>4, RequestFacts
    <3>6. UNCHANGED up \/ SendMessage(c, r)
      BY <1>2, <3>1, <3>3, <3>4 DEF EndOfStream
    <3> QED
      BY <3>2, <3>3, <3>5, <3>6 DEF SendMessage, Sends
  <2> QED
    BY <1>2, <2>1, Stopped DEF EndOfStream
<1> QED
  BY <1>1, <1>2

LEMMA KernelTold ==
  ASSUME IInv, NEW c \in Client, DispatchKernel(c)
  PROVE  IInv'
<1>1. Incoming(c, {"kernel"}) /\ UNCHANGED <<th, up, srv>>
  BY DEF DispatchKernel
<1>2. Sends(c) /\ {"kernel"} \cap {"terminate", "broadcast", "reply"} = {}
  BY <1>1 DEF Sends
<1>3. PICK k \in ClientState, n \in Name : k = cl[c] /\ n = Head(down[c]).name
  <2>1. TypeOK
    BY DEF IInv
  <2>2. Head(down[c]) \in Msg
    BY <1>1, <2>1, IncomingFacts
  <2> QED
    BY <2>1, <2>2 DEF TypeOK, Msg
<1>4. CASE Head(down[c]).kind \in (cl[c].kernels \cap cl[c].running) \ cl[c].told
  <2>1. cl' = [cl EXCEPT ![c].got = @ \cup {Head(down[c]).name}] /\ UNCHANGED failed
    BY <1>4 DEF DispatchKernel
  <2>2. PICK S \in SUBSET Name : S = k.got \cup {n}
    BY DEF ClientState
  <2>3. PICK x : x = [k EXCEPT !.got = S] /\ SameCore(k, x)
    BY CoreUpdates
  <2>4. cl' = [cl EXCEPT ![c] = x]
    BY <1>3, <2>1, <2>2, <2>3
  <2>5. ~cl[c].endwrite
    BY <1>4 DEF IInv, ClientInv, Finished
  <2>6. NoStrayReply'
    BY <2>1 DEF IInv, NoStrayReply
  <2> QED
    BY <1>1, <1>2, <1>3, <2>3, <2>4, <2>5, <2>6, Resting
<1>5. CASE ~(Head(down[c]).kind \in (cl[c].kernels \cap cl[c].running) \ cl[c].told)
  <2>1. UNCHANGED cl /\ NoStrayReply'
    BY <1>5 DEF DispatchKernel, IInv, NoStrayReply
  <2> QED
    BY <1>1, <1>2, <2>1, RestingUnchanged
<1> QED
  BY <1>4, <1>5

LEMMA NotifyingKernels ==
  ASSUME IInv, NEW c \in Client, TerminateThread(c)
  PROVE  IInv'
<1>1. /\ cl' = [cl EXCEPT ![c].told = @ \cup (cl[c].kernels \cap cl[c].running), ![c].term = FALSE]
      /\ UNCHANGED <<th, up, down, srv, failed>>
  BY DEF TerminateThread
<1>2. PICK k \in ClientState : k = cl[c]
  BY DEF IInv, TypeOK
<1>3. PICK S \in SUBSET Name : S = k.told \cup (k.kernels \cap k.running)
  BY DEF ClientState
<1>4. PICK x : x = [k EXCEPT !.told = S, !.term = FALSE] /\ SameCore(k, x)
  BY CoreUpdates
<1>5. x.got = k.got /\ x.kernels = k.kernels
  BY <1>4 DEF ClientState
<1>6. cl' = [cl EXCEPT ![c] = x]
  <2>1. cl \in [Client -> ClientState]
    BY DEF IInv, TypeOK
  <2> QED
    BY <1>1, <1>2, <1>3, <1>4, <2>1 DEF ClientState
<1>7. Sends(c) /\ NoStrayReply'
  BY <1>1 DEF Sends, IInv, NoStrayReply
<1> QED
  BY <1>1, <1>2, <1>4, <1>5, <1>6, <1>7, Resting

---------------------------------------------------------------------------
(* The theorems.                                                           *)
LEMMA Initially == Init => IInv
<1> SUFFICES ASSUME Init PROVE IInv
  OBVIOUS
<1>1. /\ cl = [c \in Client |-> Started] /\ th = [t \in Thread |-> Fresh(1)]
      /\ up = [c \in Client |-> <<>>] /\ down = [c \in Client |-> <<>>] /\ failed = {}
  BY DEF Init
<1>2. Started \in ClientState
  BY DEF Started, ClientState
<1>3. PICK s : s = srv /\ s = [shutdown |-> FALSE, accepted |-> {}, clients |-> {}, closed |-> {},
                   kernels |-> <<>>, nodes |-> <<>>, ends |-> <<>>, live |-> 0]
  BY DEF Init
<1>4. \A S : <<>> \in Known(S) /\ DOMAIN <<>> = {}
  <2>1. \A S : <<>> \in [{} -> S] /\ DOMAIN <<>> = {}
    OBVIOUS
  <2> QED
    BY <2>1, KnownFacts
<1>5. /\ s \in ServerState /\ s.accepted = {} /\ s.clients = {} /\ s.closed = {}
      /\ ~s.shutdown
  BY <1>3, <1>4 DEF ServerState
<1>6. LET y == Fresh(1) IN
         /\ y \in ThreadState /\ y.pc = 1 /\ y.st = "ready" /\ ~y.waiter
         /\ ~y.signaled /\ y.msg.flags = {} /\ y.box = <<>>
  BY FreshFacts
<1>7. TypeOK
  BY <1>1, <1>2, <1>3, <1>5, <1>6 DEF TypeOK
<1>8. Connections /\ NoStrayReply
  BY <1>1, <1>3, <1>5 DEF Connections, NoStrayReply
<1>9. ASSUME NEW t \in Thread PROVE ThreadInv(t)
  <2>1. /\ th[t].pc = 1 /\ th[t].st = "ready" /\ ~th[t].waiter /\ ~th[t].signaled
        /\ th[t].msg.flags = {} /\ th[t].box = <<>>
    BY <1>1, <1>6
  <2>2. ~cl[Home[t]].crashed
    BY <1>1, HomeFact DEF Started
  <2>3. Truthful(t)
    BY <2>1, ElemsShort DEF Truthful, Truth
  <2> QED
    BY <2>1, <2>2, <2>3 DEF ThreadInv, InOperation, Unread, Noticed, Waits
<1>a. ASSUME NEW c \in Client PROVE ClientInv(c)
  <2>1. /\ up[c] = <<>> /\ down[c] = <<>> /\ Elems(up[c]) = {} /\ Elems(down[c]) = {}
        /\ Distinct(up[c]) /\ Distinct(down[c])
    BY <1>1, ElemsShort
  <2>2. ~cl[c].endwrite /\ ~cl[c].crashed /\ cl[c].calls = {}
    BY <1>1 DEF Started
  <2> QED
    BY <1>3, <1>5, <2>1, <2>2 DEF ClientInv, Numbered, Own, Requests, Replies, Finished, Silent,
       NotHeard, EndTold, Sincere
<1> QED
  BY <1>7, <1>8, <1>9, <1>a DEF IInv

LEMMA Stuttering ==
  ASSUME IInv, UNCHANGED vars
  PROVE  IInv'
<1>0. UNCHANGED <<cl, th, up, down, srv, failed>>
  BY DEF vars
<1>1. TypeOK' /\ Connections' /\ NoStrayReply'
  BY <1>0 DEF IInv, TypeOK, Connections, NoStrayReply
<1>2. ASSUME NEW u \in Thread PROVE Noticed(u)'
  BY <1>0 DEF IInv, ThreadInv, Noticed, Waits, StepOf, Happened, Notice, InRequest, InReply,
     InCall, InBox, InBroadcast
<1>3. ASSUME NEW d \in Client PROVE EndTold(d)'
  BY <1>0 DEF IInv, ClientInv, EndTold
<1>4. \A d \in Client : ~cl[d].crashed => Distinct(down[d])
  BY DEF IInv, ClientInv, Numbered
<1> QED
  BY <1>0, <1>1, <1>2, <1>3, <1>4, ServerSide

LEMMA Inductive == IInv /\ [Next]_vars => IInv'
<1> SUFFICES ASSUME IInv, [Next]_vars PROVE IInv'
  OBVIOUS
<1>1. ASSUME NEW t \in Thread, ThreadStep(t) PROVE IInv'
  BY <1>1, BeginningCall, BeginningSend, Telling, KernelEnding, Spawning, Terminating,
     WakingCall, WakingWait DEF ThreadStep
<1>2. ASSUME NEW c \in Client, ReaderStep(c) PROVE IInv'
  BY <1>2, EndArriving, Replying, Broadcasting, KernelTold DEF ReaderStep
<1>3. ASSUME NEW c \in Client,
             TerminateThread(c) \/ EndWrite(c) \/ Crash(c) \/ Accept(c)
      PROVE IInv'
  BY <1>3, NotifyingKernels, Ending, Crashing, Accepting
<1>4. ASSUME NEW c \in Client, ServerStep(c) PROVE IInv'
  BY <1>4, Unanswered, ServerTerminating, Disconnecting, Sweeping, SettingUp, SignallingKernel,
     MakingNodeKey, SignallingNode, Informing, MakingEndpoint, Connecting, Routing DEF ServerStep
<1>5. CASE UNCHANGED vars
  BY <1>5, Stuttering
<1> QED
  BY <1>1, <1>2, <1>3, <1>4, <1>5 DEF Next, ThreadStep, ReaderStep, ServerStep

(* Whatever the threads of the processes do, and whichever of them crash,  *)
(* the state of the context is as IInv says: each call is in exactly one   *)
(* request, reply or answered waiter, a process that the server has left   *)
(* has been told, and what a wait is about is never lost from the messages.*)
THEOREM Invariance == Spec => []IInv
<1>1. Init => IInv
  BY Initially
<1>2. IInv /\ [Next]_vars => IInv'
  BY Inductive
<1> QED
  BY <1>1, <1>2, PTL DEF Spec

(* RemoteContextClient::InternalDispatchMessage finds the entry of every   *)
(* reply in its map of calls: the server answers a request at most once,   *)
(* with the number it came with, and an entry is erased by its reply alone.*)
THEOREM NoReplyIsStray == Spec => []NoStrayReply
<1>1. IInv => NoStrayReply
  BY DEF IInv
<1> QED
  BY <1>1, Invariance, PTL

(* A thread that waits in WaitForNodeStart, WaitForNodeEnd, WaitForKernel  *)
(* or WaitForAllNodeEnd for something that has happened has the message    *)
(* that says so, or will be sent it: it registers its waiter before it     *)
(* asks, so nothing slips between the answer and the wait.                 *)
THEOREM NoticesArrive == Spec => []NoticeOnItsWay
<1>1. ASSUME IInv PROVE NoticeOnItsWay
  <2> SUFFICES ASSUME NEW t \in Thread, ~Ended(t), th[t].st = "wait",
                      Happened(StepOf(t)), Home[t] \in Open, ~cl[Home[t]].crashed
               PROVE  \/ \E i \in DOMAIN th[t].box : th[t].sig /\ Wanted(StepOf(t), th[t].box[i])
                      \/ \E i \in DOMAIN down[Home[t]] :
                           \/ /\ Wanted(StepOf(t), down[Home[t]][i])
                              /\ down[Home[t]][i].type = "broadcast"
                           \/ down[Home[t]][i].type = "terminate"
                      \/ cl[Home[t]].shutdown /\ th[t].sig
    BY DEF NoticeOnItsWay
  <2>1. InOperation(t) /\ Noticed(t)
    BY <1>1 DEF IInv, ThreadInv
  <2>2. Waits(t) /\ Home[t] \notin srv.closed /\ (cl[Home[t]].shutdown => th[t].sig)
    BY <2>1 DEF InOperation, Waits, Open
  <2>3. Notice(t)
    BY <2>1, <2>2 DEF Noticed
  <2>4. InBox(t) \/ InBroadcast(t) \/ cl[Home[t]].shutdown
    BY <2>3 DEF Notice, InRequest, InReply, InCall
  <2> QED
    BY <2>2, <2>4 DEF InBox, InBroadcast, Elems
<1> QED
  BY <1>1, Invariance, PTL

(* Only a thread that wakes leaves a wait operation, short of a shutdown   *)
(* and of a crash.                                                         *)
LEMMA OnlyWaking ==
  ASSUME IInv, Next, NEW t \in Thread, ~Ended(t), th'[t].pc # th[t].pc,
         StepOf(t).op \in WaitOps, ~cl[Home[t]].shutdown, ~cl'[Home[t]].crashed
  PROVE  WakeCall(t) \/ WakeWait(t)
<1>1. th \in [Thread -> ThreadState] /\ cl \in [Client -> ClientState] /\ Home[t] \in Client
  BY HomeFact DEF IInv, TypeOK
<1>2. PICK x \in ThreadState : x = th[t]
  BY <1>1
<1>3. ASSUME NEW u \in Thread, ThreadStep(u) PROVE WakeCall(t) \/ WakeWait(t)
  <2>1. CASE u # t
    <3>1. CASE Terminate(u)
      <4>1. th'[t] = x \/ th'[t] = [x EXCEPT !.sig = TRUE]
        BY <1>1, <1>2, <2>1, <3>1 DEF Terminate, Signalled
      <4> QED
        BY <1>2, <4>1 DEF ThreadState
    <3>2. CASE ~Terminate(u)
      <4>1. th'[t] = th[t]
        BY <1>1, <1>3, <2>1, <3>2 DEF ThreadStep, BeginCall, RemoteCall, BeginSend, Log,
           SignalNodeEnd, SignalKernelEnd, Spawned, Told, WakeCall, WakeWait
      <4> QED
        BY <4>1
    <3> QED
      BY <3>1, <3>2
  <2>2. CASE u = t
    <3>1. StepOf(t).op \notin SendOps \cup {"log", "nodeend", "kernelend", "spawned", "told", "terminate"}
      BY DEF WaitOps, SendOps
    <3>2. BeginCall(t) \/ WakeCall(t) \/ WakeWait(t)
      BY <1>3, <2>2, <3>1 DEF ThreadStep, BeginSend, Log, SignalNodeEnd, SignalKernelEnd,
         Spawned, Told, Terminate, At
    <3>3. ASSUME BeginCall(t) PROVE FALSE
      <4>1. RemoteCall(t)
        BY <3>3 DEF BeginCall
      <4>2. PICK i, w : th'[t] = [x EXCEPT !.st = "call", !.id = i, !.waiter = w]
        BY <1>1, <1>2, <4>1 DEF RemoteCall, ThreadState
      <4> QED
        BY <1>2, <4>2 DEF ThreadState
    <3> QED
      BY <3>2, <3>3
  <2> QED
    BY <2>1, <2>2
<1>4. ASSUME NEW c \in Client, ReaderStep(c) PROVE FALSE
  <2>1. CASE DispatchTerminate(c) \/ EndOfStream(c)
    <3>1. th'[t] = x \/ th'[t] = [x EXCEPT !.sig = TRUE]
      BY <1>1, <1>2, <2>1 DEF DispatchTerminate, EndOfStream, InternalTerminate, Signalled
    <3> QED
      BY <1>2, <3>1 DEF ThreadState
  <2>2. CASE DispatchReply(c)
    <3>1. th'[t] = x \/ th'[t] = [x EXCEPT !.msg = Head(down[c]), !.signaled = TRUE, !.sig = TRUE]
      BY <1>1, <1>2, <2>2 DEF DispatchReply
    <3> QED
      BY <1>2, <3>1 DEF ThreadState
  <2>3. CASE DispatchBroadcast(c)
    <3>1. \/ th'[t] = x
          \/ th'[t] = [x EXCEPT !.box = Append(x.box, Head(down[c])),
                                !.sig = x.sig \/ x.st = "wait"]
      BY <1>1, <1>2, <2>3 DEF DispatchBroadcast, ThreadState
    <3> QED
      BY <1>2, <3>1 DEF ThreadState
  <2>4. CASE DispatchKernel(c)
    BY <2>4 DEF DispatchKernel
  <2> QED
    BY <1>4, <2>1, <2>2, <2>3, <2>4 DEF ReaderStep
<1>5. ASSUME NEW c \in Client, Crash(c) PROVE FALSE
  <2>1. CASE Home[t] = c
    <3>1. cl'[c].crashed
      BY <1>1, <1>5 DEF Crash, Started
    <3> QED
      BY <2>1, <3>1
  <2>2. CASE Home[t] # c
    BY <1>5, <2>2 DEF Crash
  <2> QED
    BY <2>1, <2>2
<1>6. ASSUME NEW c \in Client,
             TerminateThread(c) \/ EndWrite(c) \/ Accept(c) \/ ServerStep(c)
      PROVE  FALSE
  <2>1. UNCHANGED th
    BY <1>6 DEF TerminateThread, EndWrite, Accept, ServerStep, Ignore, DispatchServerTerminate,
       Disconnect, Sweep, SetupKernel, SignalKernel, CreateNodeKey, SignalNode, GetInfo,
       GetCreateEndpointKey, ConnectEndpoints, RouteKernelMessage, LogMessage, Dispatch, Receive
  <2> QED
    BY <2>1
<1> QED
  BY <1>3, <1>4, <1>5, <1>6 DEF Next, ThreadStep, ReaderStep, ServerStep

(* WaitForNodeStart and WaitForNodeEnd return, short of a shutdown and of  *)
(* the death of the process, only when the server knows that the node has  *)
(* started or ended: a message about another node, of the other kind or    *)
(* with the field unset does not end the wait, and none tells of what has  *)
(* not happened.                                                           *)
THEOREM WaitsSayTruth == Spec => WaitTruth
<1> DEFINE A == \A t \in Thread :
                  ~Ended(t) /\ th'[t] = Return(t)
                  /\ ~(cl[Home[t]].shutdown \/ cl'[Home[t]].crashed) =>
                    /\ StepOf(t).op = "waitstart" =>
                         /\ StepOf(t).name \in DOMAIN srv.nodes
                         /\ "started" \in srv.nodes[StepOf(t).name]
                    /\ StepOf(t).op = "waitend" =>
                         /\ StepOf(t).name \in DOMAIN srv.nodes
                         /\ "dead" \in srv.nodes[StepOf(t).name]
<1>1. ASSUME IInv, Next PROVE A
  <2> SUFFICES ASSUME NEW t \in Thread, ~Ended(t), th'[t] = Return(t),
                      ~cl[Home[t]].shutdown, ~cl'[Home[t]].crashed,
                      StepOf(t).op \in {"waitstart", "waitend"}
               PROVE  /\ StepOf(t).op = "waitstart" =>
                           /\ StepOf(t).name \in DOMAIN srv.nodes
                           /\ "started" \in srv.nodes[StepOf(t).name]
                      /\ StepOf(t).op = "waitend" =>
                           /\ StepOf(t).name \in DOMAIN srv.nodes
                           /\ "dead" \in srv.nodes[StepOf(t).name]
    OBVIOUS
  <2>s. PICK s : s = StepOf(t)
    OBVIOUS
  <2>1. PICK x \in ThreadState : x = th[t] /\ s = StepOf(t)
    BY <1>1, <2>s DEF IInv, TypeOK
  <2>2. PICK n \in Nat, k \in Nat : n = x.pc /\ k = n + 1
    BY DEF ThreadState
  <2>3. th'[t] = Fresh(k) /\ th'[t].pc = k /\ k # n
    BY <2>1, <2>2, FreshFacts DEF Return
  <2>4. WakeCall(t) \/ WakeWait(t)
    BY <1>1, <2>1, <2>2, <2>3, OnlyWaking DEF WaitOps
  <2>5. \/ th'[t] = Scan(t) \/ Wanted(s, x.msg)
    <3>1. s.op \notin CallOps
      BY <2>1 DEF CallOps
    <3>2. th \in [Thread -> ThreadState]
      BY <1>1 DEF IInv, TypeOK
    <3> QED
      BY <2>1, <2>4, <3>1, <3>2 DEF WakeCall, WakeWait
  <2>6. Wanted(s, x.msg) \/ \E m \in Elems(x.box) : Wanted(s, m)
    <3>1. CASE th'[t] = Scan(t)
      <4>1. \/ \E i \in DOMAIN x.box : Wanted(s, x.box[i])
            \/ th'[t] = [x EXCEPT !.st = "wait", !.box = <<>>, !.sig = FALSE]
        BY <2>1, <3>1 DEF Scan
      <4>2. th'[t] # [x EXCEPT !.st = "wait", !.box = <<>>, !.sig = FALSE]
        BY <2>2, <2>3, ScanUpdate
      <4> QED
        BY <4>1, <4>2 DEF Elems
    <3> QED
      BY <2>5, <3>1
  <2>7. PICK m : Wanted(s, m) /\ Truth(m)
    BY <1>1, <2>1, <2>6 DEF IInv, ThreadInv, Truthful
  <2>8. CASE s.op = "waitstart"
    <3>1. m.kind = "node" /\ "started" \in m.flags /\ m.name = s.name
      BY <2>7, <2>8, WantedFacts
    <3> QED
      BY <2>1, <2>7, <2>8, <3>1 DEF Truth
  <2>9. CASE s.op = "waitend"
    <3>1. m.kind = "node" /\ "dead" \in m.flags /\ m.name = s.name
      BY <2>7, <2>9, WantedFacts
    <3> QED
      BY <2>1, <2>7, <2>9, <3>1 DEF Truth
  <2> QED
    BY <2>1, <2>8, <2>9
<1>2. IInv /\ [Next]_vars => [A]_vars
  BY <1>1
<1> HIDE DEF A
<1>3. Spec => [][A]_vars
  BY <1>2, Invariance, PTL DEF Spec
<1> QED
  BY <1>3 DEF WaitTruth, A
====
