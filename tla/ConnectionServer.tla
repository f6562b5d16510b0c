-------------------------- MODULE ConnectionServer --------------------------
(***************************************************************************)
(* How the two halves of a remote queue find each other, and how a kernel  *)
(* lets go of them: CPN::ConnectionServer with its PendingConnections      *)
(* (Sync::Future), CPN::RemoteQueueHolder, the file threads of the         *)
(* RemoteQueues (FileThreadEntryPoint) up to where they are connected, and *)
(* the thread of a Kernel with remote operation.                           *)
(*                                                                         *)
(* The writer's half connects to the server of the reader's kernel and     *)
(* names the reader it wants; the kernel thread, in Poll, accepts the      *)
(* connection and hands it to the future the reader waits for, whichever   *)
(* of the two comes first.  A half connects at most once: an error of the  *)
(* connection kills it (HandleError), so a reader has at most one future.  *)
(*                                                                         *)
(* What a queue does once connected is in RemoteQueue, how the context     *)
(* comes to terminate in RemoteContext.  The queues of a kernel are made   *)
(* before its context terminates.                                          *)
(***************************************************************************)
EXTENDS Naturals, Sequences, FiniteSets

CONSTANTS
  Kernel, Queue,
  Side,    \* Side[q][d]: the kernel of the half d of the queue q
  None     \* no queue

Half == Queue \X {"read", "write"}
KernelOf(h) == Side[h[1]][h[2]]

ASSUME SideAssumption ==
  Side \in [Queue -> [{"read", "write"} -> Kernel]] /\ None \notin Queue

VARIABLES
  terminated, \* terminated[k]: the context of k is shut down
  ker,        \* ker[k]: control of the kernel thread, TERMINATE or not, the
              \* wakeup pipe, the connection being accepted
  closed,     \* closed[k]: the server socket of k is closed
  backlog,    \* backlog[k]: connections not yet accepted
  conn,       \* conn[q]: the connection the writer of q has made
  pend,       \* pend[q]: the PendingConnection for the reader of q
  ft,         \* ft[h]: control of the file thread
  sock,       \* sock[h]: does the half have a descriptor?
  dead,
  map, list,  \* queuemap and queuelist of the holders
  dropped     \* halves that have been destroyed, with dead as it was then

kvars == <<terminated, ker, closed, backlog>>
pvars == <<conn, pend>>
hvars == <<map, list, dropped>>
vars  == <<kvars, pvars, ft, sock, dead, hvars>>

(* late is a history variable: the future was made by a reader that had    *)
(* seen the server open, after it was closed.                              *)
NoPending == [there |-> FALSE, done |-> FALSE, canceled |-> FALSE, fd |-> FALSE,
              late |-> FALSE]

(* A future that somebody waits for and nothing is in yet.                 *)
Waiting(q) == pend[q].there /\ ~pend[q].done /\ ~pend[q].canceled

At(h, pc)  == ft[h] = pc
Go(h, pc)  == ft' = [ft EXCEPT ![h] = pc]
KSet(k, r) == ker' = [ker EXCEPT ![k] = r]
PSet(q, r) == pend' = [pend EXCEPT ![q] = r]

-----------------------------------------------------------------------------
(* The file thread of a half.                                              *)

(* CreateReaderEndpoint and CreateWriterEndpoint: AddQueue and Start.      *)
Create(h) ==
  /\ At(h, "none") /\ ~terminated[KernelOf(h)]
  /\ map' = map \cup {h} /\ Go(h, "top")
  /\ UNCHANGED <<kvars, pvars, sock, dead, list, dropped>>

(* The top of the loop.                                                    *)
Top(h) ==
  /\ At(h, "top")
  /\ dead' = [dead EXCEPT ![h] = @ \/ terminated[KernelOf(h)]]
  /\ Go(h, IF dead'[h] THEN "exit" ELSE IF sock[h] THEN "run" ELSE "ask")
  /\ UNCHANGED <<kvars, pvars, sock, hvars>>

(* ConnectWriter and ConnectReader look at the server before they lock.    *)
Ask(h) ==
  /\ At(h, "ask")
  /\ Go(h, IF closed[KernelOf(h)] THEN "top" ELSE IF h[2] = "write" THEN "look" ELSE "register")
  /\ UNCHANGED <<kvars, pvars, sock, dead, hvars>>

(* ConnectWriter asks the context where the reader is; a context that is   *)
(* shut down throws, and that ends the loop.                               *)
Look(h) ==
  /\ At(h, "look")
  /\ Go(h, IF terminated[KernelOf(h)] THEN "exit" ELSE "dial")
  /\ UNCHANGED <<kvars, pvars, sock, dead, hvars>>

(* ConnectWriter connects; a refused connection kills the half.            *)
Dial(h) ==
  LET k == Side[h[1]]["read"]
  IN  /\ At(h, "dial")
      /\ IF closed[k]
         THEN /\ dead' = [dead EXCEPT ![h] = TRUE] /\ Go(h, "exit")
              /\ UNCHANGED <<backlog, conn>>
         ELSE /\ backlog' = [backlog EXCEPT ![k] = Append(@, h[1])]
              /\ conn' = [conn EXCEPT ![h[1]] = "made"] /\ Go(h, "name")
              /\ UNCHANGED dead
      /\ UNCHANGED <<terminated, ker, closed, pend, sock, hvars>>

(* ConnectWriter sends the ID packet, and its future has the descriptor;   *)
(* a connection that was reset kills the half.                             *)
Name(h) ==
  /\ At(h, "name")
  /\ IF conn[h[1]] = "reset"
     THEN dead' = [dead EXCEPT ![h] = TRUE] /\ Go(h, "top") /\ UNCHANGED <<conn, sock>>
     ELSE /\ conn' = [conn EXCEPT ![h[1]] = "named"]
          /\ sock' = [sock EXCEPT ![h] = TRUE] /\ Go(h, "run") /\ UNCHANGED dead
  /\ UNCHANGED <<kvars, pend, hvars>>

(* ConnectReader under the lock: the future is found or made.              *)
Register(h) ==
  /\ At(h, "register")
  /\ PSet(h[1], IF pend[h[1]].there THEN pend[h[1]]
                ELSE [NoPending EXCEPT !.there = TRUE, !.late = closed[KernelOf(h)]])
  /\ Go(h, "get")
  /\ UNCHANGED <<kvars, conn, sock, dead, hvars>>

(* Mutant of Get: the descriptor stays in the future.                      *)
GetKeep(h) ==
  /\ At(h, "get") /\ ~Waiting(h[1])
  /\ sock' = [sock EXCEPT ![h] = pend[h[1]].fd]
  /\ Go(h, "forget")
  /\ UNCHANGED <<kvars, pvars, dead, hvars>>

(* Get of the future returns its descriptor, if any.                       *)
Get(h) ==
  /\ At(h, "get") /\ ~Waiting(h[1])
  /\ sock' = [sock EXCEPT ![h] = pend[h[1]].fd]
  /\ PSet(h[1], [pend[h[1]] EXCEPT !.fd = FALSE])
  /\ Go(h, "forget")
  /\ UNCHANGED <<kvars, conn, dead, hvars>>

(* PendingDone, and back to the loop.                                      *)
Forget(h) ==
  /\ At(h, "forget")
  /\ PSet(h[1], NoPending)
  /\ Go(h, IF sock[h] THEN "run" ELSE "top")
  /\ UNCHANGED <<kvars, conn, sock, dead, hvars>>

(* The queue is done with its work (external: RemoteQueue).                *)
Finish(h) ==
  /\ At(h, "run") /\ sock[<<h[1], "read">>] /\ sock[<<h[1], "write">>]
  /\ dead' = [dead EXCEPT ![h] = TRUE]
  /\ UNCHANGED <<kvars, pvars, ft, sock, hvars>>

(* The thread polls the socket and the holder's wakeup pipe; a dead half   *)
(* leaves the loop.                                                        *)
Run(h) ==
  /\ At(h, "run") /\ dead[h]
  /\ Go(h, "exit")
  /\ UNCHANGED <<kvars, pvars, sock, dead, hvars>>

(* CleanupQueue of the holder, and Wakeup of the server.                   *)
Exit(h) ==
  /\ At(h, "exit") /\ Go(h, "gone")
  /\ map' = map \ {h} /\ list' = list \cup {h}
  /\ KSet(KernelOf(h), [ker[KernelOf(h)] EXCEPT !.wake = TRUE])
  /\ UNCHANGED <<terminated, closed, backlog, pvars, sock, dead, dropped>>

-----------------------------------------------------------------------------
(* The thread of a kernel.                                                 *)

OfKernel(k, hs) == {h \in hs : KernelOf(h) = k}
KGo(k, pc) == KSet(k, [ker[k] EXCEPT !.pc = pc])
KAt(k, pc) == ker[k].pc = pc

(* The halves of hs are destroyed.                                         *)
Drop(hs) == /\ list' = list \ hs
            /\ dropped' = dropped \cup {<<h, dead[h]>> : h \in hs}

(* The context shuts down; NotifyTerminate tells the kernel.               *)
Terminate(k) ==
  /\ ~terminated[k]
  /\ terminated' = [terminated EXCEPT ![k] = TRUE]
  /\ UNCHANGED <<ker, closed, backlog, pvars, ft, sock, dead, hvars>>

NotifyTerminate(k) ==
  /\ terminated[k] /\ ~ker[k].told
  /\ KSet(k, [ker[k] EXCEPT !.told = TRUE, !.wake = TRUE])
  /\ UNCHANGED <<terminated, closed, backlog, pvars, ft, sock, dead, hvars>>

(* The loop of EntryPoint: Cleanup of the holder, then Poll.               *)
Loop(k) ==
  /\ KAt(k, "loop")
  /\ IF ker[k].told THEN KGo(k, "close") /\ UNCHANGED <<list, dropped>>
     ELSE KGo(k, "poll") /\ Drop(OfKernel(k, list))
  /\ UNCHANGED <<terminated, closed, backlog, pvars, ft, sock, dead, map>>

(* Poll returns for a wakeup or a connection, which it accepts.            *)
Poll(k) ==
  /\ KAt(k, "poll") /\ (ker[k].wake \/ backlog[k] # <<>>)
  /\ IF backlog[k] = <<>>
     THEN KSet(k, [ker[k] EXCEPT !.wake = FALSE, !.pc = "loop"]) /\ UNCHANGED backlog
     ELSE /\ KSet(k, [ker[k] EXCEPT !.wake = FALSE, !.pc = "accept",
                                   !.cur = Head(backlog[k])])
          /\ backlog' = [backlog EXCEPT ![k] = Tail(@)]
  /\ UNCHANGED <<terminated, closed, pvars, ft, sock, dead, hvars>>

(* Mutant of Accepted: a connection nobody waits for is dropped.           *)
AcceptedLate(k) ==
  LET q == ker[k].cur
  IN  /\ KAt(k, "accept") /\ conn[q] = "named"
      /\ IF Waiting(q) THEN PSet(q, [pend[q] EXCEPT !.done = TRUE, !.fd = TRUE])
         ELSE UNCHANGED pend
      /\ KSet(k, [ker[k] EXCEPT !.pc = "loop", !.cur = None])
      /\ UNCHANGED <<terminated, closed, backlog, conn, ft, sock, dead, hvars>>

(* Poll has read the ID packet: the future for the reader gets the         *)
(* descriptor; a new one is made when none waits.                          *)
Accepted(k) ==
  LET q == ker[k].cur
      p == IF Waiting(q) THEN pend[q] ELSE [NoPending EXCEPT !.there = TRUE]
  IN  /\ KAt(k, "accept") /\ conn[q] = "named"
      /\ PSet(q, [p EXCEPT !.done = TRUE, !.fd = TRUE])
      /\ KSet(k, [ker[k] EXCEPT !.pc = "loop", !.cur = None])
      /\ UNCHANGED <<terminated, closed, backlog, conn, ft, sock, dead, hvars>>

(* Mutant of Close: the futures are left as they are.                      *)
CloseOnly(k) ==
  /\ KAt(k, "close")
  /\ closed' = [closed EXCEPT ![k] = TRUE]
  /\ conn' = [q \in Queue |-> IF \E i \in DOMAIN backlog[k] : backlog[k][i] = q
                              THEN "reset" ELSE conn[q]]
  /\ backlog' = [backlog EXCEPT ![k] = <<>>]
  /\ KGo(k, "shutdown")
  /\ UNCHANGED <<terminated, pend, ft, sock, dead, hvars>>

(* Close of the server: the socket, and with it the connections nobody has *)
(* accepted; every future is canceled.                                     *)
Close(k) ==
  /\ KAt(k, "close")
  /\ closed' = [closed EXCEPT ![k] = TRUE]
  /\ pend' = [q \in Queue |-> IF Side[q]["read"] = k /\ pend[q].there
                              THEN [pend[q] EXCEPT !.canceled = TRUE] ELSE pend[q]]
  /\ conn' = [q \in Queue |-> IF \E i \in DOMAIN backlog[k] : backlog[k][i] = q
                              THEN "reset" ELSE conn[q]]
  /\ backlog' = [backlog EXCEPT ![k] = <<>>]
  /\ KGo(k, "shutdown")
  /\ UNCHANGED <<terminated, ft, sock, dead, hvars>>

(* Shutdown of the holder: every queue it has is dead, and woken.          *)
HolderShutdown(k) ==
  /\ KAt(k, "shutdown") /\ KGo(k, "drain")
  /\ dead' = [h \in Half |-> dead[h] \/ h \in OfKernel(k, map)]
  /\ UNCHANGED <<terminated, closed, backlog, pvars, ft, sock, hvars>>

(* Mutant of Drain: the holder does not wait.                              *)
DrainAtOnce(k) ==
  /\ KAt(k, "drain") /\ KGo(k, "done")
  /\ Drop(OfKernel(k, list))
  /\ UNCHANGED <<terminated, closed, backlog, pvars, ft, sock, dead, map>>

(* It waits until all of them have ended.                                  *)
Drain(k) ==
  /\ KAt(k, "drain") /\ OfKernel(k, map) = {}
  /\ KGo(k, "done") /\ Drop(OfKernel(k, list))
  /\ UNCHANGED <<terminated, closed, backlog, pvars, ft, sock, dead, map>>

-----------------------------------------------------------------------------
Init ==
  /\ terminated = [k \in Kernel |-> FALSE]
  /\ ker = [k \in Kernel |-> [pc |-> "loop", told |-> FALSE, wake |-> FALSE, cur |-> None]]
  /\ closed = [k \in Kernel |-> FALSE] /\ backlog = [k \in Kernel |-> <<>>]
  /\ conn = [q \in Queue |-> "none"] /\ pend = [q \in Queue |-> NoPending]
  /\ ft = [h \in Half |-> "none"] /\ sock = [h \in Half |-> FALSE]
  /\ dead = [h \in Half |-> FALSE]
  /\ map = {} /\ list = {} /\ dropped = {}

Next ==
  \/ \E h \in Half : Create(h)
  \/ \E h \in Half : Top(h)
  \/ \E h \in Half : Ask(h)
  \/ \E h \in Half : Look(h)
  \/ \E h \in Half : Dial(h)
  \/ \E h \in Half : Name(h)
  \/ \E h \in Half : Register(h)
  \/ \E h \in Half : Get(h)
  \/ \E h \in Half : Forget(h)
  \/ \E h \in Half : Finish(h)
  \/ \E h \in Half : Run(h)
  \/ \E h \in Half : Exit(h)
  \/ \E k \in Kernel : Terminate(k)
  \/ \E k \in Kernel : NotifyTerminate(k)
  \/ \E k \in Kernel : Loop(k)
  \/ \E k \in Kernel : Poll(k)
  \/ \E k \in Kernel : Accepted(k)
  \/ \E k \in Kernel : Close(k)
  \/ \E k \in Kernel : HolderShutdown(k)
  \/ \E k \in Kernel : Drain(k)

Spec == Init /\ [][Next]_vars

FileThread(h) == \/ Top(h) \/ Ask(h) \/ Look(h) \/ Dial(h) \/ Name(h) \/ Register(h)
                 \/ Get(h) \/ Forget(h) \/ Run(h) \/ Exit(h)
KernelThread(k) == \/ Loop(k) \/ Poll(k) \/ Accepted(k) \/ Close(k)
                   \/ HolderShutdown(k) \/ Drain(k)

(* The threads run; a context that terminates ends them all.               *)
FairSpec ==
  /\ Spec
  /\ \A h \in Half : WF_vars(FileThread(h))
  /\ \A k \in Kernel : /\ WF_vars(KernelThread(k)) /\ WF_vars(NotifyTerminate(k))
                       /\ WF_vars((\E j \in Kernel : terminated[j]) /\ Terminate(k))

-----------------------------------------------------------------------------
(* The sets the variables take their values from.                          *)
KernelState ==
  [pc : {"loop", "poll", "accept", "close", "shutdown", "drain", "done"},
   told : BOOLEAN, wake : BOOLEAN, cur : Queue \cup {None}]
Pending ==
  [there : BOOLEAN, done : BOOLEAN, canceled : BOOLEAN, fd : BOOLEAN, late : BOOLEAN]
Pc == {"none", "top", "ask", "look", "dial", "name", "register", "get", "forget", "run",
       "exit", "gone"}
TypeOK ==
  /\ terminated \in [Kernel -> BOOLEAN] /\ closed \in [Kernel -> BOOLEAN]
  /\ ker \in [Kernel -> KernelState] /\ backlog \in [Kernel -> Seq(Queue)]
  /\ conn \in [Queue -> {"none", "made", "named", "reset"}]
  /\ pend \in [Queue -> Pending] /\ ft \in [Half -> Pc]
  /\ sock \in [Half -> BOOLEAN] /\ dead \in [Half -> BOOLEAN]
  /\ map \subseteq Half /\ list \subseteq Half /\ dropped \subseteq Half \X BOOLEAN

(* A reader's half was handed the connection of its own writer, and there  *)
(* is one owner of each descriptor: the kernel thread that accepts it, the *)
(* future, or the half.                                                    *)
OneOwner ==
  \A q \in Queue :
    /\ sock[<<q, "read">>] => conn[q] = "named" /\ ~pend[q].fd
    /\ pend[q].fd => ker[Side[q]["read"]].cur # q

(* No thread of a queue is left when the kernel is done with the holder;   *)
(* and the destructor's ASSERT_ABORT(dead) holds for every reader, and for *)
(* every writer whose look-up the context has not thrown out.              *)
NoneLeft ==
  \A k \in Kernel : KAt(k, "done") => \A h \in OfKernel(k, Half) : ft[h] \in {"none", "gone"}
DeadWhenDropped ==
  \A h \in Half : <<h, FALSE>> \in dropped => h[2] = "write" /\ terminated[KernelOf(h)]
                                              /\ conn[h[1]] = "none"
CleanEnd == NoneLeft /\ DeadWhenDropped

(* Two halves that have been made get connected, whichever is first.       *)
Connected ==
  \A q \in Queue :
    (ft[<<q, "read">>] # "none" /\ ft[<<q, "write">>] # "none") ~>
      (\A d \in {"read", "write"} : sock[<<q, d>>]) \/ \E k \in Kernel : terminated[k]

(* A kernel that is told to terminate gets rid of its queues, unless a     *)
(* reader made its future after Close, which nothing then ends.            *)
KernelEnds ==
  \A k \in Kernel : terminated[k] ~> KAt(k, "done") \/ \E q \in Queue : pend[q].late
====
