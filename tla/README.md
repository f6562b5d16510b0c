# A verification of the Computational Process Networks library

`cpn` runs a process network: nodes (threads) that read and write bounded
queues, possibly spread over several kernels (processes). Its one promise is
Kahn's: whatever the scheduling, every queue delivers exactly what was written,
in order, and a network that could go on with more memory goes on. The second
half needs help: bounded queues deadlock where unbounded ones would not, so the
library detects cycles of blocked nodes at run time (D4R) and enlarges the
smallest full queue of the cycle.

This directory holds TLA+ modules for that core, for the life cycle of a kernel and
its nodes around it, and for what connects kernels in different processes: the remote
queue, the connection server and the remote context. TLC runs check them on small
networks; TLAPS proofs hold for every network. Paths below are relative to
`src/libraries/`.

## 1. Inventory

| Component | State | Operations | Talks to | Hard part | Correct when |
|---|---|---|---|---|---|
| `D4R/` Node, QueueBase, Tag | public and private tag per node; `readtagchanged`, `writetagchanged`, `incomm` per queue | `Block`, `Transmit`, `SignalTagChanged`, `ReadBlock`, `WriteBlock` | peers' tags, the queue's lock and condition variable | tags of many nodes travel while nodes block and unblock; four separate locks | a cycle is found, by one node, at the smallest full queue; no node dies for nothing |
| `CPN/QueueBase`, `CPN/ThresholdQueue` | buffer, `oldqueue`, `enqueueUseOld`/`dequeueUseOld`, requests, thresholds, shutdown flags | `GetRaw{De,En}queuePtr`, `Enqueue`, `Dequeue`, `Grow`, shutdown, `NotifyTerminate` | node threads, kernel (termination), D4R | the buffer is replaced while a pointer into it is used without the lock; conditional broadcasts on one condition variable | FIFO, no dangling pointer, no lost wakeup, every call returns at the end |
| `ThresholdQueue/ThresholdQueueBase` | array, mirror area, head and tail modulo twice the length | allocate, pointers, enqueue, dequeue, grow | `CPN/ThresholdQueue` | index arithmetic at the edges, copies between queue and mirror, partial enqueue | exact counts, the reader's block is contiguous and right |
| `MirrorBufferSet` | page mappings | map, unmap | ThresholdQueueBase | operating system | the two mappings alias |
| `CPN/NodeBase`, `PseudoNode` | reader and writer maps, thread | create and release endpoints, wait for an endpoint, run, shut down | kernel, queues, context | endpoint created while a node waits for it; termination | a node's end shuts both kinds of endpoint |
| `CPN/Kernel` | status, `nodemap`, `garbagenodes`, `nodecond_signal` | create node and queue, node end, terminate, garbage | context, nodes, ConnectionServer | threads ending during shutdown, notification of nodes from a copy of the map | after `Terminate` the kernel reaches DONE and no node is leaked |
| `CPN/LocalContext` | kernels, nodes, ports by name and key, `numlivenodes` | setup, start and end signals, blocking lookups | kernels | waits racing signals and termination | every waiter is released |
| `CPN/RemoteContext*` | the same directory in a server; waiters by message id in a client | request/reply and broadcasts as JSON messages | sockets | replies to dead waiters, no reply at all, termination | every call gets an answer or an exception |
| `CPN/RemoteQueue` | `bytecount`, Lamport clocks, pending flags, reader/writer lengths, a mock D4R node | packets for data, dequeue, block, grow, tag and end; two threads per half | the other half over a socket, the holder, the server | everything in flight while both halves decide; crossing grows and ends | the two halves together are one queue with D4R |
| `CPN/ConnectionServer`, `RemoteQueueHolder` | pending connections, queues not yet finished | connect, accept, cancel, clean up | RemoteQueue, kernel | rendezvous in either order, close | both halves meet, or both learn that they will not |
| Packet header, encoder, decoder | buffer of the decoder | encode, dispatch | RemoteQueue | wire format | packets arrive whole and in order |
| `Synchronize`, `PthreadLib` | locks, conditions, status, futures, pools | primitives | all | | |
| Loaders, Logger, Variant, JSON, XML, Base64, FileHandle, CircularQueue, LogicalClock, beamformers, node libraries, applications | | sequential code and I/O | | | |

`PROJECT.json` lists the same components with what is modelled of each, and the
hazards at their lines.

## 2. Modules

| Module | Models | Extends or uses |
|---|---|---|
| `D4R` | nodes and their queues, blocking with D4R | |
| `MCD4R` | the networks of the runs: request/reply loop, triangle | `D4R` |
| `D4R_proofs` | theorems about `D4R` | `D4R` |
| `ThresholdQueue` | one local queue, its two threads, outside growth, termination; blocking without D4R | `BoundedFifo` |
| `MCThresholdQueue` | arguments of Grow | `ThresholdQueue` |
| `ThresholdQueue_proofs` | theorems about `ThresholdQueue` | `ThresholdQueue` |
| `ThresholdQueueBase` | the circular buffer with its mirror area | `BoundedFifo` |
| `MCThresholdQueueBase` | arguments of Grow | `ThresholdQueueBase` |
| `ThresholdQueueBase_proofs` | theorems about `ThresholdQueueBase` | `ThresholdQueueBase` |
| `BoundedFifo` | what a queue promises, whatever its storage | |
| `Kernel` | a kernel without remote operation, its context, the threads of its nodes and of the program | |
| `MCKernel` | the networks of the runs | `Kernel` |
| `Kernel_proofs` | theorems about `Kernel`: types, sleeping and waking, the lives of nodes | `Kernel` |
| `RemoteQueue` | the two halves of a queue across a socket, all their threads, the packets | |
| `MCRemoteQueue` | share of the halves, arguments of Grow, a bound | `RemoteQueue` |
| `RemoteQueue_proofs` | theorems about `RemoteQueue`: the data and the ends | `RemoteQueue` |
| `RemoteQueue_peer_proofs` | theorems about `RemoteQueue`: what the halves know of each other | `RemoteQueue_proofs` |
| `RemoteContext` | the context's clients, one per process, and its server | |
| `MCRemoteContext` | the programs of two processes | `RemoteContext` |
| `RemoteContext_proofs` | theorems about `RemoteContext` | `RemoteContext` |
| `ConnectionServer` | how the halves of remote queues meet, and how a kernel gets rid of them | |
| `MCConnectionServer` | two kernels and a queue | `ConnectionServer` |
| `ConnectionServer_proofs` | theorems about `ConnectionServer` | `ConnectionServer` |

`ThresholdQueueBase` and `ThresholdQueue` both implement `BoundedFifo`: the first
shows that the array, its mirror and the copying `Grow` behave as the sequence
`data` that the second one takes a buffer to be, and `RemoteQueue` takes the buffer of each half
to be. The remote modules meet at their edges: `ConnectionServer` ends where a queue
is connected and takes it up again where it is dead, `RemoteQueue` is what happens
in between; that the context terminates everywhere is `NetworkEnds` of `RemoteContext`, and
what a kernel and a queue do when it does is in the other two (`Terminate`).

### D4R

An action is what the code does between two points where a thread gives up its
queue's lock. A node's `pc` says where it is:

- `run` its own program; `Begin` picks a read or a write of one of its queues;
- `get` one iteration of the loop of `GetRawDequeuePtr`/`GetRawEnqueuePtr` with the
  queue locked: `GetReady`, `GetBroken`, `GetGrow` (the other end is blocked too)
  or `GetBlock` (enter `WaitForData`/`WaitForFreespace`);
- `blockwait`/`transwait` asleep or woken in `while (incomm) Wait()`;
- `blocktag`/`transtag` about to read the peer's public tag, `block`/`transmit` about
  to use it: the queue is not locked, `incomm` is held;
- `signal` inside `SignalTagChanged`, with the queues still to tell in `pendR`, `pendW`;
- `loop` the head of `while (ReadBlocked())`; `have` between the pointer and
  `Dequeue`/`Enqueue`; `exit`, `shutdown`, `done` the end of the node.

`lock[q]` is only non-free between two actions where the code goes on with the lock
held. `request`, `changed` are the reader's and the writer's variables of the source as
functions of the end (`changed[q]["read"]` is `writetagchanged`). A tag keeps the
source's four fields and its order: label ascending, ties by descending priority.

Abstracted: data is a number of elements; the largest threshold, the channels and
the pointer bookkeeping are in `ThresholdQueue`; so is termination. The writer's
local flag `grown` is left out because after `GetGrow` the next iteration always
finds the space.

### ThresholdQueue

The two ends run symmetric code, so every pair `readX`/`writeX`,
`enqueueX`/`dequeueX` is one function of the end. A buffer is `[gen, len, max, data]`;
`ptr[d]` is the `gen` of the buffer that the pointer of end `d` goes into, so a
pointer into freed memory is a number no live buffer has. `failed` records that an
ASSERT failed. `Call` and `Enter` are separate because `CheckTerminated` runs before
the lock is taken. The callers' side of the contract is in the guards: with a pointer
out no larger threshold is asked for, `Enqueue`/`Dequeue` give back no more than the
threshold, and a third party calls `Grow` only while not both pointers are out.
`Grow` from outside and a `Grow` in the loop go through the same `UnlockedGrow`.

### ThresholdQueueBase

One channel of the array on a platform without the mirror buffer set: a queue area and
`maxThreshold - 1` mirror cells. `Filled` is the caller writing through the pointer,
`EnqueueIn` the copies up and down and the step of `tail`; `Grow` and `GrowCopy` are
the new allocation and the loop that moves the elements with the ordinary operations.
One channel is enough: channels differ in the base address only.

### Kernel

`Kernel::EntryPoint` is one process (`kpc`), every node a process that `InternalCreateNode`
starts, every client a thread of the program that calls the API; a node may call it too
(`Creators`). `pc[t]` says where a thread is and what its call is about: `create`, `begin`
(before `SignalNodeStart`), `ending`, `erase`, `bury` (the three parts of `NodeTerminated`),
`readerStart` to `release` (the parts of `CreateQueue` and `CreateLocalQueue`), `get` (in
`GetReader`/`GetWriter`), `blocked` (in a queue), `waitStart`, `waitEnd`, `waitAll`, `notify`
and `wakeup` (the parts of `Terminate` after the context's lock). An external endpoint
is a node without a thread: clients take its steps.

A step is what runs under one lock. `bury` is the one place where `nodelock` is held
between steps, because `NodeTerminated` waits for `garbagelock` there, which `ClearGarbage`
holds while it joins threads; `NodeLockFree` and `GarbageLockFree` are these two locks. A waiting
thread is in `asleep` (or `kasleep`) until a signal takes it out; `shutdown`, `status`
and `nodecond_signal` are read again after it, as in the code. There are no spurious
wakeups: every wait is in a loop that a spurious wakeup would only repeat, except that
the kernel thread would collect garbage once more.

The context's `nodemap` is `info`. A queue has only what matters for the life
cycle: two ends, `none`, `open` or `shut`, and the threads blocked at it; `Block` and `Transfer`
stand for any use of it, as modules `ThresholdQueue` and `D4R` have it in detail. `CreateQueue` is
between two nodes given by name; every queue is created once, as a second one at
the same port fails the ASSERT of `CreateReader`. An exception that leaves the entry point of a node
ends the process; the model lets the other threads go on (`aborted`), so it
has more behaviours than the code and its invariants are the stronger for it.

### RemoteQueue

`q[h]` is the state of the half `h` ("read" or "write"), `chan[h]` the packets it has sent and
the other has not read. A half has a node thread (`pc`), an action thread (`apc`) and a file
thread (`fpc`). The functions that run under the half's lock are operators on the record:
`Resize` (the common part of `UnlockedGrow` and `GrowPacket`), one operator for each packet handler
(`EnqueuePacket`, `DequeuePacket`, `ReadBlockPacket`, `WriteBlockPacket`, `D4RTagPacket`; the others in `Receive`),
one for each `Send...Packet` (`SendGrow` to `SendEnqueue`), and `EndOut`, `EndBack`, `Status`
for the rest of `InternalCheckStatus`. A stretch between two waits is then one composition of them, in the
order of the source (`Act`, `Flush`, `Answer`).

- node thread: `Call`, `Loop` (one iteration of `GetRaw{De,En}queuePtr`), `GrowWaited`, `Wakeup` (from the wait
  for an answer or from D4R), `GiveBack`, `Grow`, `Shutdown`; `TagChange` and `SignalTagChanged` stand for the D4R
  node, `Detect` for a detection at a writer in D4R, which is not asked again whether it is blocked;
- action thread: `ActionWake`, `Read`, `ReadData` (the socket is read without the lock), `SentData`
  (and written), `SocketError`, its end;
- file thread: `FilePoll`, `FileEnd`; kernel: `Terminate`, `ForcedShutdown` (`RemoteQueueHolder::Shutdown`), `Destroy`.

The Lamport clocks of the source are compared only with the clock at which the present
wait began, so a clock is the number of waits begun (`waits`, `known`, `seen`). A tag is a version
number: `mock` is what the half has been told of the tag `tag` of the node at the other end. A node signals its first tag when it is
given its end (`CPN/PseudoNode.cc:58`, `:71`), after the half's threads have been started: the halves in `FirstTag` have that still to do.
Bytes are numbered 1, 2, ... in the order they are written. The sockets take any number of packets, and a packet
arrives at once: one that is late is one whose receiver is slow to read it.

### RemoteContext

Threads run `Program[t]`, a sequence of calls of the context's API; a call that asks the server (`CallOps`) is
`BeginCall` and `WakeCall`; one that waits for a state (`WaitOps`) goes on with `Scan` of the broadcasts that came
since; `SendOps` and `LastOps` only send. `up[c]` and `down[c]` are the two directions of a
client's socket. A waiter (`WaiterInfo`) is the `box` of its thread with its message id; the client's lists of waiters are `calls` and the
threads that wait. `Dispatch...` of a client is `DispatchMessage` in the reader thread, the
`c`-actions after it are the server's `DispatchMessage`, with its effect on the directory `srv` and all the
replies and broadcasts it sends. A crash closes the connection; the server
(`Disconnect`, `Sweep`, as in `RemoteContextDaemon::Run`) then terminates everybody. A program names each kernel
and node once (`Name` has the names of kernels, nodes and ports). A process ends its side of the connection (`EndWrite`) only when it has no
kernel left in the map: a kernel holds its context by a shared pointer, and `SignalKernelEnd` takes it out of the
map (`CPN/RemoteContextClient.cc:134`).

### ConnectionServer

`ft[h]` is the file thread of a half from `FileThreadEntryPoint` down into `ConnectWriter` or `ConnectReader` (`ask`,
`look`, `dial`, `name`; `register`, `get`, `forget`), `run` while it is connected, `exit`, `gone`. `ker[k]` is the kernel
thread: `loop`, `poll`, `accept` (it has accepted a connection and waits for the ID packet), then `close`, `shutdown` and
`drain` after it has been told to terminate, and `done`. `pend[q]` is the PendingConnection of a
reader with its future, `backlog[k]` the connections the kernel thread has not accepted yet.
`map`, `list` are the holder's, `dropped` is history: what the destructor of a RemoteQueue found `dead` to be.

## 3. Runs

| Run | Question |
|---|---|
| `d4r_loop` | Loop of two nodes, shutdowns at any time: `NoLostWakeup`; of two nodes that wait for each other not both detect (`OneOfTwo`); a node's tag only grows (`TagsGrow`); every cycle of blocked nodes ends (`DeadlockResolved`) |
| `d4r_triangle` | Three nodes, growth on contact off: at most one node of a cycle acts on a detection (`OneDetector`), and an artificial deadlock is resolved at the writer of a smallest full queue (`SmallestQueueGrows`) |
| `d4r_phantom` | Expected violation: a node that reports a deadlock is on a cycle of blocked nodes (`TrueDeadlock`); the loop has a run in which it is not (observation 1) |
| `queue_growth` | Growth under pointers: `PointersLive`, `AssertsHold`, refinement of `BoundedFifo` |
| `queue_blocking` | Blocking, shutdown and termination: `NoLostWakeup`, `NoMutualBlock`, `CallsReturn`, `LockReleased` |
| `buffer` | Counts and the reader's view (`ReaderSees`), and refinement of `BoundedFifo`, through wraps and growth |
| `kernel_cycle` | Two nodes, an external endpoint, a queue, all waits, `Terminate` at any time: `NodeAssertsHold`, `LiveCountExact`, `NodesEndFirst`, `EndsShut`, `KernelWakes`, `ThreadsWake` |
| `kernel_two` | `Terminate` by a second thread, even during construction: `TerminateCompletes`, `WaitReturns` |
| `remote_queue` | Flow control, growth, tags and ends of a remote queue: nothing is lost or reordered (`FIFO`); the writer's count agrees with where the bytes are, and what it sends fits (`ByteCount`); the end of writing comes after all data, and before the end of the socket (`EndAfterData`); a node waits in D4R only when its peer knows, and has its tag (`TagCurrent`); at rest nobody waits for what has arrived (`NoLostWakeup`), and there is one largest threshold (`SameThreshold`) |
| `remote_ends` | Shutdown of either end and termination at any moment: no packet after an end and no growth under two pointers but by a node that calls for it (`PacketsInOrder`), a waiting node is let go (`Released`), both halves come to their end (`BothEnd`) |
| `remote_context` | Two processes, either may crash: replies, broadcasts and kernel messages find whom they are for (`AssertsHold`), no notice slips between the question and the wait (`NoticeOnItsWay`), a wait returns only on the truth (`WaitTruth`), the end of one process is the end of all (`NetworkEnds`) |
| `connection` | A queue between two kernels, either half first, termination at any moment: `OneOwner` of a descriptor, no thread left and no queue destroyed alive (`CleanEnd`), the halves meet (`Connected`), the kernels end (`KernelEnds`) |

All but the one marked hold. Every property of the others has a mutant in the modules (`Mutant of ...`): the same
definition with a plausible mistake, under which the run finds the property violated.

Bounds. `MaxOps` bounds the reads and writes of a node. Two nodes and three operations
each let a node block, be unblocked, block again with a newer tag and meet an older
one of itself, which is what stale tags need; the triangle is the smallest
network where a tag passes through a node that did not start it, and where a cycle can
have two nodes blocked on full queues of different lengths (2 and 3, written two at a time, so
that a queue is empty, partly filled or full). Requests above a queue's length are in
`ThresholdQueue`. There, thresholds 1 to 3 against a largest threshold of 1 force growth for a
threshold, for a blocked peer and from outside, twice in a row and with a pointer out.
The buffer of length 3 with threshold 2 grows to 4 and 5 and runs up to nine elements,
so head and tail pass every offset of twice the first length. `NoSize` stands for the
largest unsigned number; it only has to exceed every length. The kernel runs have one or two
nodes and one queue: what they ask is between one node, its partner, the kernel thread and a
client, and every name is used once, as in the code, so the runs need no other bound. They
switch deadlock checking off because a program may wait for a node that nobody
creates, and without D4R two nodes may wait for each other.

The remote queue of length 2 has one element at each side, so with two bytes written both halves are full, and the
writer's third call is blocked with data on its way; each node has its first tag still to
signal (`FirstTag`), and `MaxTags` of 1 lets a tag change once more while block packets and their answers cross.
A threshold of 2 against a largest one of 1 and a call of `Grow` at either side make
grow packets cross with data, with each other and with a writer blocked at two full halves. `Followed` keeps the product of all of them
within reach: the nodes make their first calls when both first tags have arrived, a queue that has grown is
followed without a further change of a tag, and one with either is followed, once two bytes are written, until an end shuts.
`remote_ends` has one byte, no call of `Grow`, the first tags known (`FirstTag = {}`) and D4R off,
because what is asked is which of shutdown, end packet, end of file, termination and the threads' ends comes first. The programs of
`remote_context` use every kind of message once; one of them creates a node in the other's kernel, so that a
kernel message, a reply and a broadcast about the same node are on their way together. `connection` has one queue because queues
share nothing but the kernel thread and its backlog, which does not tell them apart; the proofs have no such bound. These two
switch deadlock checking off because a network that has ended stops.

Fairness. `D4R!FairSpec` has weak fairness of each thread's own steps: the operating
system schedules threads fairly, and mutexes are held for finitely many
steps. Nothing forces a node's program to begin an operation or to end.
`ThresholdQueue!FairSpec` has strong fairness of each thread's steps and of
`NotifyTerminate`: they compete for one mutex, which is not held all the time,
and the kernel's thread calls `NotifyTerminate` on every node once it has seen the
termination (`CPN/Kernel.cc`, `EntryPoint`). The node programs are again free to do nothing.
`Kernel!Spec` has weak fairness of the kernel thread and of each thread inside a call, and of
a node's `Process` as a whole: it uses a queue or returns sometime. Without the
last, a node that computes for ever keeps the kernel from ending, as it does in the code.
Clients need not call anything.
`RemoteQueue!FairSpec` has weak fairness of a half's node thread inside a call, of its queue's threads and of its kernel's thread; a node
need not use the queue, but one that has seen it shut lets go of it, and once one kernel terminates the other is told, as
`NetworkEnds` shows. `RemoteContext!FairSpec` asks only that the system does not stop while anything but a crash is possible.
`ConnectionServer!FairSpec` has weak fairness of each file thread, of each kernel thread and of the notification of a
kernel, and of termination of the other contexts once one has terminated; a queue need not finish its work.

## 4. Proofs

`D4R_proofs`, from `TopologyAssumption` and `ParameterAssumption` alone: any finite set of nodes, any
queues between them, any lengths and requests.

- `Invariance`: `IInv == TypeOK /\ OwnsEnd /\ StillThere /\ CommExclusive /\ NoLostWakeup`
  is inductive. `TypeOK` says that a queue is never fuller than its length, and that is not
  inductive: the lock is released between the check for space and the enqueue.
  `StillThere` closes the gap (only the node at the same end can take away what
  it has found), and needs `OwnsEnd` (there is one node at each end).
- `TypeCorrect`, `CommIsExclusive`, `NoWakeupIsLost` follow. For `NoLostWakeup` the lemma
  `SleepersKept` shows action by action that a thread that stays asleep keeps its reason,
  `FallAsleep` that a thread that goes to sleep has one.
- `TagInvariance`: `TagInv` says that a node's private tag carries the node's key (`OwnTag`), that a tag read from the peer and not yet transmitted is no newer
  than the peer's (`TagRead`), and that a node that has detected has a tag with its own priority and its peer has at least that tag (`Detected`). The order of tags
  is total (`TagOrder`), so of `TagInv` follow `TagsOnlyGrow` (`TagsGrow`, an action property: no step takes a public tag back) and `OneOfTwoDetects` (`OneOfTwo`: two nodes
  that wait for each other and both have detected would have the same tag, with the priority of each).
  For cycles of three and more this is false (observation 1).

`ThresholdQueue_proofs`, from the assumptions on lengths, thresholds and Grow's arguments:

- `Invariance`: `IInv` has the types and `AssertsHold` and adds `OldInUse` (oldqueue
  exists exactly while one pointer goes into it), `PointerBacked` (what was given out
  stays available in the pointer's buffer and in the current one), `OldDataKept` (the
  reader's old and new buffers agree on what it was given), `ArgumentKept` and `InOrder`.
  The ASSERTs hold only because of the first three, which is why none of the
  properties is inductive by itself.
- `PointersStayLive`, `NoAssertFails`, `InAndOut` (FIFO), `TypeCorrect` follow, and
  `Refinement`: the queue implements `BoundedFifo` by the mapping of its current buffer.
- `WakeInvariance`: `WakeInv == LockInLoop /\ SleepersBlocked /\ (notified => terminated) /\ GrowthServes /\ OneServed`, when
  nobody calls `Grow` from outside (`GrowArgs = {}`; with such calls it is false, observation 2). `NoMutualBlock` speaks of
  threads that sleep; `OneServed` has to count those that have been woken and have not run yet, as they may
  find themselves blocked and sleep again. A writer that has grown the queue for a blocked reader
  does not ask again whether the reader is blocked, and could sleep beside it: `GrowthServes` says that it gets its pointer in the next round.
  `WakeupsArrive` (`NoLostWakeup`) and `NeverBothAsleep` (`NoMutualBlock`) follow.

`ThresholdQueueBase_proofs`, from `ArgumentAssumption`: any length, threshold, sequence of operations and growths.

- `Invariance`: `Holds(b, d, c)` says that `b` holds the `c` elements that follow the `d`-th: tail is `c` behind head modulo twice the
  length, and each element is at its place in the queue area and, if that has a mirror, in the mirror too. `ReaderSees` alone is not inductive, because a block
  that the reader sees contiguously now may come to lie across the edge after the next dequeue. `Written` says that what the writer has filled in
  lies behind the tail, where `Enqueue` will take it from (`Steady`); inside `Grow` the elements are in the
  new buffer up to a point and in the old one after it (`Copying`).
- The lemmas `CountIs`, `AllocateHolds`, `BlockAtHead`, `FilledHolds`, `EnqueueHolds` and `DequeueHolds` are what each function of the
  source does to a buffer. Indices are reduced by `%`; `ModIsWrap` turns that into subtraction, as every index is less than four
  times the length.
- `ReaderSeesInOrder` follows, and `Refinement`: the buffer implements `BoundedFifo`.

`Kernel_proofs`, from `ThreadAssumption` and `CountAssumption`: any clients, nodes, endpoints and queues.

- `Invariance`: `IInv == TypeOK /\ CallsKnow /\ SignalKept /\ KernelWakes`. `TypeOK` needs
  `CallsKnow`: a thread inside a call has the node or the queue that the call is about, without
  which the later parts of a call would go astray. `KernelWakes` (what the kernel thread waits for has not happened
  while it sleeps, or somebody is about to signal it) needs `SignalKept`: a signal that finds the thread busy stays in
  `nodecond_signal`, which nobody resets before the garbage is looked at.
- `TypeCorrect`, `KernelThreadIsWoken` follow.
- `SleepInvariance`: `WInv == IInv /\ SleepersWait /\ Newborn /\ ThreadsWake`. `ThreadsWake` says nothing of a
  sleeper outside a wait, so a step could move one into a wait that is already over; `SleepersWait` (threads sleep
  only inside a wait) excludes it. `CreateNode` is the one step in which a thread moves another, the new node's:
  `Newborn` says that this one has not run yet and that no other call creates it. `NobodySleepsThrough` follows.

- `LifeInvariance`, with `NoneAssumption`: `LInv == WInv /\ Lives /\ PastLoop /\ NodeAssertsHold /\ LiveCountExact`. `Lives` ties what the context and `nodemap` say of a node to where its
  thread is, and of an external endpoint to the one client that is creating or destroying it; only so does `NodeTerminated` find its node, and find it once, and only so
  is every start and end counted once. `PastLoop` says that the kernel thread is past its loop only after a `Terminate`, from when the
  live count is no longer kept. `NodeAsserts` and `LiveNodesCounted` follow.
- `NodesEndBeforeKernel`, with one client (`Clients = {Main}`; with two it is false, observation 4): `DInv == LInv /\ Drains`. `Drains` says
  that nobody is about to add a node once the kernel thread has found `nodemap` empty, which holds because the only client
  is not inside `CreateNode` when it calls `Terminate`.
- `NoEndStaysOpen` (`EndsShut`) is inductive together with `WInv`.

`ConnectionServer_proofs`, from `SideAssumption`: any kernels, any queues between them, both ends in one kernel included.

- `Invariance`: `IInv == TypeOK /\ AtHand /\ ToldFirst /\ Held /\ NoneLeft /\ Lives /\ OnePlace`. `OneOwner` is not inductive: that a
  descriptor has one owner rests on the connection having been in one place all the way, in the backlog (once: `NoDuplicates`),
  with the kernel thread, in the future or with the reader (`OnePlace`), and it enters the backlog once because
  a writer dials once (`DialsOnce` in `Lives`). `NoneLeft` rests on `Held` (the holder's map has exactly the queues whose thread
  runs) and on `ToldFirst`: the holder drains only after the context has terminated, from when no queue is made. `Lives`
  has for each half that a thread that has left its loop leaves a dead queue (`EndedDead`); its one exception, a writer that the context threw out of its look-up,
  is stable only because such a writer has not connected, for which Close must not touch a
  connection that was never made (`InBacklog`).
- `TypeCorrect`, `DescriptorHasOneOwner`, `EndsClean` follow.

`RemoteContext_proofs`, from `ProgramAssumption`: any processes, threads, programs and crashes.

- `Invariance`: `IInv` has the types, what the server knows of its connections (`Connections`), and `NoStrayReply`: a reply finds its call in
  the client's map. That rests on `Numbered`: a number is in one request, then in one reply, never in two messages, and all the
  while in the map of calls. It has for every thread `InOperation` (where it is and which call it waits in), `Noticed` (where the notice of
  what it waits for is: in the request not yet answered, in the reply, in the box or in a broadcast), `Unread` (a process the server has not accepted
  has its question still before it) and `Truthful`; for every process `Finished`, `Silent`, `NotHeard` (what is in the socket of one that has ended, crashed or not
  been accepted), `EndTold` (once the server has terminated, everybody has been told or will be) and `Sincere` (a message on its way
  that says a node has started or ended says the truth). `NoticeOnItsWay` is `Noticed` for threads that wait and is not inductive without
  the places where the notice is before.
- `NoReplyIsStray`, `NoticesArrive` (`NoticeOnItsWay`), `WaitsSayTruth` (`WaitTruth`) follow. Of `AssertsHold` the stray reply is proved; its
  other parts depend on what the programs do (observation 16) and are model-checked for the programs of the run.

`RemoteQueue_proofs`, from `LengthAssumption`, `AlphaAssumption` and `NodeAssumption`: any lengths, share of the halves, packet size,
thresholds, growths, ends and terminations.

- `Invariance`: `IInv == DInv /\ PacketsInOrder /\ Pointers /\ Closing /\ Heard` (the last three for each half). `DInv` says where every byte is. `Order`: what has been read, the reader's data and what the reader is taking from the socket are each a
  run of consecutive bytes (`Run`), and so is the data of every packet on its way, each beginning where the sum of the packets before it
  ends (`Aligned`); the last run ends where the writer's unsent data begins. `Bytes` is the equation of `ByteCount`, and `Good` says for each half what its buffer has
  room for: that the reader's buffer holds its data and the packet it is reading, that a node with a pointer
  still has the data or the space, and that the reader's own count is never below its data. Neither property is inductive without the
  others: a dequeue packet may not take the writer's count below 0, which holds because what is told has been
  counted (`MidTold`), and an enqueue packet must be the next bytes that the reader does not have (`MidOpened`).
- A step of the action thread reads several packets and then sends several. `Mid(h, x, k, s)` is the invariant in the middle of such a step,
  when half `h` is `x`, `k` packets have been read and the packets `s` sent; `MidStart` and `MidEnd` are its two ends,
  and there is one lemma for every handler and every send. The packets of one `Read` are taken by induction over the channel (`Positions`, `ReceivedIs`); sums
  over parts of a channel are `SumConcat`, `SumParts` and `RestTail`.
- `PacketsInOrder` is not inductive. `Pointers` says who holds a pointer into a buffer (the node while it is `held`, also when it waits inside a call of `Grow`
  that it made so (`Holds`), the action thread in the window of
  `SendEnqueuePacket` or `EnqueuePacket`). A growth by the loop of a call, by a packet or by a detection meets one of them at most; a node that
  calls `Grow` with its own may meet the other, and that ASSERT is told apart (`"call"`, observation 11). Further, `Closing` that an end is the last packet of its channel and its sender knows that it has sent it; `Heard` that a
  half that has heard of the other's end has nothing more to read. `Due` is what `Mid` is for the data: these facts in the middle of a step.
- The steps of the nodes, the file threads and the kernel keep the data as it is (`Stays`), except for `GiveBack`, and the ends and
  pointers as right as they were (`Keeps`).
- `BytesCounted` (`ByteCount`), `DataInOrder` (`FIFO`) and `EndsInOrder` (`PacketsInOrder`) follow.
- `EndInvariance`: `IInv /\ EInv`, for `EndsAfterData` (`EndAfterData`). `EInv` says for each half: an end that it has sent is heard or is the last packet on
  its way (`Said`); it has terminated, ended, died or seen the end of its socket only with a reason for it (`Parted`); the window of the data opens only before the
  end of writing is heard (`Clear`); a writer's half has ended with data left only because of the reader or a kernel (`Emptied`); and the socket
  has ended only when the other half is dead (`Socket`). `SoFar`, `Told` and `Way` are to these what `Mid` and `Due` are to the data: what holds in the middle
  of a step of the action thread, how a handler may change it, and that it may. With this the action thread reaches `SocketError` only when a kernel terminates.

`RemoteQueue_peer_proofs`, from the same assumptions:

- `PeerInvariance`: `IInv /\ PInv`. `PInv` is about a half, its peer and the channel between them (`Link`). `Spread`: the peer has the half's largest threshold, or a grow packet on its way has it, or
  it is still to be told (`"grow"` is pending); `Bounded`: no packet tells of more than that, so a handler that grows the peer never takes it past the sender. `Clocks`: the waits that packets tell of never go down along the channel,
  the peer knows of none that has not begun, and a node that is in D4R waits since the peer has heard of its last wait.
  `Current`: the peer has the half's tag and no other tag is on its way, or the last tag packet has it, or it is still to be sent. Only the LAST one
  will do: with an older tag behind it the peer would go back to that. `Prodded` says that a growth that is still to be told
  has its action thread told of it, without which it would be forgotten.
- `Path` and `Walk` are to these what `Mid` and `Due` are to the data. `Level`, `Utters`, `Heeds`, `Ahead` and `Paused` say what a send, a handler or a step of a node may
  change (`LinkSender`, `LinkReceiver`, `LinkSent`, `LinkTaken` are what that does to a link); the steps of the nodes are `Moves`.
- `ThresholdsAgree` (`SameThreshold`) and `TagsCurrent` (`TagCurrent`) follow.

Each component's lemmas have one step per action; the last step of each theorem is propositional temporal logic.

Only model-checked: the liveness properties (`DeadlockResolved`, `CallsReturn`,
`LockReleased`, `TerminateCompletes`, `WaitReturns`, `Released`, `BothEnd`, `NetworkEnds`, `Connected`, `KernelEnds`), which are out of the
prover's reach; `OneDetector` and `SmallestQueueGrows`, which are no theorems: they hold in the triangle, where no tag can be
left over from another cycle, but not in every network (observation 1); `NoLostWakeup` of `RemoteQueue`, which is no theorem either (observation 8); and `AssertsHold` of `RemoteContext` except for the stray reply. Conversely
`TypeCorrect` of `D4R`, `ThresholdQueue`, `Kernel` and `ConnectionServer`, `CommIsExclusive`, `InAndOut` and `NoReplyIsStray` are
proved and in no run.

## 5. Observations

What the code does and the models show, where a reader of the code might expect otherwise. Where a property would be broken
by it, the property says so, the run leaves it out or a run expects the violation, as noted.

Deadlock detection and local queues:

1. **A node may die of a deadlock that does not exist** (`D4R/D4RQueue.cc:93`). `ReadBlock` reads the peer's tag and transmits it after
   the queue has been unlocked and does not ask again whether it is still blocked. The
   peer can deliver the data and block elsewhere in between; the reader passes on
   the new tag although it is no longer waiting, and the tag closes a cycle that is not there. `d4r_phantom` ends in such a state. For the same reason two
   nodes of one cycle may both have detected, one of them on tags from before the cycle, where
   `D4RTag.h` promises "one and only one": with two request and reply pairs, of 1 with 2 and of 2 with 3, and a queue from 1 to 3, TLC finds the cycle 1, 2, 3
   in which 1 and 2 have each met their own tag before 3 began. Among two nodes that wait for each other there is one (`OneOfTwo`), and in the triangle too.
2. **`Grow` does not signal** (`CPN/QueueBase.cc:215`). A writer that
   waits for space stays asleep when a third party makes the space. Without calls of
   `Grow` from outside, `NoLostWakeup` holds (`queue_blocking`).
3. With `GrowQueueMaxThreshold` off, a threshold above the
   maximum makes `GetRaw{De,En}queuePtr` spin with the lock held as soon as the
   count itself would suffice; `queue_blocking` has the attribute on, as kernels have by default.

Kernel:

4. **A node may outlive its kernel** (`CPN/Kernel.cc:389`). A `Terminate` by another
   thread before `SignalKernelStart` makes the kernel thread skip its loop with the status
   still `RUNNING`. A `CreateNode` that got its key earlier adds its node after the
   kernel thread has found `nodemap` empty. With one client, which cannot call
   `Terminate` during its own `CreateNode`, `NodesEndFirst` holds (`kernel_cycle`).
5. **`Terminate` with an external endpoint never completes** (`CPN/Kernel.cc:480`): the
   endpoint stays in `nodemap`, and destroying it is refused from then on. `kernel_two` has no endpoint.
6. `CreateNode` throws the ShutdownException of `Kernel.h:99` from
   `CreateNodeKey` only; if `Terminate` comes between that and `InternalCreateNode`, it is the ASSERT of
   `Kernel.cc:389` that throws, which `NodeBase::EntryPoint` does not catch. `nodecond_signal` is reset only after a wait, so once the flag
   is found set the kernel thread goes round its loop without sleeping. `WaitForAllNodes` counts nodes
   from their start, so it may return while nodes that have been created have not
   started (`Context.h:190` says so). `WaitForNodeEnd` and `WaitForAllNodeEnd` return
   normally at termination where `Context.h:186` and `:191` announce a ShutdownException.

Remote queue:

7. `UnlockedGrow` and `GrowPacket` set `readerlength` and `writerlength` from what was asked, so their sum may shrink, and the halves
   may keep different values when grow packets cross (`CPN/RemoteQueue.cc:144`). The buffers themselves never shrink, and
   what is sent fits (`ByteCount`).
8. **`GrowPacket` does not signal** (`CPN/RemoteQueue.cc:420`), as `Grow` of a local queue does not (observation 2). With `alpha` 1, which leaves the
   reader only its threshold, TLC finds a writer that sleeps beside the room that a `Grow` at the reader's side has made
   (`InitLength` 1, `Grow(4, 1)`); it is woken when the reader next dequeues. With the default, one half, the reader's part
   grows as well, the writer's data goes there, and sending it wakes the writer: `NoLostWakeup` holds (`remote_queue`, where the
   writer asks for a third element with both halves full and either side grows to 4). Under that run's own constraint, `alpha` 1 and `InitLength` 1 break it.
9. The reader's half may spin with its lock held: the loop of `GetRawDequeuePtr` grows the queue when the writer is
   blocked (`CPN/QueueBase.cc:74`) by what the half last knew of `writerequest`, and a request that is no longer true makes
   `UnlockedGrow` return without a change (`CPN/RemoteQueue.cc:143`).
10. The end of file without an end packet, "We /should/ never get here" (`CPN/RemoteQueue.cc:633`), is reached when the peer's
   kernel terminates: `ForcedShutdown` makes the half dead before it has sent its end, and the destructor closes the socket.
   As long as no kernel terminates it is not reached (`EndAfterData`). An EPIPE with neither side
   shut leaves the node waiting until its own kernel terminates.

11. **A node cannot tell whether it may call `Grow` while it holds its pointer.** `QueueBase.h:197` asks the caller to see to it that not both pointers are
    out, and the other pointer of a half is the action thread's, which holds it without the lock while it writes to or
    reads from the socket (`CPN/RemoteQueue.cc:245`, `:305`). With `InitLength` 4 and `Grow(6, 1)` TLC finds the ASSERT of `CPN/ThresholdQueue.cc:175` failing so
    (`failed = {"call"}`: the writer puts an element in, takes a pointer for another, the action thread sends the first, the writer calls `Grow`).
    No other growth meets two pointers: not one inside a call for a pointer, of a packet or of a detection (`EndsInOrder`).

Connections:

12. `ConnectReader` looks at `server.Closed()` before it takes the lock (`CPN/ConnectionServer.cc:141`). A future it makes after `Close` has
    canceled the others is never ended, and the kernel hangs in the holder's `Shutdown`. `KernelEnds` excepts it (`late`).
13. A writer whose look-up of its peer throws a ShutdownException leaves its loop without being `dead`
    (`CPN/RemoteQueue.cc:577`), and the destructor's `ASSERT_ABORT(dead)` (`:91`) fails. `CleanEnd` excepts it.
14. A peer that connects and does not send its ID packet holds up the kernel thread in `Poll` (`CPN/ConnectionServer.cc:53`).

Remote context:

15. `SetupKernel` with a name that is taken returns without the reply (`CPN/RemoteContextServer.cc:130`), and the caller, which is
    ready to throw "Cannot create two kernels with the same name" (`CPN/RemoteContextClient.cc:80`), waits for ever. The run uses a
    name once.
16. When a thread calls `Terminate` while another thread of the same process has a call in flight, the reply finds a waiter
    that is gone from its stack (`CPN/RemoteContextClient.cc:672`); likewise a create message that arrives after a local `Terminate`
    fails the ASSERT that the kernel is running (`:642`). In the run the thread that terminates is the one that makes the calls.
17. `WaitForAllNodeEnd` and `WaitForKernelStart` go by the last broadcast and may return on one that is no longer
    true; `WaitForNodeStart` and `WaitForNodeEnd` may not (`WaitTruth`), for a node starts and ends once.
18. `Kernel::NotifyTerminate` does nothing while the kernel is INITIALIZED; `SignalKernelStart`, which throws after a shutdown, makes up for it.

## 6. Not modelled

By component:

- MirrorBufferSet and FileHandle (operating system), NodeLoader and NodeFactory (dlopen),
  FunctionNode (templates), PthreadLib (wrappers), LogicalClock (used by nothing).
- Variant, the JSON and XML parsers and loaders, Base64, Logger and utils: sequential
  conversions without protocol state.
- Beamformers, filters, node libraries, applications, tools and test drivers: numerical code and users of the library.
  They and the vendored parsers are most of the repository's lines; the library this project is about, `CPN`, `D4R`,
  `ThresholdQueue` and what they stand on, is about a quarter. Much of that quarter is again
  declarations, typed wrappers, accessors, logging and conversion to and from JSON, which the models abstract.

Of what is modelled:

- D4R: a queue has both its ends. Until the peer is attached `ReadBlock` and `WriteBlock` wait at their beginning
  (`D4R/D4RQueue.cc:71-76`, `:106-111`) and take no part in the detection; when ends are attached is in `Kernel`.
- Remote context: a write that fails. `sock.Write` (`CPN/RemoteContext.cc:59`) throws when the server's end of the connection has gone;
  in `SendMessage` what is written then reaches nobody, and the caller goes on until the end of the connection is read.
- Kernel and context: several kernels in one LocalContext, the getters of names and keys,
  and `Release` of a queue end by a running node (its effect on the queue is `Shutdown` of `ThresholdQueue`). The `Remote...`
  entry points of a kernel call the local ones; what reaches them is in `RemoteContext`, what they make in `ConnectionServer`.
- Remote queue: a socket that is full, a packet cut in two by a crash, several channels, the wire format.
- Connection server: `Enable` and `Disable`, which only tests call; a queue that is made after its context has terminated;
  a connection that fails although the server is open.

## 7. Plan

1. `D4R`: for which networks `OneDetector` and `SmallestQueueGrows` hold.
2. `RemoteQueue`: for which sizes `NoLostWakeup` holds.
3. `RemoteContext`: `AssertsHold` for any programs in which the thread that terminates is the one that calls.
