# A verification project for CodedBulk

CodedBulk sends bulk data from one source to several receivers over a wide-area
network and lets proxies at the nodes in between combine packets by network
coding. This directory holds TLA+ modules that model the parts of the system in
which threads meet, TLC configurations that check them on small instances, and
theorems that the TLA+ proof system checks for every size. All paths below are
relative to the repository; `sources` means `implementation/src/<part>/sources`.

`PROJECT.json` lists the components, the runs, a mutant for every checked
property, the source lines of every definition, the findings, the hazards and
the theorems.

## 1. The system

| Component | State it keeps | Operations | What is hard |
|---|---|---|---|
| Memory allocator (`shared/sources/memory-allocator.h`) | a pool, a flag `_allocated` per element, the head of a circular scan | `New` by the one owning thread, `Delete` by any thread | no lock; the scan's ends |
| Codec manager (`proxy/sources/CodedBulk-codec-manager.*`) | linked list of ready tasks with recorded pointers, worker threads, counters of threads | `enqueueTask`, `scheduleTasks`, `working`, destructor | condition variables, batches cut off a list, retries, shutdown |
| Codec (`CodedBulk-codec.*`) | open tasks by serial number, reference counts of inputs, notifiers of outputs | `receiveInput`, `coding` | counts changed by receive, worker and send threads |
| Proxy (`CodedBulk-proxy.*`) | per input path a packet count and serial number; per output path two buffers, files, a serial number | `DoReceive`, `ReceiveOutput`, `StoreOutput`, `DoSend`, `ReleaseRecv`, `WakeAllThreads` | order out of disorder, lost wake-ups, back-pressure |
| TCP proxy (`tcp-proxy.*`) | peers by path, their sockets and threads, one lock around the creation of sockets | `ListenLocal`, `HandleAccept`, `WaitForFlowIdentifier`, `GetSendPeer`, `GetReceivePeer`, `ConnectPeerThread`, `PeerEstablished`, the destructor | identifiers in pieces, several threads that ask for one peer, set-up that fails half-way, joins |
| Multicast sender (`multicast_agent/sources/CodedBulk-multicast-sender.*`, `-bulk-send-application.*`) | per path a socket, `m_ready`, a reference to the shared packet | `ConnectPeerThread`, `PathReady`, `Resend`, `DataSent`, `SendData`, `InteractiveInput` | several threads and one packet, partial sends |
| Multicast receiver (`CodedBulk-receiver.*`) | connections and byte counts | accept, read | - |
| Finite field, vectors, matrices, virtual links (`shared/sources`) | values | arithmetic, path lookup | pure algorithms |
| Controller (`controller/sources`) | graph, paths, traffic | routing, coding assignment, generation of programs | pure algorithms; text |
| System parameters (`shared/sources/system_parameters.*`) | `_running`, listening sockets | `setRunning`, `isRunning` | a flag read without a lock |
| WAN experiment controller (`implementation/WAN_exp_controller/core`) | controller: sockets to the servers, current experiment and scenario, errors by experiment; agent on each server: its folder, scenario and three dictionaries of programs | menu (`rb`, `rw`, `rt`, `rs`, `rf`, `rr`, `lf`, `q`), `experiment`, `wait_for_ready`, `log_error_messages`; `command_parsing`, `wait_and_print` | replies without framing or command, programs that fail at any time, agents that die of it, a broad `except` |
| Hardware codec, simulator, generators | | | see section 7 |

A program generated by the controller for a node starts a proxy with a codec
manager. Every connection a proxy accepts gets a receive thread, every path it
sends on a send thread, and the codec manager starts up to
`MAX_NUM_WORKER_THREADS` (100) workers.

1. The receive thread of a path collects a whole packet (`DoReceive`), gives it
   a serial number, and either hands it to an output path as it is, or offers it
   to every codec. A codec gathers packets of different paths that have the same
   serial number into a task; the last one makes it a ready task, which the
   receive thread appends to the manager's list.
2. A worker takes a batch of ready tasks and computes each task's outputs, one
   per output path, which go to the send buffer of the path or to its file.
3. The send thread of a path sends outputs in the order of their serial
   numbers. The one that sends the last output of a task releases the task's
   inputs, and so makes room for the receive threads.

At the source, a multicast sender writes the same packets to one path per
receiver; the flow identifier that opens every connection tells a proxy which
path it carries. Elements of every kind live in pools of the memory allocator.

Experiments run these programs on several servers. A local controller sends each
command to the agents of all servers and then waits for each agent's reply: enter
the experiment's folder and build; set the scenario; start receivers, proxies,
senders; stop them in the opposite order. An agent starts the programs as
processes, stops them by writing `q` to their standard input, and reports those
that failed before it replies.

## 2. What makes each component correct

* An element of a pool is held by one user at a time, and is not released under
  its holder; `New` fails only if the pool is exhausted.
* Ready tasks are started in the order of the list, none twice; what has not been
  started is dropped only at shutdown, when every worker has ended; no backlog of ten or more is left with
  workers asleep; shutdown ends.
* A path sends its outputs in order, without gaps, each once; its send thread is
  not left asleep while it could send.
* A packet is kept while some task needs it and given back once afterwards;
  bounded buffers do not deadlock paths that are coded together, if they have room
  for a backlog.
* Every path of a multicast sender carries the same bytes; what has been counted
  has been sent.
* A connection is read by the receive peer of the path it has named; every send
  peer somebody asks for connects and announces its path; the destructor of a
  proxy ends, wherever its threads are when the system stops.
* A reply the controller reads answers the command it waits for; senders run only
  while every agent that is left has its receivers and proxies started; such an
  agent leaves nothing running when the next scenario or experiment is set up;
  every failure an agent sees is recorded under its experiment and scenario; an
  experiment comes to an end. An agent that dies leaves programs running: see
  section 6.

The hazards behind these, line by line, are in `PROJECT.json`.

## 3. Modules

| Module | Models | Abstract view |
|---|---|---|
| `MemoryAllocator` | `New` and `Delete` | - |
| `CodecManager` | ready-task list and workers | `BatchQueue` |
| `ProxySend` | one output path and its send thread | `InOrderDelivery` |
| `CodecPipeline` | receive threads, codecs, workers and send threads around the life of a packet | - |
| `MulticastSender` | one multicast path of a sender | - |
| `PeerSetup` | the connections of one proxy, up and down | - |
| `RemoteServer` | the agents on the servers, their programs and their connections | - |
| `ExperimentControl` | one experiment run by the controller, over `RemoteServer` | - |
| `ExperimentMenu` | the controller's menu, over `ExperimentControl` | - |
| `MemoryAllocatorProofs`, `CodecManagerProofs`, `ProxySendProofs`, `CodecPipelineProofs`, `MulticastSenderProofs`, `PeerSetupProofs`, `ExperimentMenuProofs` | theorems | |
| `SequenceLemmas` | lemmas about sequences | |

Each `MC` module gives one of them small constants for TLC.

**MemoryAllocator.** The owner is inside `New` (`BeginNew`, then one action per
iteration of the `do` loop: `SkipAllocated` or `Claim`) while others are inside
`Delete`, whose two statements are two actions. `clean` abstracts the contents
of an element to whether `initialize()` or `release()` ran on it last.

**CodecManager.** An action is what a thread does while it holds
`_CodedBulkReadyTasks_lock`, or one iteration of a worker over its own batch.
Pointers are kept as in the code: `next` is `_next_task`, `cached` the list of
recorded pointers. Whether a task can be coded depends on the worker's pool of
notifiers, which send threads refill (`NotifierReturned`). A worker's wait is
`WorkerEnter`, `WorkerWake` and `SpuriousWake`; `isRunning()` is read at the top
of the loop, without the lock, in an action of its own. The histories `queue`,
`batch` and `retry` say what the lists ought to be. `BatchQueue` is implemented
under a mapping that uses the pointers and counts only, not the histories. It
goes through three phases: tasks are submitted, started and finished until the
queue is closed, which drops those pending; it can be closed only after it has
been told to stop. Its phases are the code's `_stop` and the emptied list of the
destructor, and as nothing starts or ends in a closed queue, implementing it
includes that every worker has been joined before the list is emptied. A worker
that exits gives up the notifiers of its pool.

**ProxySend.** `ReceiveOutput` and `StoreOutput` are called by workers and
receive threads in any order. `DoSend` is divided where it takes and gives up
`_send_buffer_lock`: sending what is in hand (`SendSucceeds`, `SendFails`),
choosing under the lock (`Quit`, `ReadFile`, `CheckLocalBuffer`,
`CheckSendBuffer`), and taking an output from the local buffer without it
(`Move`, `Sort`). At `"blocking"` the thread has evaluated the predicate of its
wait and still holds the lock; `WakeAllThreads`, which does not take the lock,
can come there. Outputs are their serial numbers.

**CodecPipeline.** `count` is the reference count of an input, `counter` that of
a path's packets, `unsent` the notifier's. A receive thread goes down the list of
codecs; `offered` says how far it is. `receiveInput` is divided between
counting the task (`CountTask`) and joining it (`InsertInput`), as other threads
can run in between. An output leaves its task (`Leave`) when a send thread has
sent it (`Send`) or, with store and forward, when the worker has written it to a
file (`StoreRow`). `releasing` says which inputs the thread that let the last
output go has still to release; `ReleaseRecv` releases one at a time. Which worker
takes a ready task, and how an output path puts its outputs in order, are left
to the two modules above: here any worker may take any ready task, and an output
path sends in order. `Backlog` is the first line of `schedule_condition()`, used in
the fairness only.

**MulticastSender.** A packet has two parts, so that every send of it can be
whole, partial or nothing. `_set_lock` is held within an action, except between
the halves of `Resend` (at `"dereferencing"`), where `m_ready` is up and the
reference still there. `lock` is `m_check_ready_lock`, which its holder keeps
over the sends on all paths, and while it waits for interactive input.

**PeerSetup.** `listen`, `send` and `recv` say where each listening thread, the
thread of each send peer, and each connection with its thread are; `"none"` is a
peer that has not been asked for, or a connection that has not been opened.
`lock` is the thread that holds `m_socket_creation`; `BindLocal` may fail and
keep it, as the code does. Look-ups of peers are atomic, as they run under one
lock. A failed attempt that changes nothing (a connect, a poll) is a stuttering
step. Of a connection's bytes only their number matters up to the identifier;
`recvLen` is `recv_len`, to which a timed-out receive adds -1. Other proxies,
senders and receivers are external: they listen (`RemoteListens`), open
connections (within `HandleAccept`) and write (`Write`) when they like.

**RemoteServer, ExperimentControl, ExperimentMenu.** The two directions of a
connection are sequences of tokens, a token being a two-byte command or reply or
the reason of a failure. The field `re`, the command a token belongs to, is a
history: no guard reads it. An agent's actions are one command each, but for the
loops that stop programs, which are divided at every program, since programs end
or fail in between: `Poll`, `WriteQuit` (a broken pipe kills the agent), `Reap`,
`GetOk`. On the controller's side `cmd` and `idx` are the command and the server
its loop is at. What a socket whose agent is dead does depends on the operating
system: the controller reads nothing and passes over the server, or gets an
exception (`Fail`), which ends it, except below `rr`, whose bare `except` goes
back to the menu (`raised` is the history of that). `ExperimentMenu` adds the
lists, `start_from`, the errors that `rf` runs again, and the log of the hour.

## 4. Runs

| Run | Instance | States | Shows |
|---|---|---|---|
| `memory_allocator` | 3 elements | 593 | no element is handed out twice or released under its holder; `New` returns and fails only on exhaustion |
| `codec_manager` | 4 tasks, 2 receive threads, 2 workers, batches of 2, threshold 2, 1 notifier, with symmetry | 71,318 | the list with its recorded pointers is the queue; failed tasks are run again; counters count; `BatchQueue` is implemented |
| `codec_manager_live` | 2 tasks, 2 receive threads, 2 workers, batches of 1 | 80,612 | a backlog at the threshold is taken; shutdown completes |
| `proxy_send` | 4 outputs, files of 2 | 11,827 | order, nothing lost or doubled, files joined rightly, `InOrderDelivery` implemented; delivery and shutdown |
| `codec_pipeline` | 2 coded paths, 1 forwarded, codecs with 2 rows and 1 row, room for 2 of 3 packets, threshold 2, with and without store and forward | 118,146 | counts are the holders; no packet freed too early or kept; no deadlock by full buffers, and no more left than a backlog below the threshold |
| `multicast_sender` | 3 paths, 3 packets, with and without a limit | 88,003 | all paths carry the same data; counted is sent; unlimited traffic goes on |
| `peer_setup` | a network and a local listening socket, 1 connection from another proxy, a forwarded and a coded output path, identifiers of 2 bytes | 127,440 | connections reach the peers of their paths; send peers come up; the destructor returns |
| `experiment_menu` | 2 servers, 2 experiments (one deployed on one server only), 2 scenarios, a proxy and two senders on one server, a receiver and a sender on the other, 2 failures, 2 menu commands | 374,296 | replies stay in step; programs start and stop in order and no agent that is left leaves any running; failures are recorded; experiments end |
| `header_first` | 2 paths, 2 packets | violation | data before the flow identifier |
| `max_bytes` | 2 paths, 2 packets | violation | more is sent than the limit |
| `new_errors_logged` | as `experiment_menu`, nothing in `rerun.json` | violation | errors of a repeated experiment are dropped from the log |
| `failed_are_rerun` | as `experiment_menu` | violation | `rf` forgets failed experiments that it skips |

### Bounds and why they are enough

* Three elements are the least pool in which a scan starts at the first, an inner
  and the last position. The theorems hold for any size.
* Four tasks in batches of two let the list grow beyond one batch, so that
  pointers are recorded, used, and recorded again, while one worker holds a
  batch and a second one retries. One notifier makes every second task fail.
  Thresholds are scaled down: 10 to 2, `__worker_thread_batch_size` and
  `__max_num_worker_threads` to 2, the pool of notifiers to 1.
* Four outputs arrive in each of their 24 orders, interleaved with the thread,
  and make two whole files. The theorem on order holds for any number.
* Two paths in one codec and one of them in a second codec are the least in
  which a packet is in several tasks and a task has several outputs and inputs;
  a room of two is the least in which a path can be ahead by more than one. The
  threshold is as large as the room, which is the worst case: with a threshold of
  three `EveryPacketPasses` fails, as paths fill up with tasks nobody starts. In the
  code it is 10, and the room `__input_buffer_size`, by default 10000; it may be
  set to less than 10, and then this would happen.
* Three paths of a multicast sender let a packet be whole on one, partial on the
  next and still to be sent on the last; three packets, be rewritten twice. The
  theorems hold for any number of either. Two paths show the two violations.
* An identifier of two bytes (in the code four) is the least that can come in
  pieces; two bytes of data behind it let a receive take data with it, and two
  timeouts let `recv_len` fall behind by a whole identifier. One listening socket
  of each kind, one network and one local send peer make every thread meet every
  other at `m_socket_creation`; one failing `BindLocal` loses it. That several
  connections stay apart is proved, for any number (section 6).
* Two servers are the least in which one is ahead of the other, one dies while the
  other answers, or one has no folder; two menu commands, for an experiment to be
  run after another, or again; two failures, for two programs of one server or
  one on each. Two senders on one server let a command report two failures, and
  let an agent that dies stopping one sender leave the other running, while the
  other server's receiver is taken down.

`MaxSerial` (in `ProxySend`, `CodecPipeline`), `MaxPackets`, `MaxData`,
`MaxTimeouts`, `MaxBindFails`, `MaxFailures` and `MaxMenus` only make the
instances finite. Deadlock is checked for `MemoryAllocator`; the others do stop:
after shutdown, or when the bounded input has been dealt with.

### Fairness

Weak fairness is assumed of threads that have something to do: the operating
system schedules them. Beyond that:

* `CodecManager`: notifiers come back, which is to say that send threads send;
  `Destroy` and `ClearTasks` are the main thread. Nothing makes packets arrive.
* `ProxySend`: `SendSucceeds` is strongly fair, since a send can fail any number
  of times but not always, as long as the next hop reads.
* `CodecPipeline`: each peer keeps sending packets (`Receive`), forwarded packets
  leave, output paths' peers read. A worker goes on with a task it has begun. That
  a ready task is begun (`StartCoding`) is assumed only while there are at least
  `ScheduleThreshold` ready tasks (`Backlog`), or once a later task of its codec has
  been begun (`Overtaken`). The first is what `BacklogTaken` shows of
  `CodecManager`; the list is first in, first out, so no backlog passes a task by,
  and tasks a worker has in hand, which count as ready here, it gets to. The second
  is the order of the list: a codec's tasks come to it by serial number, and if a
  later one has been begun the earlier is in some worker's batch. Below the
  threshold the code wakes and spawns nobody, and nothing is assumed. So
  `EveryPacketPasses` says that every packet is received, and that in the end only
  tasks short of a backlog, and their inputs, are left; it speaks of paths that
  are coded together and send equally many packets.
* `MulticastSender`: strong fairness of a `Resend` that finishes the packet, as
  for sends above. Nothing is assumed of interactive input or of `Wake`.
* `PeerSetup`: every thread of the proxy and the joins. Remote peers, workers and
  the user may do nothing for ever: `PeersComeUp` speaks only of paths whose far
  end listens, and both properties excuse a lock lost by a failed `BindLocal`
  (`LockLost`), after which nothing can be created any more. A thread that waits
  for the identifier on a local connection, which has no timeout, comes back when
  the sender at the other end writes or closes; `GiveUpIdentifying` assumes it
  does.
* `ExperimentMenu`: the controller's exchange, its log, each agent; and that a
  program that has been asked to end ends (`ProgramEnds`). Programs need not
  fail, the user need not type.

## 5. Findings

* **Data before the flow identifier** (`header_first`).
  `ConnectPeerThread` sets `m_connected` before `PathEstablished` has sent the
  flow identifier, and `m_ready` starts as true. `DataSent` on another path then
  finds all paths connected and ready, although its comment says it returns "if
  not all paths are ready", and sends data on the new socket. In the trace path
  `a` is established and polling, `b` has just connected, and `a`'s thread sends
  packet 1 on both.
* **More than the limit** (`max_bytes`). The documentation of `SetMaxBytes`
  says that "once these bytes are sent, no packet is sent again". `SendPacket`
  counts a packet only if every path could send it at once; what `Resend` sends
  is never counted, so interactive traffic that met a full socket is repeated.
* **New errors are not logged** (`new_errors_logged`). `log_error_messages` means
  to "include the existing records", but its `update` puts the entry of the log in
  place of the list in memory. If an experiment is run a second time within the
  hour, its new errors are lost, and the old ones stay even if it went well.
* **Failed experiments are forgotten** (`failed_are_rerun`). The help text says
  "rf: rerun failed experiments". `rf` clears the errors and then skips to
  `start_from_exp`: what comes before it, or everything if it is not among the
  failed ones, is neither run nor known as failed any more.

## 6. What is proved

`tlapm` checks the eight proof modules to the last leaf. They assume what the
named `ASSUME`s of the modules say of the constants and no more, except where
stated.

**MemoryAllocator.** `HeldIsInitialized` is not inductive. `IInv` adds that the
flag of an element is up exactly while it is held or inside `Delete`, that nobody
holds an element another is deleting, and that during a scan the elements found
in use are those between the start of the scan and the head, going round the end
(`Visited`). From it follow `Initialized`, `NoDoubleHandout` and
`FailureIsExhaustion`: when the head meets the start again, `Visited` is the
whole pool.

**CodecManager.** `ListCorrect` says that the list the pointers span is the queue,
`BatchesCorrect` that a worker's batch is the front of its list up to its last
task, `CountersCorrect` that each counter counts the threads it is about, and
`Refinement` that the pointers implement `BatchQueue`: for any number of tasks,
threads and workers, of which the only assumption is that the workers are
finitely many. The queue alone is not inductive, since a list is cut in the
middle by a pointer recorded long before. The invariant adds:

* `Apart`: the queue, the batches and the lists of failed tasks have no task in
  common, so that relinking one leaves the others as they are;
* `BatchesAreOver`, `BatchesFit`: the task after a worker's batch is not reached
  any more, and a batch is a whole number of recorded stretches;
* `Counted`: the two counters of threads, with those that have not come to the
  list yet, are the numbers of workers at the places in question.

The steps that matter are the cut, where the list up to the recorded pointer is
a prefix of the queue of `__worker_thread_batch_size` tasks (`RecordCut`,
`TakeLists`), and the failure of a task, which relinks it behind those that failed
before it (`RunFails`, `FailLists`). For the refinement, the chain of pointers
is first shown to equal the history (`ChainIs`); then every action submits,
starts or finishes tasks, stops or closes the queue, or changes nothing that
`BatchQueue` sees. It needs one more part of the invariant, `Joined`: once the list
has been emptied, `_stop` is set and no worker runs. So until then a task leaves
the list only by being started; tasks that failed when their worker exits have
been started, and are not finished.

**ProxySend.** `OrderedDelivery` says that a path without store and forward
sends 1, 2, 3, ... for any number of outputs arriving in any order. Of itself
`InOrder` says nothing about what is in the buffers; `IInv` adds:

* `SerialIsNext`: `serial` is ahead of what has been sent by the output in hand,
  or by the one that was counted under the lock and is still to be taken out of
  the local buffer;
* `LocalHasNext`: that output is in the local buffer, in front if it is sorted;
* `LocalSorted`, `BuffersAhead`, `BuffersApart`: outside `Sort` the local buffer
  is sorted, nothing in a buffer is behind `serial`, and no output is in both;
* `AllArrived`: all that has been passed or is buffered has arrived, so that a
  new arrival is not behind `serial`.

The step that matters is `SortOrdered`: the least output of the local buffer is
the one waited for, since it is in there and nothing in there is below it.
`TypeCorrect` is proved of both modes of the path. `NothingLost` says that every
output passed to the path has been sent, is in hand or is in a buffer
(`Accounted`), without store and forward. With it, `StoredDelivery` says that
the files joined so far and the one being written hold the outputs in the order
of their storing, and that what is sent is a prefix of that (`Stored`).
`Refinement` says that without store and forward the path implements
`InOrderDelivery`.

**CodecPipeline.** `CountsAreHolders` says that the count of a packet is the
number of those who need it, and `TasksFindInputs` that nobody codes from one that
has been given back, for any number of paths, codecs, outputs and packets. The
invariant adds to the counts (`Counted`):

* `Offering`, `InputsHaveCome`: what receive threads are at, and that a task has
  inputs only of packets that have come and, of the packet being offered, only in
  the codecs it has been offered to. So a packet is not yet in the task it is about
  to join, and nobody needs a packet that has not come (`NotYetLive`);
* `OpenIsIncomplete`: a task is open as long as it lacks an input;
* `ReleasesOfOneTask`: what a thread has still to release are inputs of one task,
  each once, and that task is over;
* `OutputsOfTasks`: the notifier counts the outputs that have neither been sent
  nor stored, which are those of rows at or after `row`, or in the buffers.

The step that matters is `LeaveInv`: when the notifier's count goes to zero, the
thread that finds it so takes the place of the task among those who need each of
its inputs, so that no count changes. `DoneAfterAllSent` says that the count is
zero only once all outputs have left. `CountersAreInputs`, by an invariant of its
own on top of this one, says that the counter of a path is the number of its
packets in the proxy: every packet gives its room back once.

`TypeCorrect` has the bounds: no path has more packets in the proxy than there is
room for, and no count goes beyond one for each codec and one for the receive
thread. The last is not obvious, as the thread may count twice and each of the many
outputs of a task may be the one that releases. `OneReleases` says that no more than
one output of a task has inputs left to release, since a thread comes to release
only when the task was still being coded, of which nobody releases anything
(`LeaveBounds`). So those who need a packet are distinct codecs: those whose task
has it, those whose task is over but for releasing it, and the one it has been
counted for but has not joined yet (`HoldersAreCodecs`).

**MulticastSender.** `SameData` says that every path carries the parts of packet
1, then those of packet 2, and so on; `CountedHasBeenSent`, that `m_totBytes`
never counts what a path has not sent, for any number of paths and packets.
Neither is inductive, as neither says when the shared packet may be rewritten:

* `LockIsHeld`: only one thread is in `SendData` or `SendPacket`, and a round goes
  on only while one is;
* `ReadyIsFree`: a path is ready unless it refers to the packet, but for the gap
  in `Resend` between marking the path and giving up the reference;
* `Progress`: a path still to be served in this round has all of the packets
  before; every other path is inside the current packet, and ready exactly if it
  has all of it;
* `Counting`: the packet of a round in progress has not been counted, and `whole`
  means that the paths served so far have all of it.

When the next packet is generated every path is ready and none is still to be
served, so that each has all of the last one (`NewPacketInv`). `Grows` says that
what a socket takes continues what it has, by where a part falls in its packet.

**PeerSetup.** `BoundToTheirPaths` says that a connection is bound to the path
its peer has named, for any number of connections and any length of the
identifier. Its invariant adds to the types that `recv_len` is what has been
taken less the timeouts, and no more has been taken than has come
(`LengthsAgree`), and that a thread that leaves the loop while the system runs
has a whole identifier (`Identified`). The step that matters is
`BindConnectionInv`: the identifier is whole, and no other connection is of the
same path, as `PeerSetupAssumption` says of the peers upstream.

**RemoteServer, ExperimentControl, ExperimentMenu.** `MenuTypeCorrect` gives the
types of the whole composition, for every number of servers and experiments.
`RepliesStayInStep` says that every reply the controller reads answers the
command it waits for, as long as it has caught no exception. It assumes that no
reason is longer than the 200 bytes the controller reads at once
(`ReasonRest \subseteq {0}`) and that no proxy is started by hand
(`TestProxy = -1`): without either, replies do get out of step. `RepliesMatch` is
not inductive: it does not say what is under way to an agent, nor that an agent
has at most one command. `InStep` therefore describes each agent's exchange as
one of seven situations (`Gone`, `Idle`, `Asked`, `Replied`, `Stopping`,
`Reporting`, `Reported`) that fix its program counter and both directions of its
connection, depending on whether the controller is past it in its loop. After an
exception nothing is claimed.

On top of it, under the same two assumptions, `OrderInv` carries the order of the
programs:

* `Up` says which of an agent's dictionaries may hold programs: what the command
  leaves up (`UpAfter`) once the agent has answered it, what it finds (`UpBefore`)
  until then. The command changes only when every agent that is still served has
  answered, and what the next command finds is what the last one leaves
  (`InStage`);
* `Reaping`: while an agent carries out a command that stops programs, every
  program still in the dictionary in question is one its loop has yet to visit. A
  program that ends or fails stays in it until it has been waited for, so that this
  does not depend on who fails when, and holds after an exception too;
* `Told`: folder, scenario and programs of an agent are those of the controller, or
  of the command still under way to it.

From it follows `EverythingIsStopped`. `PlaceInv` adds two things about each agent:

* `Home`: programs that have been started are of the folder the agent is in, which
  its server has, whatever the controller does;
* `SendersOver`: an agent that is gone has no sender left, if it did not die while
  it was stopping senders (`DiedAmongSenders`).

From it follow `SendersRunInBetween` and `ProgramsAreCurrent`. The first says that
while a sender runs, on whatever server, every agent that is still serving has its
receivers and proxies up. It has one exception, which the code does not prevent:
an agent that a broken pipe killed in `ts` leaves other senders running, the
controller passes over it, and has the proxies and receivers elsewhere taken down;
the run reaches such states. The second says that programs are of the controller's
current scenario and, on a server that has its folder, of the current experiment;
on the others they are of the experiment the agent entered last, since nobody
notices that the folder is missing. `EverythingIsStopped` too is about agents that
still serve. The argument uses that the agent's patterns for receivers, proxies
and senders have no file name in common (`RemoteServerAssumption`).
`FailuresAreRecorded` needs one more part, `AllAccounted`: a failure an agent has
seen is in the log already, or is the report that very agent has under way, for
the scenario of the controller, which does not change while a report is under way.

**SequenceLemmas** holds what these proofs share about sequences: cutting and
joining, `FlattenSeq`, sequences without repetition. Where a recursive function
has to be followed over a list of any length, induction is done with the
well-foundedness of `<` on `Nat`, in the form that speaks of the least element
of a set.

**Only model-checked:** liveness (`NewReturns`, `BacklogTaken`,
`ShutdownCompletes`, `Delivered`, `StopsUnlessMissed`, `EveryPacketPasses`,
`AllDataSent`, `PeersComeUp`, `DestructorReturns`, `ExperimentEnds`), which this
prover does not reach. Every safety property of the passing runs is also a theorem.

## 7. Not modelled, and why

* Most of the Python of the repository, by far, is what ns-3 generates to bind
  its C++ classes (`simulator/src/*/bindings/modulegen__*.py`) and its build
  tool: declarations without behaviour. `simulator/` beyond that is ns-3 itself,
  and the same system as here inside its event scheduler, where nothing runs
  concurrently.
* Coding arithmetic, virtual links, routing and coding assignment: pure
  algorithms, planned below. `hardware_codec/`: combinational arithmetic.
* Connections: null pointers that `CreateIPCSocket`, or a socket creation given up
  at shutdown, leave behind; what receive threads do with peers that `~TcpProxy`
  has deleted under them; `StopApplication`, which nothing calls; the data that
  `WaitForFlowIdentifier` swallows when an identifier comes in parts or after a
  timeout (its comment at `tcp-proxy.cc:344` speaks of four bytes, and data that
  arrives with the last part goes with them). A local connection has no receive
  timeout, so that the destructor waits for its sender; that is assumed away as
  said under fairness.
* The multicast receiver, which accepts connections as a proxy does and counts
  bytes.
* `WITHOUT_WORKER_THREAD`: a build without concurrency. `AllReady`,
  `spawnWorkerThreads`, `CodedBulkCodec::timeout`, and the duplicate branch of
  `receiveInput`: no caller reaches them.
* The base class's forwarding in `TcpProxy`: overridden by `CodedBulkProxy`.
* WAN experiments: `user_interaction` (programs started by hand), the
  measurement of latencies, the handshake in which controller and servers meet
  (one after the other, before any experiment), the download of results, and the
  scripts that deploy files. Reasons of more than 200 bytes and `test_proxy` are
  in the modules (`ReasonRest`, `TestProxy`) but not in the runs, where they
  would break `RepliesMatch`. `wait_and_print` sets the return code of a program
  it has waited for in vain to -1 and then reads it again from `poll()`
  (`remote_server.py:53`); the model has the second value only.
* Generation of programs, settings, topologies and experiments, measuring,
  printing: text and counters. `ptr.h` and `simple-ref-count.h` come from ns-3.

## 8. Plan

In this order:

1. Shutdown of receive threads in `CodecPipeline`, and pools of outputs of bounded
   size.
2. `CodingMath` and `VirtualLink`: GF(256) by its tables against polynomial
   arithmetic, matrix operations, path look-up, for TLC only.
3. Routing and cycle-aware coding on small graphs.

Theorems to come: abstract specifications of what `CodecPipeline` and
`MulticastSender` promise (a packet is received, needed and given back once; all
paths carry one stream), implemented by them as `CodecManager` and `ProxySend`
implement theirs.
