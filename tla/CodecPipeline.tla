--------------------------- MODULE CodecPipeline ---------------------------
(***************************************************************************)
(* The life of a packet in a proxy: CodedBulkProxy::DoReceive, the codecs' *)
(* receiveInput and coding, the end of DoSend, and ReleaseRecv             *)
(* (implementation/src/proxy/sources/CodedBulk-{proxy,codec-manager,       *)
(* codec}.cc).                                                             *)
(*                                                                         *)
(* A packet is the input of one task in every codec its path feeds.  It is *)
(* shared by reference counting: one count for each of these tasks, and one*)
(* the receive thread holds while it offers the packet to the codecs.  A   *)
(* task has its inputs released when the last of its outputs has been sent,*)
(* or stored in a file, with store and forward, which a notifier shared by *)
(* the outputs counts.  The number of packets a path has in the proxy is   *)
(* bounded: its receive thread waits for room.                             *)
(*                                                                         *)
(* How ready tasks reach the workers is CodecManager's subject, how a path *)
(* orders what it sends ProxySend's: here a ready task may be taken by some*)
(* worker, and is sure to be only while the backlog is one that scheduling *)
(* reacts to; an output path sends its outputs in order.                   *)
(***************************************************************************)
EXTENDS Naturals, Sequences, FiniteSets, SequencesExt, FiniteSetsExt

CONSTANTS
  Paths,       \* input paths, each with a receive thread
  Forwarding,  \* those whose packets are forwarded without coding
  CodecList,   \* the codecs of the manager, in the order they are fed
  InputPaths,  \* the paths each codec codes together, by column
  Rows,        \* the number of outputs of each codec
  Room,        \* __input_buffer_size
  ScheduleThreshold, \* the least backlog scheduling reacts to (10)
  MaxSerial    \* bound: packets of each path

Codecs == ToSet(CodecList)
InputSet(c) == ToSet(InputPaths[c])
Serials == UNION {1 .. MaxSerial[p] : p \in Paths}

ASSUME CodecPipelineAssumption ==
  /\ Forwarding \subseteq Paths
  /\ CodecList \in Seq(Codecs) /\ IsInjective(CodecList)
  /\ \A c \in Codecs :
       /\ InputPaths[c] \in Seq(Paths \ Forwarding) /\ IsInjective(InputPaths[c])
       /\ InputPaths[c] # <<>> /\ Rows[c] \in Nat \ {0}
  /\ Room \in Nat \ {0} /\ ScheduleThreshold \in Nat /\ MaxSerial \in [Paths -> Nat]

VARIABLES
  storeAndForward, \* CodedBulkCodec::__store_and_foward
  at,         \* where each receive thread is
  offered,    \* how far in the list of codecs its packet has been offered
  serial,     \* recv->_serial_number
  counter,    \* recv->_counter
  count,      \* input->_counter of each packet
  live,       \* packets whose input has not been deleted
  received,   \* task->_received_inputs, as the set of their paths
  stage,      \* where each task is
  row,        \* the next output coding() makes of a task
  unsent,     \* notifier->_num_not_yet_output
  buffered,   \* outputs waiting in the send buffers, or stored in files
  sentUpTo,   \* the serial number each output path has come to
  releasing   \* inputs still to be released by the thread that finished a task
              \* with this output

recvVars == <<storeAndForward, at, offered, serial>>
taskVars == <<received, stage, row, unsent>>
sendVars == <<buffered, sentUpTo, releasing>>
vars == <<recvVars, counter, count, live, taskVars, sendVars>>

Senders == UNION {{<<c, o>> : o \in 1 .. Rows[c]} : c \in Codecs}
Tasks == Codecs \X Serials
Outputs == Senders \X Serials

Init ==
  /\ storeAndForward \in BOOLEAN
  /\ at = [p \in Paths |-> "waiting"]
  /\ offered = [p \in Paths |-> 0]
  /\ serial = [p \in Paths |-> 0]
  /\ counter = [p \in Paths |-> 0]
  /\ count = [x \in Paths \X Serials |-> 0]
  /\ live = {}
  /\ received = [t \in Tasks |-> {}]
  /\ stage = [t \in Tasks |-> "open"]
  /\ row = [t \in Tasks |-> 0]
  /\ unsent = [t \in Tasks |-> 0]
  /\ buffered = {}
  /\ sentUpTo = [s \in Senders |-> 0]
  /\ releasing = [o \in Outputs |-> <<>>]

----------------------------------------------------------------------------
(* Receive threads *)

(* Mutant of HasRoom: off by one. *)
HasRoomOneMore(p) == counter[p] <= Room

(* The predicate of the wait for room, while the system runs. *)
HasRoom(p) == counter[p] < Room

(* Mutant of Hold: the receive thread does not count itself. *)
NoHold == 0

(* What the receive thread adds to the count of its packet. *)
Hold == 1

(* A whole packet has come.  It is forwarded, or becomes an input.  *)
Receive(p) ==
  /\ at[p] = "waiting" /\ HasRoom(p) /\ serial[p] < MaxSerial[p]
  /\ serial' = [serial EXCEPT ![p] = @ + 1]
  /\ counter' = [counter EXCEPT ![p] = @ + 1]
  /\ IF p \in Forwarding
     THEN UNCHANGED <<at, offered, count, live>>
     ELSE /\ at' = [at EXCEPT ![p] = "offering"]
          /\ offered' = [offered EXCEPT ![p] = 0]
          /\ count' = [count EXCEPT ![<<p, serial'[p]>>] = Hold]
          /\ live' = live \cup {<<p, serial'[p]>>}
  /\ UNCHANGED <<storeAndForward, taskVars, sendVars>>

(* A forwarded packet has been sent. *)
ForwardSent(p) ==
  /\ p \in Forwarding /\ counter[p] > 0
  /\ counter' = [counter EXCEPT ![p] = @ - 1]
  /\ UNCHANGED <<recvVars, count, live, taskVars, sendVars>>

(* The codecs p is an input of, from those the packet has not come to yet. *)
Ahead(p) == {k \in offered[p] + 1 .. Len(CodecList) : p \in InputSet(CodecList[k])}

(* The next codec p is an input of takes the packet; it counts its task    *)
(* before it gives the packet away.                                        *)
CountTask(p) ==
  /\ at[p] = "offering"
  /\ \E k \in Ahead(p) :
       /\ \A j \in Ahead(p) : k <= j
       /\ offered' = [offered EXCEPT ![p] = k]
  /\ count' = [count EXCEPT ![<<p, serial[p]>>] = @ + 1]
  /\ at' = [at EXCEPT ![p] = "inserting"]
  /\ UNCHANGED <<storeAndForward, serial, counter, live, taskVars, sendVars>>

(* Under _codec_lock the packet joins the task of its serial number; with  *)
(* its last input the task leaves _tasks and becomes ready.                *)
InsertInput(p) ==
  LET c == CodecList[offered[p]]
      t == <<c, serial[p]>>
  IN  /\ at[p] = "inserting"
      /\ received' = [received EXCEPT ![t] = @ \cup {p}]
      /\ stage' = [stage EXCEPT ![t] = IF received'[t] = InputSet(c) THEN "ready" ELSE @]
      /\ at' = [at EXCEPT ![p] = "offering"]
      /\ UNCHANGED <<storeAndForward, offered, serial, counter, count, live, row, unsent, sendVars>>

(* Mutant of Release: the count need not come to zero. *)
ReleaseAlways(p, n) ==
  /\ count' = [count EXCEPT ![<<p, n>>] = @ - 1]
  /\ live' = live \ {<<p, n>>}
  /\ counter' = [counter EXCEPT ![p] = @ - 1]

(* One count of the packet is given back; with the last one its input and  *)
(* its packet are deleted, and there is room for another.                  *)
Release(p, n) ==
  /\ count' = [count EXCEPT ![<<p, n>>] = @ - 1]
  /\ IF count[<<p, n>>] = 1
     THEN /\ live' = live \ {<<p, n>>}
          /\ counter' = [counter EXCEPT ![p] = @ - 1]
     ELSE UNCHANGED <<live, counter>>

(* Every codec has been offered the packet.  It may be finished already.   *)
DropHold(p) ==
  /\ at[p] = "offering" /\ Ahead(p) = {}
  /\ Release(p, serial[p])
  /\ at' = [at EXCEPT ![p] = "waiting"]
  /\ UNCHANGED <<storeAndForward, offered, serial, taskVars, sendVars>>

----------------------------------------------------------------------------
(* Workers *)

(* Mutant of InitialUnsent: only the output being made is counted. *)
InitialUnsentOne(c) == 1

(* What coding() sets the notifier to before it makes the first output. *)
InitialUnsent(c) == Rows[c]

StartCoding(t) ==
  /\ stage[t] = "ready"
  /\ stage' = [stage EXCEPT ![t] = "coding"]
  /\ row' = [row EXCEPT ![t] = 1]
  /\ unsent' = [unsent EXCEPT ![t] = InitialUnsent(t[1])]
  /\ UNCHANGED <<recvVars, counter, count, live, received, sendVars>>

(* The next output is computed from all the inputs and handed to its path. *)
CodeRow(t) ==
  /\ ~storeAndForward
  /\ stage[t] = "coding" /\ row[t] <= Rows[t[1]]
  /\ row' = [row EXCEPT ![t] = @ + 1]
  /\ buffered' = buffered \cup {<<<<t[1], row[t]>>, t[2]>>}
  /\ UNCHANGED <<recvVars, counter, count, live, received, stage, unsent, sentUpTo, releasing>>

(* Mutant of IsLast: the count is compared before it is decremented. *)
IsLastTooLate(t) == unsent[t] = 0

(* The output that leaves is the last of its task. *)
IsLast(t) == unsent[t] = 1

InputsOf(t) ==
  [i \in 1 .. Len(InputPaths[t[1]]) |-> <<InputPaths[t[1]][i], t[2]>>]

(* Output o of task t has been sent, or stored.  With the last one notifier*)
(* and task are deleted, and the inputs remain to release.                 *)
Leave(o, t) ==
  /\ unsent' = [unsent EXCEPT ![t] = IF @ > 0 THEN @ - 1 ELSE 0]
  /\ IF IsLast(t)
     THEN /\ stage' = [stage EXCEPT ![t] = "done"]
          /\ releasing' = [releasing EXCEPT ![o] = InputsOf(t)]
     ELSE UNCHANGED <<stage, releasing>>

(* With store and forward the worker writes the output to a file. *)
StoreRow(t) ==
  LET o == <<<<t[1], row[t]>>, t[2]>>
  IN  /\ storeAndForward
      /\ stage[t] = "coding" /\ row[t] <= Rows[t[1]]
      /\ row' = [row EXCEPT ![t] = @ + 1]
      /\ buffered' = buffered \cup {o}
      /\ Leave(o, t)
      /\ UNCHANGED <<recvVars, counter, count, live, received, sentUpTo>>

----------------------------------------------------------------------------
(* Send threads *)

(* The next output of the path is sent, once the thread is done with what  *)
(* it sent before.  What has been stored is read from its file: it counts  *)
(* no more.                                                                *)
Send(s) ==
  LET n == sentUpTo[s] + 1
      o == <<s, n>>
  IN  /\ ~storeAndForward
      /\ \A m \in Serials : releasing[<<s, m>>] = <<>>
      /\ o \in buffered
      /\ buffered' = buffered \ {o}
      /\ sentUpTo' = [sentUpTo EXCEPT ![s] = n]
      /\ Leave(o, <<s[1], n>>)
      /\ UNCHANGED <<recvVars, counter, count, live, received, row>>

(* ReleaseRecv goes through the inputs of the task one by one. *)
ReleaseRecv(o) ==
  /\ releasing[o] # <<>>
  /\ LET x == Head(releasing[o]) IN Release(x[1], x[2])
  /\ releasing' = [releasing EXCEPT ![o] = Tail(@)]
  /\ UNCHANGED <<recvVars, taskVars, buffered, sentUpTo>>

----------------------------------------------------------------------------
ReceiveThread(p) == CountTask(p) \/ InsertInput(p) \/ DropHold(p)
Worker(t) == StartCoding(t) \/ CodeRow(t) \/ StoreRow(t)

Next ==
  \/ \E p \in Paths : Receive(p) \/ ForwardSent(p) \/ ReceiveThread(p)
  \/ \E t \in Tasks : Worker(t)
  \/ \E s \in Senders : Send(s)
  \/ \E o \in Outputs : ReleaseRecv(o)

ReadyTasks == {t \in Tasks : stage[t] = "ready"}

(* schedule_condition() looks at nothing unless there are so many tasks.   *)
Backlog == Cardinality(ReadyTasks) >= ScheduleThreshold

(* Tasks of a codec become ready, and are taken off the list, in the order *)
(* of their serial numbers: if a later one is being coded, or has been, t  *)
(* is in a worker's hands too.                                             *)
Overtaken(t) == \E n \in Serials : n > t[2] /\ stage[<<t[1], n>>] \in {"coding", "done"}

(* Threads run, every path's peer keeps sending packets, and the peers of  *)
(* the output paths take what they are sent.  A task that is ready comes to*)
(* be coded for sure only if there is a backlog (CodecManager shows that   *)
(* such a task is taken) or a worker has it already: below the threshold   *)
(* no worker is woken or spawned, and the tasks may wait for ever.         *)
Fairness ==
  /\ \A p \in Paths : WF_vars(Receive(p)) /\ WF_vars(ForwardSent(p)) /\ WF_vars(ReceiveThread(p))
  /\ \A t \in Tasks :
       /\ WF_vars((Backlog \/ Overtaken(t)) /\ StartCoding(t))
       /\ WF_vars(CodeRow(t) \/ StoreRow(t))
  /\ \A s \in Senders : WF_vars(Send(s))
  /\ \A o \in Outputs : WF_vars(ReleaseRecv(o))

Spec == Init /\ [][Next]_vars /\ Fairness

----------------------------------------------------------------------------
(* Types, and the bound the receive threads keep. *)
TypeOK ==
  /\ storeAndForward \in BOOLEAN
  /\ at \in [Paths -> {"waiting", "offering", "inserting"}]
  /\ offered \in [Paths -> 0 .. Len(CodecList)]
  /\ \A p \in Paths : serial[p] \in 0 .. MaxSerial[p]
  /\ counter \in [Paths -> 0 .. Room]
  /\ count \in [Paths \X Serials -> 0 .. Len(CodecList) + 1]
  /\ live \subseteq Paths \X Serials
  /\ received \in [Tasks -> SUBSET Paths]
  /\ stage \in [Tasks -> {"open", "ready", "coding", "done"}]
  /\ \A t \in Tasks : row[t] \in 0 .. Rows[t[1]] + 1 /\ unsent[t] \in 0 .. Rows[t[1]]
  /\ buffered \subseteq Outputs
  /\ sentUpTo \in [Senders -> {0} \cup Serials]
  /\ releasing \in [Outputs -> Seq(Paths \X Serials)]

(* Who still needs packet x: the receive thread offering it, which counts  *)
(* twice if it has counted the next task already; the tasks that have it;  *)
(* and the threads on their way to release it.                             *)
Holds(x) ==
  IF serial[x[1]] # x[2] THEN 0
  ELSE CASE at[x[1]] = "waiting" -> 0
         [] at[x[1]] = "offering" -> 1
         [] at[x[1]] = "inserting" -> 2

TasksWith(x) == {c \in Codecs : x[1] \in received[<<c, x[2]>>] /\ stage[<<c, x[2]>>] # "done"}

ReleasersOf(x) == {o \in Outputs : x \in ToSet(releasing[o])}

Needed(x) == Holds(x) + Cardinality(TasksWith(x)) + Cardinality(ReleasersOf(x))

(* The reference count of a packet is the number of those who need it, and *)
(* its input is deleted just when nobody does.                             *)
CountIsHolders ==
  \A x \in Paths \X Serials :
    /\ count[x] = Needed(x)
    /\ x \in live <=> count[x] > 0

(* The counter of a path is the number of its packets in the proxy. *)
CounterIsLive ==
  \A p \in Paths \ Forwarding : counter[p] = Cardinality({n \in Serials : <<p, n>> \in live})

(* A task that is waiting, or being coded, finds all its inputs: no worker *)
(* reads a packet that has been given back to its pool.                    *)
InputsLive ==
  \A c \in Codecs, n \in Serials :
    /\ stage[<<c, n>>] \in {"open", "ready"}
         => \A p \in received[<<c, n>>] : <<p, n>> \in live
    /\ stage[<<c, n>>] \in {"coding", "done"} /\ row[<<c, n>>] <= Rows[c]
         => \A p \in InputSet(c) : <<p, n>> \in live

(* A task is over only when each of its outputs has been sent, or stored. *)
DoneWhenAllSent ==
  [][\A t \in Tasks : stage[t] # "done" /\ stage'[t] = "done" =>
       \A i \in 1 .. Rows[t[1]] :
         IF storeAndForward THEN <<<<t[1], i>>, t[2]>> \in buffered'
                            ELSE sentUpTo'[<<t[1], i>>] >= t[2]]_vars

(* Full input buffers do not block the proxy for good, although fewer ready*)
(* tasks than ScheduleThreshold may stay where they are: paths that are    *)
(* coded together and wait for each other's packets go on, since all tasks *)
(* of the one that is furthest behind are complete, and a full buffer of it*)
(* is a backlog when a path has room for that many (10000 packets, against *)
(* 10).  In the end every packet has been received, and those that have not*)
(* been released wait in ready tasks, fewer than ScheduleThreshold.  Paths *)
(* that are coded together receive as many packets as one another.         *)
EveryPacketPasses ==
  <>[](/\ \A p \in Paths : serial[p] = MaxSerial[p]
       /\ \A p \in Forwarding : counter[p] = 0
       /\ ~Backlog
       /\ \A x \in live : \E t \in ReadyTasks : x[1] \in InputSet(t[1]) /\ x[2] = t[2])
=============================================================================
