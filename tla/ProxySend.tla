----------------------------- MODULE ProxySend -----------------------------
(***************************************************************************)
(* One output path of CodedBulkProxy                                       *)
(* (implementation/src/proxy/sources/CodedBulk-proxy.{h,cc}) and its send  *)
(* thread, TcpSendPeer::PeerReady (tcp-proxy.cc).                          *)
(*                                                                         *)
(* Workers and receive threads hand outputs to the path in any order.      *)
(* Without store and forward they put them in the send buffer, keeping its *)
(* least serial number in front, and notify the send thread only when that *)
(* is the serial number it is waiting for.  The send thread moves the whole*)
(* buffer to a buffer of its own, sorts it without the lock, and sends     *)
(* from it as long as the serial numbers are consecutive.  With store and  *)
(* forward, outputs go to a file; a full file is handed to the thread,     *)
(* which reads it back one segment at a time.                              *)
(*                                                                         *)
(* _send_buffer_lock is held within single actions, and while the thread   *)
(* is at "blocking": it has found the predicate of its wait false and is   *)
(* about to sleep.  Notifications given without the lock can come then.    *)
(***************************************************************************)
EXTENDS Naturals, Sequences, FiniteSets, SequencesExt

CONSTANTS
  MaxSerial,   \* bound: number of outputs of the path
  StoreSize    \* STORE_AND_FORWARD_SIZE / DATASEG_SIZE, outputs per file

ASSUME ProxySendAssumption ==
  /\ MaxSerial \in Nat
  /\ StoreSize \in Nat \ {0}

VARIABLES
  storeAndForward,  \* CodedBulkCodec::__store_and_foward
  serial,           \* send->_serial_number
  sendBuffer,       \* send->_send_buffer, as serial numbers
  localBuffer,      \* send->_send_local_buffer
  sendOutput,       \* serial number of send->_send_output, or None
  storing,          \* the outputs in the file being written
  files,            \* what is left to read of each of _send_forward_files
  storePacket,      \* send->_send_store_packet, or None
  pc,               \* where the send thread is
  running,          \* system_parameters.isRunning()
  woken,            \* WakeAllThreads has been called
  missed,           \* (history) the thread was at "blocking" when it was
  arrivals,         \* (history) the outputs handed to the path, in order
  sent              \* (history) the serial numbers sent, in order

bufferVars == <<serial, sendBuffer, localBuffer, sendOutput>>
storeVars == <<storing, files, storePacket>>
stopVars == <<running, woken, missed>>
vars == <<storeAndForward, bufferVars, storeVars, pc, stopVars, arrivals, sent>>

None == 0
Serials == 1 .. MaxSerial

Init ==
  /\ storeAndForward \in BOOLEAN
  /\ serial = 1 /\ sendBuffer = <<>> /\ localBuffer = <<>> /\ sendOutput = None
  /\ storing = <<>> /\ files = <<>> /\ storePacket = None
  /\ pc = "ready"
  /\ running = TRUE /\ woken = FALSE /\ missed = FALSE
  /\ arrivals = <<>> /\ sent = <<>>

(* notify_all of _send_buffer_non_empty_cv. *)
Notified == IF pc = "waiting" THEN "locking" ELSE pc

----------------------------------------------------------------------------
(* Workers and receive threads *)

(* Mutant of Insert: the buffer is a plain queue. *)
InsertLast(s) == Append(sendBuffer, s)

Insert(s) ==
  IF sendBuffer = <<>> \/ s < Head(sendBuffer)
  THEN <<s>> \o sendBuffer
  ELSE Append(sendBuffer, s)

ReceiveOutput(s) ==
  /\ ~storeAndForward /\ s \notin ToSet(arrivals) /\ pc # "blocking"
  /\ sendBuffer' = Insert(s)
  /\ pc' = IF serial = Head(Insert(s)) THEN Notified ELSE pc
  /\ arrivals' = Append(arrivals, s)
  /\ UNCHANGED <<storeAndForward, serial, localBuffer, sendOutput, storeVars, stopVars, sent>>

(* Mutant of FileFull: the comparison is strict. *)
FileFullStrict == Len(storing) + 1 > StoreSize

(* The next output stored fills the file. *)
FileFull == Len(storing) + 1 >= StoreSize

StoreOutput(s) ==
  /\ storeAndForward /\ s \notin ToSet(arrivals) /\ pc # "blocking"
  /\ IF FileFull
     THEN /\ files' = Append(files, Append(storing, s))
          /\ storing' = <<>>
          /\ pc' = Notified
     ELSE /\ storing' = Append(storing, s)
          /\ UNCHANGED <<files, pc>>
  /\ arrivals' = Append(arrivals, s)
  /\ UNCHANGED <<storeAndForward, bufferVars, storePacket, stopVars, sent>>

----------------------------------------------------------------------------
(* The send thread *)

(* The loop of PeerReady, once the socket is writable or the poll is over. *)
PeerReady ==
  /\ pc = "ready"
  /\ pc' = IF running THEN "sending" ELSE "stopped"
  /\ UNCHANGED <<storeAndForward, bufferVars, storeVars, stopVars, arrivals, sent>>

InHand == storePacket # None \/ sendOutput # None

(* DoSend finds nothing left over from an earlier call. *)
NothingInHand ==
  /\ pc = "sending" /\ ~InHand
  /\ pc' = "locking"
  /\ UNCHANGED <<storeAndForward, bufferVars, storeVars, stopVars, arrivals, sent>>

(* The socket takes all of the packet read from a file, or the output. *)
SendSucceeds ==
  /\ pc = "sending"
  /\ \/ /\ storePacket # None
        /\ sent' = Append(sent, storePacket)
        /\ storePacket' = None
        /\ UNCHANGED sendOutput
     \/ /\ storePacket = None /\ sendOutput # None
        /\ sent' = Append(sent, sendOutput)
        /\ sendOutput' = None
        /\ UNCHANGED storePacket
  /\ UNCHANGED <<storeAndForward, serial, sendBuffer, localBuffer, storing, files, pc,
                 stopVars, arrivals>>

(* It does not, or takes a part: DoSend returns and is called again. *)
SendFails ==
  /\ pc = "sending" /\ InHand
  /\ pc' = "ready"
  /\ UNCHANGED <<storeAndForward, bufferVars, storeVars, stopVars, arrivals, sent>>

(* The predicate lets the thread through because the system stops. *)
Quit ==
  /\ pc = "locking" /\ ~running
  /\ pc' = "ready"
  /\ UNCHANGED <<storeAndForward, bufferVars, storeVars, stopVars, arrivals, sent>>

(* Mutant of ReadFile: the file is dropped with its last segment's read,   *)
(* which it is the first time too.                                         *)
ReadFileOnce ==
  /\ pc = "locking" /\ running /\ files # <<>>
  /\ storePacket' = Head(Head(files))
  /\ files' = Tail(files)
  /\ pc' = "sending"
  /\ UNCHANGED <<storeAndForward, bufferVars, storing, stopVars, arrivals, sent>>

(* store_file_non_empty: one segment of the first file.  The end of the    *)
(* file shows only at the read after the last segment, which is empty.     *)
ReadFile ==
  /\ pc = "locking" /\ running /\ files # <<>>
  /\ \/ /\ Head(files) # <<>>
        /\ storePacket' = Head(Head(files))
        /\ files' = [files EXCEPT ![1] = Tail(@)]
        /\ pc' = "sending"
     \/ /\ Head(files) = <<>>
        /\ files' = Tail(files)
        /\ pc' = IF Tail(files) = <<>> THEN "ready" ELSE "sending"
        /\ UNCHANGED storePacket
  /\ UNCHANGED <<storeAndForward, bufferVars, storing, stopVars, arrivals, sent>>

(* Mutant of Splice: what was left in the local buffer is forgotten. *)
SpliceOver ==
  /\ localBuffer' = sendBuffer
  /\ sendBuffer' = <<>>
  /\ serial' = serial + 1
  /\ pc' = "sorting"

(* The default case: the whole send buffer is moved to the local buffer.  *)
Splice ==
  /\ localBuffer' = sendBuffer \o localBuffer
  /\ sendBuffer' = <<>>
  /\ serial' = serial + 1
  /\ pc' = "sorting"

(* Mutant of NextInSendBuffer: any output will do. *)
SomeInSendBuffer == sendBuffer # <<>>

(* The front of the send buffer is the output waited for. *)
NextInSendBuffer == sendBuffer # <<>> /\ serial = Head(sendBuffer)

(* local_buffer_check: the next output is in the local buffer, or in the   *)
(* send buffer, or in neither; then the thread does not wait but calls     *)
(* again, by way of PeerReady if the send buffer is empty.                 *)
CheckLocalBuffer ==
  /\ pc = "locking" /\ running /\ files = <<>> /\ localBuffer # <<>>
  /\ \/ /\ Head(localBuffer) = serial
        /\ serial' = serial + 1
        /\ pc' = "moving"
        /\ UNCHANGED <<sendBuffer, localBuffer>>
     \/ /\ Head(localBuffer) # serial /\ NextInSendBuffer
        /\ Splice
     \/ /\ Head(localBuffer) # serial /\ ~NextInSendBuffer
        /\ pc' = IF sendBuffer = <<>> THEN "ready" ELSE "sending"
        /\ UNCHANGED <<serial, sendBuffer, localBuffer>>
  /\ UNCHANGED <<storeAndForward, sendOutput, storeVars, stopVars, arrivals, sent>>

(* Nothing but the send buffer is left to look at. *)
CheckSendBuffer ==
  /\ pc = "locking" /\ running /\ files = <<>> /\ localBuffer = <<>>
  /\ \/ NextInSendBuffer /\ Splice
     \/ /\ ~NextInSendBuffer
        /\ pc' = "blocking"
        /\ UNCHANGED <<serial, sendBuffer, localBuffer>>
  /\ UNCHANGED <<storeAndForward, sendOutput, storeVars, stopVars, arrivals, sent>>

(* The wait gives up the lock and puts the thread to sleep at once. *)
Sleep ==
  /\ pc = "blocking"
  /\ pc' = "waiting"
  /\ UNCHANGED <<storeAndForward, bufferVars, storeVars, stopVars, arrivals, sent>>

SpuriousWake ==
  /\ pc = "waiting"
  /\ pc' = "locking"
  /\ UNCHANGED <<storeAndForward, bufferVars, storeVars, stopVars, arrivals, sent>>

(* local_buffer_move, after the lock has been given up. *)
Move ==
  /\ pc = "moving"
  /\ sendOutput' = Head(localBuffer)
  /\ localBuffer' = Tail(localBuffer)
  /\ pc' = "sending"
  /\ UNCHANGED <<storeAndForward, serial, sendBuffer, storeVars, stopVars, arrivals, sent>>

(* The sequence q, whose elements differ, in increasing order. *)
Sorted(q) ==
  {p \in [DOMAIN q -> ToSet(q)] :
     ToSet(p) = ToSet(q) /\ \A i, j \in DOMAIN q : i < j => p[i] < p[j]}

(* The default case, after the lock has been given up. *)
Sort ==
  /\ pc = "sorting"
  /\ \E p \in Sorted(localBuffer) :
       /\ sendOutput' = Head(p)
       /\ localBuffer' = Tail(p)
  /\ pc' = "sending"
  /\ UNCHANGED <<storeAndForward, serial, sendBuffer, storeVars, stopVars, arrivals, sent>>

----------------------------------------------------------------------------
(* The main thread.  The flag and the condition variable are set without   *)
(* _send_buffer_lock.                                                      *)

SetNotRunning ==
  /\ running
  /\ running' = FALSE
  /\ UNCHANGED <<storeAndForward, bufferVars, storeVars, pc, woken, missed, arrivals, sent>>

(* Mutant of WakeAllThreads: receive threads only. *)
WakeReceiversOnly ==
  /\ ~running /\ ~woken
  /\ woken' = TRUE
  /\ missed' = (pc = "blocking")
  /\ UNCHANGED <<storeAndForward, bufferVars, storeVars, pc, running, arrivals, sent>>

WakeAllThreads ==
  /\ ~running /\ ~woken
  /\ woken' = TRUE
  /\ missed' = (pc = "blocking")
  /\ pc' = Notified
  /\ UNCHANGED <<storeAndForward, bufferVars, storeVars, running, arrivals, sent>>

----------------------------------------------------------------------------
SendThread ==
  \/ PeerReady \/ NothingInHand \/ SendSucceeds \/ SendFails
  \/ Quit \/ ReadFile \/ CheckLocalBuffer \/ CheckSendBuffer
  \/ Sleep \/ Move \/ Sort

Next ==
  \/ \E s \in Serials : ReceiveOutput(s) \/ StoreOutput(s)
  \/ SendThread \/ SpuriousWake
  \/ SetNotRunning \/ WakeAllThreads

(* The send thread is scheduled, the peer reads what it is sent so that    *)
(* not every send fails, and main does call WakeAllThreads.                *)
Fairness == WF_vars(SendThread) /\ SF_vars(SendSucceeds) /\ WF_vars(WakeAllThreads)

Spec == Init /\ [][Next]_vars /\ Fairness

----------------------------------------------------------------------------
Places == {"ready", "sending", "locking", "blocking", "waiting", "moving", "sorting",
           "stopped"}

(* Types, and the bound on the file being written: it is handed over as    *)
(* soon as it holds STORE_AND_FORWARD_SIZE bytes.                          *)
TypeOK ==
  /\ storeAndForward \in BOOLEAN
  /\ serial \in Nat
  /\ sendBuffer \in Seq(Serials) /\ localBuffer \in Seq(Serials)
  /\ sendOutput \in Serials \cup {None} /\ storePacket \in Serials \cup {None}
  /\ storing \in Seq(Serials) /\ Len(storing) < StoreSize
  /\ files \in Seq(Seq(Serials))
  /\ pc \in Places
  /\ running \in BOOLEAN /\ woken \in BOOLEAN /\ missed \in BOOLEAN
  /\ arrivals \in Seq(Serials) /\ sent \in Seq(Serials)

(* Without store and forward a path delivers in order and leaves no gap:   *)
(* the outputs sent are those with the serial numbers 1, 2, 3, ...         *)
InOrder == ~storeAndForward => \A i \in 1 .. Len(sent) : sent[i] = i

(* No output is lost or doubled on its way from the send buffer over the   *)
(* local buffer to the socket.                                             *)
EveryOutputKept ==
  LET hand == IF sendOutput = None THEN <<>> ELSE <<sendOutput>>
      all == sent \o hand \o localBuffer \o sendBuffer
  IN  ~storeAndForward => IsInjective(all) /\ ToSet(all) = ToSet(arrivals)

(* With store and forward, what has been sent, the segment in hand, what   *)
(* is left of the files and the file being written are together what was   *)
(* stored, in that order: nothing is lost or doubled where files meet.     *)
StoredInOrder ==
  LET hand == IF storePacket = None THEN <<>> ELSE <<storePacket>>
  IN  storeAndForward => sent \o hand \o FlattenSeq(files) \o storing = arrivals

(* The path implements the abstract delivery. *)
IOD == INSTANCE InOrderDelivery WITH ordered <- ~storeAndForward,
                                     arrived <- ToSet(arrivals)
ImplementsInOrderDelivery == IOD!Spec

(* With store and forward an output can go when its file is complete,      *)
(* without it when no earlier output is missing.                           *)
CanGo(s) ==
  IF storeAndForward
  THEN \E i \in 1 .. Len(files) : s \in ToSet(files[i])
  ELSE 1 .. s \subseteq ToSet(arrivals)

(* An output that can go is sent.  In particular the thread is not left    *)
(* asleep by a notification that ReceiveOutput did not give.               *)
Delivered ==
  \A s \in Serials : CanGo(s) ~> (s \in ToSet(sent) \/ ~running)

(* When the system stops, the send thread leaves its loop, unless          *)
(* WakeAllThreads came between its looking at the flag and its falling     *)
(* asleep.                                                                 *)
StopsUnlessMissed == ~running ~> (pc = "stopped" \/ missed)
----------------------------------------------------------------------------
(* The inductive invariant.  On an ordered path serial runs ahead of what  *)
(* has been sent by the output the thread holds, or has taken out of the   *)
(* send buffer but not out of the local one yet.                           *)

Taking == pc \in {"moving", "sorting"}

SerialIsNext ==
  /\ Taking => sendOutput = None
  /\ sendOutput # None => sendOutput = serial - 1 /\ pc \in {"ready", "sending", "stopped"}
  /\ serial = Len(sent) + (IF Taking \/ sendOutput # None THEN 2 ELSE 1)

(* The output being taken is in the local buffer, in front if it is sorted.*)
LocalHasNext ==
  /\ pc = "moving" => localBuffer # <<>> /\ localBuffer[1] = serial - 1
  /\ pc = "sorting" => \E i \in 1 .. Len(localBuffer) : localBuffer[i] = serial - 1

LocalSorted ==
  pc # "sorting" =>
    \A i, j \in 1 .. Len(localBuffer) : i < j => localBuffer[i] < localBuffer[j]

(* Nothing in the buffers has a serial number already passed.              *)
BuffersAhead ==
  /\ \A i \in 1 .. Len(sendBuffer) : sendBuffer[i] >= serial
  /\ \A i \in 1 .. Len(localBuffer) :
       localBuffer[i] >= (IF Taking THEN serial - 1 ELSE serial)

BuffersApart ==
  \A i \in 1 .. Len(localBuffer), j \in 1 .. Len(sendBuffer) : localBuffer[i] # sendBuffer[j]

(* Whatever is in a buffer, or has been passed, has arrived.               *)
AllArrived ==
  /\ \A n \in 1 .. serial - 1 : n \in ToSet(arrivals)
  /\ \A i \in 1 .. Len(sendBuffer) : sendBuffer[i] \in ToSet(arrivals)
  /\ \A i \in 1 .. Len(localBuffer) : localBuffer[i] \in ToSet(arrivals)

Ordered ==
  /\ storePacket = None /\ files = <<>>
  /\ \A i \in 1 .. Len(sent) : sent[i] = i
  /\ SerialIsNext /\ LocalSorted /\ BuffersAhead /\ BuffersApart /\ AllArrived

(* No output is lost or doubled in the buffers of an ordered path.         *)
Accounted ==
  /\ IsInjective(sendBuffer) /\ IsInjective(localBuffer)
  /\ \A n \in ToSet(arrivals) :
       n < serial \/ n \in ToSet(localBuffer) \/ n \in ToSet(sendBuffer)

(* A path with files has nothing in its buffers, and asks for the next     *)
(* segment only when it has none in hand.                                  *)
Stored ==
  /\ sendBuffer = <<>> /\ localBuffer = <<>> /\ sendOutput = None
  /\ storePacket # None => pc \in {"ready", "sending", "stopped"}
  /\ StoredInOrder

(* All of it: an output is handed to the path once, and the mode of the    *)
(* path says which of the two accounts holds.                              *)
IInv ==
  /\ TypeOK /\ LocalHasNext /\ IsInjective(arrivals)
  /\ ~storeAndForward => Ordered /\ Accounted
  /\ storeAndForward => Stored
=============================================================================
