-------------------------- MODULE ProxySendProofs --------------------------
(* What ProxySend promises, for any number of outputs and any size of the  *)
(* files.                                                                  *)
EXTENDS ProxySend, SequenceLemmas

----------------------------------------------------------------------------
(* Types *)

(* An empty file is not full. *)
LEMMA EmptyIsShort == Len(<<>>) < StoreSize
BY ProxySendAssumption

(* Initially every part has its type. *)
LEMMA InitTypeOK == Init => TypeOK
<1> SUFFICES ASSUME Init PROVE TypeOK
  OBVIOUS
<1>1. <<>> \in Seq(Serials) /\ <<>> \in Seq(Seq(Serials))
  OBVIOUS
<1>2. Len(storing) < StoreSize
  BY EmptyIsShort DEF Init
<1>3. QED
  BY <1>1, <1>2 DEF Init, TypeOK, Places

(* Inserting an output of the path keeps the send buffer one of outputs.  *)
LEMMA InsertType ==
  ASSUME NEW s \in Serials, sendBuffer \in Seq(Serials)
  PROVE  Insert(s) \in Seq(Serials) /\ Insert(s) # <<>>
BY DEF Insert

(* Sorting keeps a sequence of outputs one, as long as it was. *)
LEMMA SortedType ==
  ASSUME NEW S, NEW q \in Seq(S), NEW p \in Sorted(q)
  PROVE  p \in Seq(S) /\ Len(p) = Len(q)
<1>1. DOMAIN q = 1 .. Len(q) /\ Len(q) \in Nat
  OBVIOUS
<1>2. ToSet(q) \subseteq S
  BY <1>1 DEF ToSet
<1>3. p \in [1 .. Len(q) -> S]
  BY <1>1, <1>2 DEF Sorted
<1>4. QED
  BY <1>1, <1>3

(* Every step keeps every part to its type, in both modes of the path.     *)
LEMMA NextTypeOK == TypeOK /\ LocalHasNext /\ [Next]_vars => TypeOK'
<1> SUFFICES ASSUME TypeOK, LocalHasNext, [Next]_vars PROVE TypeOK'
  OBVIOUS
<1> USE ProxySendAssumption
<1>1. ASSUME NEW s \in Serials, ReceiveOutput(s) PROVE TypeOK'
  BY <1>1, InsertType
     DEF ReceiveOutput, TypeOK, Places, Notified, storeVars, stopVars
<1>2. ASSUME NEW s \in Serials, StoreOutput(s) PROVE TypeOK'
  <2>1. /\ Append(storing, s) \in Seq(Serials)
        /\ Len(Append(storing, s)) = Len(storing) + 1
        /\ Append(arrivals, s) \in Seq(Serials)
    BY DEF TypeOK
  <2>2. CASE FileFull
    <3>1. /\ Append(files, Append(storing, s)) \in Seq(Seq(Serials))
          /\ <<>> \in Seq(Serials)
      BY <2>1 DEF TypeOK
    <3>2. files' \in Seq(Seq(Serials)) /\ storing' = <<>> /\ pc' \in Places
      BY <1>2, <2>2, <3>1 DEF StoreOutput, TypeOK, Places, Notified
    <3>3. QED
      BY <1>2, <2>1, <3>1, <3>2, EmptyIsShort
         DEF StoreOutput, TypeOK, bufferVars, stopVars
  <2>3. CASE ~FileFull
    <3>1. Len(storing) + 1 < StoreSize
      BY <2>3 DEF FileFull, TypeOK
    <3>2. storing' = Append(storing, s) /\ files' = files /\ pc' = pc
      BY <1>2, <2>3 DEF StoreOutput
    <3>3. Len(storing') < StoreSize
      BY <2>1, <3>1, <3>2
    <3>4. QED
      BY <1>2, <2>1, <3>2, <3>3 DEF StoreOutput, TypeOK, bufferVars, stopVars
  <2>4. QED
    BY <2>2, <2>3
<1>3. CASE PeerReady \/ NothingInHand \/ SendFails \/ Quit \/ Sleep \/ SpuriousWake
  BY <1>3 DEF PeerReady, NothingInHand, SendFails, Quit, Sleep, SpuriousWake,
              TypeOK, Places, bufferVars, storeVars, stopVars
<1>4. CASE SendSucceeds
  <2>1. PICK m \in Serials : sent' = Append(sent, m)
    BY <1>4 DEF SendSucceeds, TypeOK
  <2>2. sent' \in Seq(Serials)
    BY <2>1 DEF TypeOK
  <2>3. /\ sendOutput' \in Serials \cup {None}
        /\ storePacket' \in Serials \cup {None}
    BY <1>4 DEF SendSucceeds, TypeOK
  <2>4. QED
    BY <1>4, <2>2, <2>3 DEF SendSucceeds, TypeOK, stopVars
<1>5. CASE ReadFile
  <2>1. Head(files) \in Seq(Serials) /\ Tail(files) \in Seq(Seq(Serials))
    BY <1>5, TailType DEF ReadFile, TypeOK
  <2>2. CASE Head(files) # <<>>
    <3>1. Head(files) = files[1] /\ 1 \in DOMAIN files
      BY <1>5 DEF ReadFile, TypeOK
    <3>2. [files EXCEPT ![1] = Tail(@)] \in Seq(Seq(Serials))
      BY <2>1, <2>2, <3>1, TailType DEF TypeOK
    <3>3. Head(Head(files)) \in Serials
      BY <2>1, <2>2
    <3>4. QED
      BY <1>5, <2>2, <3>2, <3>3
         DEF ReadFile, TypeOK, Places, bufferVars, stopVars
  <2>3. CASE Head(files) = <<>>
    BY <1>5, <2>1, <2>3 DEF ReadFile, TypeOK, Places, bufferVars, stopVars
  <2>4. QED
    BY <2>2, <2>3
<1>6. CASE CheckLocalBuffer \/ CheckSendBuffer
  <2>1. serial + 1 \in Nat /\ sendBuffer \o localBuffer \in Seq(Serials)
    BY DEF TypeOK
  <2>2. <<>> \in Seq(Serials)
    OBVIOUS
  <2>3. /\ serial' \in Nat
        /\ sendBuffer' \in Seq(Serials)
        /\ localBuffer' \in Seq(Serials)
        /\ pc' \in Places
    BY <1>6, <2>1, <2>2
       DEF CheckLocalBuffer, CheckSendBuffer, Splice, TypeOK, Places
  <2>4. QED
    BY <1>6, <2>3 DEF CheckLocalBuffer, CheckSendBuffer, TypeOK, storeVars, stopVars
<1>7. CASE Move
  BY <1>7, TailType DEF Move, LocalHasNext, TypeOK, Places, storeVars, stopVars
<1>8. CASE Sort
  <2>1. PICK p \in Sorted(localBuffer) : sendOutput' = Head(p) /\ localBuffer' = Tail(p)
    BY <1>8 DEF Sort
  <2>2. p \in Seq(Serials) /\ Len(p) = Len(localBuffer)
    BY SortedType DEF TypeOK
  <2>3. Len(localBuffer) # 0
    BY <1>8 DEF Sort, LocalHasNext, TypeOK
  <2>4. p # <<>>
    BY <2>2, <2>3
  <2>5. QED
    BY <1>8, <2>1, <2>2, <2>4, TailType DEF Sort, TypeOK, Places, storeVars, stopVars
<1>9. CASE SetNotRunning \/ WakeAllThreads
  BY <1>9 DEF SetNotRunning, WakeAllThreads, TypeOK, Places, Notified, bufferVars, storeVars
<1>10. CASE UNCHANGED vars
  BY <1>10 DEF TypeOK, vars, bufferVars, storeVars, stopVars
<1>11. QED
  BY <1>1, <1>2, <1>3, <1>4, <1>5, <1>6, <1>7, <1>8, <1>9, <1>10 DEF Next, SendThread

(* The thread takes an output only from a local buffer that has it.        *)
LEMMA NextLocalHasNext == TypeOK /\ LocalHasNext /\ [Next]_vars => LocalHasNext'
<1> SUFFICES ASSUME TypeOK, LocalHasNext, [Next]_vars PROVE LocalHasNext'
  OBVIOUS
<1>1. CASE CheckLocalBuffer \/ CheckSendBuffer
  <2>1. CASE Splice /\ NextInSendBuffer
    <3>1. /\ sendBuffer # <<>> /\ sendBuffer[1] = serial
          /\ sendBuffer \in Seq(Serials) /\ localBuffer \in Seq(Serials)
      BY <2>1 DEF NextInSendBuffer, TypeOK
    <3>2. /\ 1 \in 1 .. Len(sendBuffer \o localBuffer)
          /\ (sendBuffer \o localBuffer)[1] = serial
      BY <3>1
    <3>3. serial' - 1 = serial /\ localBuffer' = sendBuffer \o localBuffer /\ pc' = "sorting"
      BY <2>1 DEF Splice, TypeOK
    <3>4. QED
      BY <3>2, <3>3 DEF LocalHasNext
  <2>2. CASE pc' = "moving"
    <3>1. /\ localBuffer # <<>> /\ Head(localBuffer) = serial
          /\ serial' = serial + 1 /\ localBuffer' = localBuffer
      BY <1>1, <2>2 DEF CheckLocalBuffer, CheckSendBuffer, Splice
    <3>2. QED
      BY <2>2, <3>1 DEF LocalHasNext, TypeOK
  <2>3. CASE pc' \in {"ready", "sending", "blocking"}
    BY <2>3 DEF LocalHasNext
  <2>4. QED
    BY <1>1, <2>1, <2>2, <2>3 DEF CheckLocalBuffer, CheckSendBuffer
<1>2. CASE Move \/ Sort
  BY <1>2 DEF Move, Sort, LocalHasNext
<1>3. ASSUME NEW s \in Serials, ReceiveOutput(s) \/ StoreOutput(s) PROVE LocalHasNext'
  BY <1>3 DEF ReceiveOutput, StoreOutput, Notified, LocalHasNext, bufferVars
<1>4. CASE PeerReady \/ NothingInHand \/ SendSucceeds \/ SendFails \/ Quit \/ ReadFile
  BY <1>4 DEF PeerReady, NothingInHand, SendSucceeds, SendFails, Quit, ReadFile,
              LocalHasNext, bufferVars
<1>5. CASE Sleep \/ SpuriousWake \/ SetNotRunning \/ WakeAllThreads
  BY <1>5 DEF Sleep, SpuriousWake, SetNotRunning, WakeAllThreads, Notified,
              LocalHasNext, bufferVars
<1>6. CASE UNCHANGED vars
  BY <1>6 DEF vars, bufferVars, LocalHasNext
<1>7. QED
  BY <1>1, <1>2, <1>3, <1>4, <1>5, <1>6 DEF Next, SendThread

(* Steps that leave the buffers and what is sent alone, and neither enter  *)
(* nor leave the places where an output is taken, keep the order.          *)
LEMMA KeepOrdered ==
  ASSUME Ordered, UNCHANGED <<bufferVars, storePacket, files, arrivals, sent>>,
         ~Taking, ~Taking', sendOutput # None => pc' \in {"ready", "sending", "stopped"}
  PROVE  Ordered'
<1>1. SerialIsNext'
  BY DEF Ordered, SerialIsNext, bufferVars
<1>2. LocalSorted'
  BY DEF Ordered, LocalSorted, Taking, bufferVars
<1>3. BuffersAhead' /\ BuffersApart' /\ AllArrived'
  BY DEF Ordered, BuffersAhead, BuffersApart, AllArrived, bufferVars
<1>4. QED
  BY <1>1, <1>2, <1>3 DEF Ordered

(* An output that arrives has a serial number not passed yet.              *)
LEMMA ArriveOrdered ==
  ASSUME TypeOK, Ordered, NEW s \in Serials, ReceiveOutput(s)
  PROVE  Ordered'
<1>1. s \in Nat /\ s >= serial
  <2>1. s \in Nat /\ s >= 1
    BY ProxySendAssumption DEF Serials
  <2>2. s \notin 1 .. serial - 1
    BY DEF ReceiveOutput, Ordered, AllArrived
  <2>3. QED
    BY <2>1, <2>2 DEF TypeOK
<1>2. ASSUME NEW i \in 1 .. Len(sendBuffer')
      PROVE  sendBuffer'[i] = s \/ \E j \in 1 .. Len(sendBuffer) : sendBuffer'[i] = sendBuffer[j]
  <2>1. sendBuffer' = Append(sendBuffer, s) \/ sendBuffer' = <<s>> \o sendBuffer
    BY DEF ReceiveOutput, Insert
  <2>2. CASE sendBuffer' = Append(sendBuffer, s)
    BY <2>2 DEF TypeOK
  <2>3. CASE sendBuffer' = <<s>> \o sendBuffer
    <3>1. i = 1 \/ i - 1 \in 1 .. Len(sendBuffer)
      BY <2>3 DEF TypeOK
    <3>2. i # 1 => sendBuffer'[i] = sendBuffer[i - 1]
      BY <2>3, <3>1 DEF TypeOK
    <3>3. i = 1 => sendBuffer'[i] = s
      BY <2>3 DEF TypeOK
    <3>4. QED
      BY <3>1, <3>2, <3>3
  <2>4. QED
    BY <2>1, <2>2, <2>3
<1>3. ToSet(arrivals) \cup {s} \subseteq ToSet(arrivals')
  <2>1. arrivals \in Seq(Serials) /\ arrivals' = Append(arrivals, s)
    BY DEF TypeOK, ReceiveOutput
  <2>2. QED
    BY <2>1 DEF ToSet
<1>4. /\ UNCHANGED <<serial, localBuffer, sendOutput, storePacket, files, sent>>
      /\ pc' = pc \/ (pc = "waiting" /\ pc' = "locking")
  BY DEF ReceiveOutput, Notified, storeVars
<1>5. SerialIsNext' /\ LocalSorted'
  BY <1>4 DEF Ordered, SerialIsNext, LocalSorted, Taking
<1>6. BuffersAhead'
  BY <1>1, <1>2, <1>4 DEF Ordered, BuffersAhead, Taking, TypeOK
<1>7. BuffersApart'
  <2>1. \A i \in 1 .. Len(localBuffer) : localBuffer[i] # s
    BY DEF Ordered, AllArrived, ReceiveOutput
  <2>2. QED
    BY <1>2, <1>4, <2>1 DEF Ordered, BuffersApart
<1>8. AllArrived'
  BY <1>2, <1>3, <1>4 DEF Ordered, AllArrived
<1>9. QED
  BY <1>4, <1>5, <1>6, <1>7, <1>8 DEF Ordered

(* Moving the whole send buffer, whose front is the next output, keeps     *)
(* everything in the buffers at or above that output.                      *)
LEMMA SpliceOrdered ==
  ASSUME TypeOK, Ordered, pc = "locking",
         NextInSendBuffer, Splice,
         UNCHANGED <<sendOutput, storePacket, files, arrivals, sent>>
  PROVE  Ordered'
<1>1. /\ serial' = serial + 1 /\ sendBuffer' = <<>> /\ pc' = "sorting"
      /\ localBuffer' = sendBuffer \o localBuffer
      /\ serial \in Nat
  BY DEF Splice, TypeOK
<1>2. /\ sendBuffer \in Seq(Serials) /\ localBuffer \in Seq(Serials)
      /\ sendBuffer # <<>> /\ sendBuffer[1] = serial
  BY DEF TypeOK, NextInSendBuffer
<1>3. ASSUME NEW i \in 1 .. Len(localBuffer')
      PROVE  \/ \E k \in 1 .. Len(sendBuffer) : localBuffer'[i] = sendBuffer[k]
             \/ \E k \in 1 .. Len(localBuffer) : localBuffer'[i] = localBuffer[k]
  <2>1. CASE i <= Len(sendBuffer)
    BY <1>1, <1>2, <2>1
  <2>2. CASE i > Len(sendBuffer)
    <3>1. i - Len(sendBuffer) \in 1 .. Len(localBuffer)
      BY <1>1, <1>2, <2>2
    <3>2. localBuffer'[i] = localBuffer[i - Len(sendBuffer)]
      BY <1>1, <1>2, <2>2
    <3>3. QED
      BY <3>1, <3>2, SMTT(60)
  <2>3. QED
    BY <1>1, <1>2, <2>1, <2>2
<1>4. SerialIsNext'
  <2>1. sendOutput = None /\ ~Taking
    BY DEF Ordered, SerialIsNext, Taking
  <2>2. QED
    BY <1>1, <2>1 DEF Ordered, SerialIsNext, Taking, TypeOK
<1>5. LocalSorted'
  BY <1>1 DEF LocalSorted
<1>6. BuffersAhead'
  <2>1. \A i \in 1 .. Len(localBuffer') : localBuffer'[i] >= serial
    BY <1>3 DEF Ordered, BuffersAhead, Taking
  <2>2. QED
    BY <1>1, <2>1 DEF BuffersAhead, Taking
<1>7. BuffersApart'
  BY <1>1 DEF BuffersApart
<1>8. AllArrived'
  <2>1. serial \in ToSet(arrivals)
    BY <1>2 DEF Ordered, AllArrived
  <2>2. \A n \in 1 .. serial' - 1 : n \in 1 .. serial - 1 \/ n = serial
    BY <1>1
  <2>3. QED
    BY <1>1, <1>3, <2>1, <2>2 DEF Ordered, AllArrived
<1>9. QED
  BY <1>4, <1>5, <1>6, <1>7, <1>8 DEF Ordered

(* Looking into the buffers keeps the order. *)
LEMMA CheckOrdered ==
  ASSUME TypeOK, Ordered, CheckLocalBuffer \/ CheckSendBuffer
  PROVE  Ordered'
<1>1. /\ pc = "locking"
      /\ UNCHANGED <<sendOutput, storePacket, files, arrivals, sent>>
  BY DEF CheckLocalBuffer, CheckSendBuffer, storeVars
<1>2. sendOutput = None /\ ~Taking
  BY <1>1 DEF Ordered, SerialIsNext, Taking
<1>3. CASE NextInSendBuffer /\ Splice
  BY <1>1, <1>3, SpliceOrdered
<1>4. CASE pc' \in {"ready", "sending", "blocking"} /\ UNCHANGED <<serial, sendBuffer, localBuffer>>
  BY <1>1, <1>2, <1>4, KeepOrdered DEF Taking, bufferVars
<1>5. CASE /\ localBuffer # <<>> /\ Head(localBuffer) = serial
           /\ serial' = serial + 1 /\ pc' = "moving"
           /\ UNCHANGED <<sendBuffer, localBuffer>>
  <2>1. localBuffer \in Seq(Serials) /\ localBuffer[1] = serial /\ serial \in Nat
    BY <1>5 DEF TypeOK
  <2>2. 1 \in 1 .. Len(localBuffer)
    BY <1>5, <2>1
  <2>3. SerialIsNext'
    BY <1>1, <1>2, <1>5, <2>1 DEF Ordered, SerialIsNext, Taking, TypeOK
  <2>4. LocalSorted'
    BY <1>1, <1>5 DEF Ordered, LocalSorted
  <2>5. BuffersAhead'
    <3>1. \A i \in 1 .. Len(sendBuffer) : sendBuffer[i] \in Nat
      BY ProxySendAssumption DEF TypeOK, Serials
    <3>2. \A i \in 1 .. Len(sendBuffer) : sendBuffer[i] # serial /\ sendBuffer[i] >= serial
      BY <2>1, <2>2 DEF Ordered, BuffersApart, BuffersAhead
    <3>3. \A i \in 1 .. Len(sendBuffer) : sendBuffer[i] >= serial + 1
      BY <2>1, <3>1, <3>2
    <3>4. QED
      BY <1>2, <1>5, <2>1, <3>3 DEF Ordered, BuffersAhead, Taking
  <2>6. BuffersApart'
    BY <1>5 DEF Ordered, BuffersApart
  <2>7. AllArrived'
    <3>1. serial \in ToSet(arrivals)
      BY <2>1, <2>2 DEF Ordered, AllArrived
    <3>2. \A n \in 1 .. serial' - 1 : n \in 1 .. serial - 1 \/ n = serial
      BY <1>5, <2>1
    <3>3. QED
      BY <1>1, <1>5, <3>1, <3>2 DEF Ordered, AllArrived
  <2>8. QED
    BY <1>1, <2>3, <2>4, <2>5, <2>6, <2>7 DEF Ordered
<1>6. QED
  BY <1>3, <1>4, <1>5 DEF CheckLocalBuffer, CheckSendBuffer

(* Taking the front p[1] of the sorted outputs p, which is the one the     *)
(* thread has been waiting for, leaves later ones only.                    *)
LEMMA TakeOrdered ==
  ASSUME TypeOK, Ordered, Taking, NEW p \in Seq(Serials), p # <<>>,
         ToSet(p) = ToSet(localBuffer),
         \A i, j \in 1 .. Len(p) : i < j => p[i] < p[j],
         p[1] = serial - 1,
         sendOutput' = Head(p), localBuffer' = Tail(p), pc' = "sending",
         UNCHANGED <<serial, sendBuffer, storePacket, files, arrivals, sent>>
  PROVE  Ordered'
<1>1. /\ Len(localBuffer') = Len(p) - 1
      /\ \A i \in 1 .. Len(localBuffer') : localBuffer'[i] = p[i + 1] /\ i + 1 \in 1 .. Len(p)
  <2>1. Len(p) \in Nat /\ Len(p) # 0 /\ Len(Tail(p)) = Len(p) - 1
    OBVIOUS
  <2>2. \A i \in 1 .. Len(p) - 1 : i + 1 \in 1 .. Len(p) /\ Tail(p)[i] = p[i + 1]
    BY <2>1
  <2>3. QED
    BY <2>1, <2>2
<1>2. \A i \in 1 .. Len(p) : p[i] \in Nat
  BY ProxySendAssumption DEF Serials
<1>3. \A i \in 1 .. Len(p) : \E j \in 1 .. Len(localBuffer) : p[i] = localBuffer[j]
  BY SameElements DEF TypeOK
<1>4. SerialIsNext'
  <2>1. sendOutput' = serial - 1 /\ serial = Len(sent) + 2 /\ Len(sent) \in Nat
    BY DEF Ordered, SerialIsNext, TypeOK
  <2>2. sendOutput' # None
    BY <2>1 DEF None
  <2>3. QED
    BY <2>1, <2>2 DEF SerialIsNext, Taking
<1>5. LocalSorted'
  <2>1. SUFFICES ASSUME NEW i \in 1 .. Len(localBuffer'), NEW j \in 1 .. Len(localBuffer'), i < j
                 PROVE  localBuffer'[i] < localBuffer'[j]
    BY DEF LocalSorted
  <2>2. i + 1 \in 1 .. Len(p) /\ j + 1 \in 1 .. Len(p) /\ i + 1 < j + 1
    BY <1>1, <2>1
  <2>3. QED
    BY <1>1, <2>2
<1>6. BuffersAhead'
  <2>1. \A i \in 1 .. Len(sendBuffer) : sendBuffer[i] >= serial
    BY DEF Ordered, BuffersAhead
  <2>2. ASSUME NEW i \in 1 .. Len(localBuffer') PROVE localBuffer'[i] >= serial
    <3>1. i + 1 \in 1 .. Len(p) /\ 1 \in 1 .. Len(p) /\ 1 < i + 1 /\ localBuffer'[i] = p[i + 1]
      BY <1>1
    <3>2. p[1] < p[i + 1] /\ p[i + 1] \in Nat
      BY <1>2, <3>1
    <3>3. QED
      BY <3>1, <3>2 DEF TypeOK
  <2>3. QED
    BY <2>1, <2>2 DEF BuffersAhead, Taking
<1>7. BuffersApart'
  BY <1>1, <1>3 DEF Ordered, BuffersApart
<1>8. AllArrived'
  BY <1>1, <1>3 DEF Ordered, AllArrived
<1>9. QED
  BY <1>4, <1>5, <1>6, <1>7, <1>8 DEF Ordered

(* The front of a sorted sequence is the least element. *)
LEMMA SortedFront ==
  ASSUME NEW p \in Seq(Serials), NEW q \in Seq(Serials), ToSet(p) = ToSet(q),
         \A i, j \in 1 .. Len(p) : i < j => p[i] < p[j],
         NEW n \in Int, NEW k \in 1 .. Len(q), q[k] = n,
         \A i \in 1 .. Len(q) : q[i] >= n
  PROVE  p # <<>> /\ p[1] = n
<1>1. PICK m \in 1 .. Len(p) : q[k] = p[m]
  <2>1. \A i \in 1 .. Len(q) : \E j \in 1 .. Len(p) : q[i] = p[j]
    BY SameElements
  <2>2. QED
    BY <2>1
<1>2. 1 \in 1 .. Len(p) /\ p # <<>>
  BY <1>1
<1>3. PICK l \in 1 .. Len(q) : p[1] = q[l]
  <2>1. \A i \in 1 .. Len(p) : \E j \in 1 .. Len(q) : p[i] = q[j]
    BY SameElements
  <2>2. QED
    BY <1>2, <2>1
<1>4. p[1] \in Nat /\ p[m] \in Nat
  BY <1>2, ProxySendAssumption DEF Serials
<1>5. m = 1 \/ p[1] < p[m]
  BY <1>2
<1>6. QED
  BY <1>1, <1>2, <1>3, <1>4, <1>5

(* The front of the sorted local buffer is the output awaited: it is in    *)
(* the buffer, and nothing below it is.                                    *)
LEMMA SortOrdered ==
  ASSUME TypeOK, LocalHasNext, Ordered, Sort
  PROVE  Ordered'
<1>1. PICK p \in Sorted(localBuffer) : sendOutput' = Head(p) /\ localBuffer' = Tail(p)
  BY DEF Sort
<1>2. localBuffer \in Seq(Serials) /\ p \in Seq(Serials) /\ Len(p) = Len(localBuffer)
  BY SortedType DEF TypeOK
<1>3. /\ ToSet(p) = ToSet(localBuffer)
      /\ \A i, j \in 1 .. Len(p) : i < j => p[i] < p[j]
  BY <1>2 DEF Sorted
<1>4. PICK k \in 1 .. Len(localBuffer) : localBuffer[k] = serial - 1
  BY DEF Sort, LocalHasNext
<1>5. \A i \in 1 .. Len(localBuffer) : localBuffer[i] >= serial - 1
  <2>1. Taking
    BY DEF Taking, Sort
  <2>2. QED
    BY <2>1 DEF Ordered, BuffersAhead
<1>6. serial - 1 \in Int
  BY DEF TypeOK
<1>7. p # <<>> /\ p[1] = serial - 1
  BY <1>2, <1>3, <1>4, <1>5, <1>6, SortedFront
<1>8. QED
  BY <1>1, <1>2, <1>3, <1>7, TakeOrdered DEF Sort, Taking, storeVars

(* The front of a local buffer that is sorted already is taken as it is. *)
LEMMA MoveOrdered ==
  ASSUME TypeOK, LocalHasNext, Ordered, Move
  PROVE  Ordered'
<1>1. localBuffer \in Seq(Serials) /\ localBuffer # <<>> /\ localBuffer[1] = serial - 1
  BY DEF Move, LocalHasNext, TypeOK
<1>2. \A i, j \in 1 .. Len(localBuffer) : i < j => localBuffer[i] < localBuffer[j]
  BY DEF Move, Ordered, LocalSorted
<1>3. QED
  BY <1>1, <1>2, TakeOrdered DEF Move, Taking, storeVars

(* Sending the output in hand, the next after all those sent. *)
LEMMA SendOrdered ==
  ASSUME TypeOK, Ordered, SendSucceeds
  PROVE  Ordered'
<1>1. /\ storePacket = None /\ sendOutput # None
      /\ sent' = Append(sent, sendOutput) /\ sendOutput' = None
      /\ pc = "sending" /\ storePacket' = storePacket
      /\ UNCHANGED <<serial, sendBuffer, localBuffer, files, pc, arrivals>>
  BY DEF SendSucceeds, Ordered
<1>2. sendOutput = Len(sent) + 1 /\ serial = Len(sent) + 2 /\ sent \in Seq(Serials)
  BY <1>1 DEF Ordered, SerialIsNext, TypeOK
<1>3. \A i \in 1 .. Len(sent') : sent'[i] = i
  <2>1. SUFFICES ASSUME NEW i \in 1 .. Len(sent') PROVE sent'[i] = i
    OBVIOUS
  <2>2. CASE i \in 1 .. Len(sent)
    BY <1>1, <1>2, <2>2 DEF Ordered
  <2>3. CASE i = Len(sent) + 1
    BY <1>1, <1>2, <2>3
  <2>4. QED
    BY <1>1, <1>2, <2>2, <2>3
<1>4. SerialIsNext'
  <2>1. Len(sent') = Len(sent) + 1
    BY <1>1, <1>2
  <2>2. QED
    BY <1>1, <1>2, <2>1 DEF SerialIsNext, Taking
<1>5. LocalSorted' /\ BuffersAhead' /\ BuffersApart' /\ AllArrived'
  BY <1>1 DEF Ordered, LocalSorted, BuffersAhead, BuffersApart, AllArrived, Taking
<1>6. QED
  BY <1>1, <1>3, <1>4, <1>5 DEF Ordered

(* Without store and forward every step keeps the order. *)
LEMMA NextOrdered ==
  ASSUME TypeOK, LocalHasNext, Ordered, ~storeAndForward, [Next]_vars
  PROVE  Ordered'
<1>1. ASSUME NEW s \in Serials, ReceiveOutput(s) \/ StoreOutput(s) PROVE Ordered'
  BY <1>1, ArriveOrdered DEF StoreOutput
<1>2. CASE CheckLocalBuffer \/ CheckSendBuffer
  BY <1>2, CheckOrdered
<1>3. CASE Move
  BY <1>3, MoveOrdered
<1>4. CASE Sort
  BY <1>4, SortOrdered
<1>5. CASE SendSucceeds
  BY <1>5, SendOrdered
<1>6. CASE ReadFile
  BY <1>6 DEF ReadFile, Ordered
<1>7. CASE PeerReady \/ NothingInHand \/ SendFails
  <2>1. /\ UNCHANGED <<bufferVars, storePacket, files, arrivals, sent>>
        /\ ~Taking /\ ~Taking'
        /\ sendOutput # None => pc' \in {"ready", "sending", "stopped"}
    BY <1>7 DEF PeerReady, NothingInHand, SendFails, InHand, Taking, storeVars
  <2>2. QED
    BY <2>1, KeepOrdered
<1>8. CASE Quit \/ Sleep \/ SpuriousWake
  <2>1. /\ UNCHANGED <<bufferVars, storePacket, files, arrivals, sent>>
        /\ ~Taking /\ ~Taking' /\ sendOutput = None
    BY <1>8 DEF Quit, Sleep, SpuriousWake, Taking, storeVars, Ordered, SerialIsNext
  <2>2. QED
    BY <2>1, KeepOrdered
<1>9. CASE SetNotRunning \/ WakeAllThreads \/ UNCHANGED vars
  <2>1. /\ UNCHANGED <<bufferVars, storePacket, files, arrivals, sent>>
        /\ pc' = pc \/ (pc = "waiting" /\ pc' = "locking")
    BY <1>9 DEF SetNotRunning, WakeAllThreads, Notified, storeVars, vars
  <2>2. SerialIsNext' /\ LocalSorted'
    BY <2>1 DEF Ordered, SerialIsNext, LocalSorted, Taking, bufferVars
  <2>3. BuffersAhead' /\ BuffersApart' /\ AllArrived'
    BY <2>1 DEF Ordered, BuffersAhead, BuffersApart, AllArrived, Taking, bufferVars
  <2>4. QED
    BY <2>1, <2>2, <2>3 DEF Ordered
<1>10. QED
  BY <1>1, <1>2, <1>3, <1>4, <1>5, <1>6, <1>7, <1>8, <1>9 DEF Next, SendThread

----------------------------------------------------------------------------
(* What is in the buffers and what has arrived, on an ordered path.        *)

(* The bounds of Ordered, for the elements of the sequences. *)
LEMMA OrderedSets ==
  ASSUME TypeOK, Ordered
  PROVE  /\ \A n \in ToSet(sendBuffer) : n >= serial /\ n \in ToSet(arrivals)
         /\ \A n \in ToSet(localBuffer) : /\ n >= (IF Taking THEN serial - 1 ELSE serial)
                                          /\ n \in ToSet(arrivals)
         /\ ToSet(localBuffer) \cap ToSet(sendBuffer) = {}
<1>1. /\ \A x : x \in ToSet(sendBuffer) <=> \E i \in 1 .. Len(sendBuffer) : x = sendBuffer[i]
      /\ \A x : x \in ToSet(localBuffer) <=> \E i \in 1 .. Len(localBuffer) : x = localBuffer[i]
  BY InSet DEF TypeOK
<1>2. QED
  BY <1>1 DEF Ordered, BuffersAhead, BuffersApart, AllArrived

(* An output received is in the send buffer, once. *)
LEMMA ReceiveAccounted ==
  ASSUME TypeOK, Ordered, Accounted, NEW s \in Serials, ReceiveOutput(s)
  PROVE  Accounted'
<1>1. s \notin ToSet(sendBuffer)
  BY OrderedSets DEF ReceiveOutput
<1>2. /\ arrivals' = Append(arrivals, s)
      /\ ToSet(Append(arrivals, s)) = ToSet(arrivals) \cup {s}
  <2>1. arrivals \in Seq(Serials) /\ arrivals' = Append(arrivals, s)
    BY DEF TypeOK, ReceiveOutput
  <2>2. ToSet(Append(arrivals, s)) = ToSet(arrivals) \cup {s}
    BY <2>1, OfAppend
  <2>3. QED
    BY <2>1, <2>2
<1>3. sendBuffer \in Seq(Serials) /\ IsInjective(sendBuffer)
  BY DEF TypeOK, Accounted
<1>4. /\ IsInjective(Append(sendBuffer, s))
      /\ ToSet(Append(sendBuffer, s)) = ToSet(sendBuffer) \cup {s}
  BY <1>1, <1>3, OfAppend
<1>5. /\ IsInjective(<<s>> \o sendBuffer)
      /\ ToSet(<<s>> \o sendBuffer) = ToSet(sendBuffer) \cup {s}
  <2>1. <<s>> \in Seq(Serials) /\ ToSet(<<s>>) = {s} /\ IsInjective(<<s>>)
    BY OfOne
  <2>2. /\ ToSet(<<s>> \o sendBuffer) = ToSet(<<s>>) \cup ToSet(sendBuffer)
        /\ IsInjective(<<s>> \o sendBuffer) <=>
             /\ IsInjective(<<s>>) /\ IsInjective(sendBuffer)
             /\ ToSet(<<s>>) \cap ToSet(sendBuffer) = {}
    BY <1>3, <2>1, OfConcat
  <2>3. ToSet(<<s>>) \cap ToSet(sendBuffer) = {}
    BY <1>1, <2>1
  <2>4. QED
    BY <1>3, <2>1, <2>2, <2>3
<1>6. sendBuffer' = Append(sendBuffer, s) \/ sendBuffer' = <<s>> \o sendBuffer
  BY DEF ReceiveOutput, Insert
<1>7. IsInjective(sendBuffer') /\ ToSet(sendBuffer') = ToSet(sendBuffer) \cup {s}
  BY <1>4, <1>5, <1>6, Zenon
<1>8. ToSet(arrivals') = ToSet(arrivals) \cup {s}
  BY <1>2, Zenon
<1>9. serial' = serial /\ localBuffer' = localBuffer
  BY DEF ReceiveOutput
<1>10. QED
  BY <1>7, <1>8, <1>9 DEF Accounted

(* The outputs moved to the local buffer stay in one buffer. *)
LEMMA SpliceAccounted ==
  ASSUME TypeOK, Ordered, Accounted, Splice, UNCHANGED arrivals
  PROVE  Accounted'
<1>1. /\ localBuffer' = sendBuffer \o localBuffer /\ sendBuffer' = <<>>
      /\ serial' = serial + 1
  BY DEF Splice
<1>2. /\ ToSet(sendBuffer \o localBuffer) = ToSet(sendBuffer) \cup ToSet(localBuffer)
      /\ IsInjective(sendBuffer \o localBuffer) <=>
           /\ IsInjective(sendBuffer) /\ IsInjective(localBuffer)
           /\ ToSet(sendBuffer) \cap ToSet(localBuffer) = {}
  BY OfConcat DEF TypeOK
<1>3. ToSet(sendBuffer) \cap ToSet(localBuffer) = {}
  BY OrderedSets
<1>4. IsInjective(localBuffer') /\ ToSet(localBuffer') = ToSet(sendBuffer) \cup ToSet(localBuffer)
  BY <1>1, <1>2, <1>3 DEF Accounted
<1>5. IsInjective(sendBuffer')
  BY <1>1, OfNone
<1>6. \A n \in ToSet(arrivals) : n \in Nat /\ (n < serial => n < serial + 1)
  <2>1. ToSet(arrivals) \subseteq Serials
    BY InSet DEF TypeOK
  <2>2. QED
    BY <2>1, ProxySendAssumption DEF TypeOK, Serials
<1>7. QED
  BY <1>1, <1>4, <1>5, <1>6 DEF Accounted

(* Taking the front p[1] of the outputs p, which is serial - 1.            *)
LEMMA TakeAccounted ==
  ASSUME TypeOK, Accounted, NEW p \in Seq(Serials), p # <<>>, IsInjective(p),
         ToSet(p) = ToSet(localBuffer), Head(p) = serial - 1, localBuffer' = Tail(p),
         UNCHANGED <<serial, sendBuffer, arrivals>>
  PROVE  Accounted'
<1>1. /\ ToSet(p) = {Head(p)} \cup ToSet(Tail(p))
      /\ IsInjective(p) => IsInjective(Tail(p))
  BY OfTail
<1>2. Head(p) < serial
  BY DEF TypeOK
<1>3. QED
  BY <1>1, <1>2 DEF Accounted

(* The output a thread takes out of the local buffer is the one before     *)
(* serial, for so it is in the state the step leads to.                    *)
LEMMA TakenIsNext ==
  ASSUME TypeOK, Ordered', NEW p \in Seq(Serials), p # <<>>,
         sendOutput' = Head(p), UNCHANGED serial
  PROVE  Head(p) = serial - 1
<1>1. Head(p) \in Serials
  OBVIOUS
<1>2. sendOutput' # None
  BY <1>1, ProxySendAssumption DEF Serials, None
<1>3. QED
  BY <1>2 DEF Ordered, SerialIsNext

(* The output moved out of the local buffer has been passed. *)
LEMMA MoveAccounted ==
  ASSUME TypeOK, LocalHasNext, Ordered', Accounted, Move
  PROVE  Accounted'
<1>1. /\ localBuffer \in Seq(Serials) /\ localBuffer # <<>>
      /\ sendOutput' = Head(localBuffer) /\ localBuffer' = Tail(localBuffer)
      /\ UNCHANGED <<serial, sendBuffer, arrivals>>
  BY DEF TypeOK, LocalHasNext, Move
<1>2. Head(localBuffer) = serial - 1
  BY <1>1, TakenIsNext
<1>3. IsInjective(localBuffer)
  BY DEF Accounted
<1>4. QED
  BY <1>1, <1>2, <1>3, TakeAccounted

(* Sorting loses no output. *)
LEMMA SortAccounted ==
  ASSUME TypeOK, LocalHasNext, Ordered', Accounted, Sort
  PROVE  Accounted'
<1>1. PICK p \in Sorted(localBuffer) : sendOutput' = Head(p) /\ localBuffer' = Tail(p)
  BY DEF Sort
<1>2. localBuffer \in Seq(Serials) /\ p \in Seq(Serials) /\ Len(p) = Len(localBuffer)
  BY SortedType DEF TypeOK
<1>3. p # <<>>
  <2>1. Len(localBuffer) # 0
    BY DEF Sort, LocalHasNext, TypeOK
  <2>2. QED
    BY <1>2, <2>1
<1>4. ToSet(p) = ToSet(localBuffer) /\ \A i, j \in 1 .. Len(p) : i < j => p[i] < p[j]
  BY <1>2 DEF Sorted
<1>5. IsInjective(p)
  <2>1. SUFFICES ASSUME NEW i \in 1 .. Len(p), NEW j \in 1 .. Len(p), p[i] = p[j], i # j
                 PROVE  FALSE
    BY <1>2, InjectiveSeq
  <2>2. p[i] < p[j] \/ p[j] < p[i]
    BY <1>4, <2>1
  <2>3. p[i] \in Nat
    BY <1>2, ProxySendAssumption DEF Serials
  <2>4. QED
    BY <2>1, <2>2, <2>3
<1>6. UNCHANGED <<serial, sendBuffer, arrivals>>
  BY DEF Sort
<1>7. Head(p) = serial - 1
  BY <1>1, <1>2, <1>3, <1>6, TakenIsNext
<1>8. QED
  BY <1>1, <1>2, <1>3, <1>4, <1>5, <1>6, <1>7, TakeAccounted

(* On an ordered path every step keeps account of the outputs.             *)
LEMMA NextAccounted ==
  ASSUME TypeOK, LocalHasNext, Ordered, Ordered', Accounted, ~storeAndForward, [Next]_vars
  PROVE  Accounted'
<1>1. ASSUME NEW s \in Serials, ReceiveOutput(s) \/ StoreOutput(s) PROVE Accounted'
  BY <1>1, ReceiveAccounted DEF StoreOutput
<1>2. CASE Move
  BY <1>2, MoveAccounted
<1>3. CASE Sort
  BY <1>3, SortAccounted
<1>4. CASE CheckLocalBuffer \/ CheckSendBuffer
  <2>1. UNCHANGED arrivals
    BY <1>4 DEF CheckLocalBuffer, CheckSendBuffer
  <2>2. CASE Splice
    BY <2>1, <2>2, SpliceAccounted
  <2>3. CASE serial' \in {serial, serial + 1} /\ UNCHANGED <<sendBuffer, localBuffer>>
    <3>1. ToSet(arrivals) \subseteq Serials
      BY InSet DEF TypeOK
    <3>2. \A n \in ToSet(arrivals) : n < serial => n < serial'
      BY <2>3, <3>1, ProxySendAssumption DEF TypeOK, Serials
    <3>3. QED
      BY <2>1, <2>3, <3>2 DEF Accounted
  <2>4. QED
    BY <1>4, <2>2, <2>3 DEF CheckLocalBuffer, CheckSendBuffer
<1>5. CASE PeerReady \/ NothingInHand \/ SendSucceeds \/ SendFails \/ Quit \/ ReadFile
  <2>1. UNCHANGED <<serial, sendBuffer, localBuffer, arrivals>>
    BY <1>5 DEF PeerReady, NothingInHand, SendSucceeds, SendFails, Quit, ReadFile, bufferVars
  <2>2. QED
    BY <2>1 DEF Accounted
<1>6. CASE Sleep \/ SpuriousWake \/ SetNotRunning \/ WakeAllThreads \/ UNCHANGED vars
  <2>1. UNCHANGED <<serial, sendBuffer, localBuffer, arrivals>>
    BY <1>6 DEF Sleep, SpuriousWake, SetNotRunning, WakeAllThreads, bufferVars, vars
  <2>2. QED
    BY <2>1 DEF Accounted
<1>7. QED
  BY <1>1, <1>2, <1>3, <1>4, <1>5, <1>6 DEF Next, SendThread

----------------------------------------------------------------------------
(* A path with files.                                                      *)

(* Where the next output goes: at the end of the file being written, or,   *)
(* with it, at the end of the files.                                       *)
LEMMA AppendLast ==
  \A a, b, c \in Seq(Serials), x \in Serials :
    (a \o (b \o Append(c, x))) \o <<>> = Append((a \o b) \o c, x)
<1> SUFFICES ASSUME NEW p \in Seq(Serials), NEW q \in Seq(Serials),
                    NEW r \in Seq(Serials), NEW x \in Serials
             PROVE  (p \o (q \o Append(r, x))) \o <<>> = Append((p \o q) \o r, x)
  OBVIOUS
<1>1. p \o q \in Seq(Serials) /\ q \o r \in Seq(Serials) /\ Append(r, x) \in Seq(Serials)
  OBVIOUS
<1>2. \A a, b \in Seq(Serials) : a \o Append(b, x) = Append(a \o b, x)
  OBVIOUS
<1>3. p \o (q \o r) = (p \o q) \o r
  BY Associative, SMTT(60)
<1>4. (p \o (q \o Append(r, x))) \o <<>> = p \o (q \o Append(r, x))
  OBVIOUS
<1>5. q \o Append(r, x) = Append(q \o r, x) /\ p \o Append(q \o r, x) = Append(p \o (q \o r), x)
  BY <1>1, <1>2, Zenon
<1>6. QED
  BY <1>3, <1>4, <1>5, Zenon

(* The first segment of a file is taken in hand. *)
LEMMA TakeFirst ==
  \A p, q, r \in Seq(Serials), y \in Serials :
    (p \o <<y>>) \o (q \o r) = (p \o <<>>) \o ((<<y>> \o q) \o r)
<1> SUFFICES ASSUME NEW p \in Seq(Serials), NEW q \in Seq(Serials),
                    NEW r \in Seq(Serials), NEW y \in Serials
             PROVE  (p \o <<y>>) \o (q \o r) = (p \o <<>>) \o ((<<y>> \o q) \o r)
  OBVIOUS
<1>1. <<y>> \in Seq(Serials) /\ q \o r \in Seq(Serials)
  OBVIOUS
<1>2. p \o <<>> = p
  OBVIOUS
<1>3. \A a, b, c \in Seq(Serials) : a \o (b \o c) = (a \o b) \o c
  <2> SUFFICES ASSUME NEW a \in Seq(Serials), NEW b \in Seq(Serials), NEW c \in Seq(Serials)
               PROVE  a \o (b \o c) = (a \o b) \o c
    OBVIOUS
  <2> QED
    BY Associative, SMTT(60)
<1>4. p \o (<<y>> \o (q \o r)) = (p \o <<y>>) \o (q \o r)
  BY <1>1, <1>3, Zenon
<1>5. <<y>> \o (q \o r) = (<<y>> \o q) \o r
  BY <1>1, <1>3, Zenon
<1>6. QED
  BY <1>2, <1>4, <1>5, Zenon

(* An output stored comes last. *)
LEMMA StoreStored ==
  ASSUME TypeOK, Stored, NEW s \in Serials, StoreOutput(s)
  PROVE  Stored'
<1>1. PICK h \in Seq(Serials) : h = IF storePacket = None THEN <<>> ELSE <<storePacket>>
  <2>1. storePacket # None => <<storePacket>> \in Seq(Serials)
    BY DEF TypeOK
  <2>2. (IF storePacket = None THEN <<>> ELSE <<storePacket>>) \in Seq(Serials)
    BY <2>1, EmptySeq
  <2>3. QED
    BY <2>2
<1>2. PICK f \in Seq(Serials) : f = FlattenSeq(files)
  BY FlattenType DEF TypeOK
<1>3. PICK p \in Seq(Serials) : p = sent \o h
  <2>1. sent \o h \in Seq(Serials)
    BY DEF TypeOK
  <2>2. QED
    BY <2>1
<1>4. storing \in Seq(Serials) /\ Append(storing, s) \in Seq(Serials)
  BY DEF TypeOK
<1>5. arrivals = (p \o f) \o storing
  BY <1>1, <1>2, <1>3 DEF Stored, StoredInOrder, StoreOutput
<1>6. /\ UNCHANGED <<storeAndForward, sendBuffer, localBuffer, sendOutput, storePacket, sent>>
      /\ pc' = pc \/ (pc = "waiting" /\ pc' = "locking")
      /\ arrivals' = Append(arrivals, s)
  BY DEF StoreOutput, Notified, bufferVars
<1>7. sent' \o (IF storePacket' = None THEN <<>> ELSE <<storePacket'>>) = p
  BY <1>1, <1>3, <1>6, Zenon
<1>8. (p \o FlattenSeq(files')) \o storing' = arrivals'
  <2>1. CASE FileFull
    <3>1. files' = Append(files, Append(storing, s)) /\ storing' = <<>>
      BY <2>1 DEF StoreOutput
    <3>2. FlattenSeq(Append(files, Append(storing, s))) = FlattenSeq(files) \o Append(storing, s)
      BY <1>4, FlattenAppend DEF TypeOK
    <3>3. FlattenSeq(files') = f \o Append(storing, s)
      BY <1>2, <3>1, <3>2, Zenon
    <3>4. (p \o (f \o Append(storing, s))) \o <<>> = Append((p \o f) \o storing, s)
      <4>1. \A a, b, c \in Seq(Serials), x \in Serials :
              (a \o (b \o Append(c, x))) \o <<>> = Append((a \o b) \o c, x)
        BY AppendLast
      <4>2. QED
        BY <1>4, <4>1, Zenon
    <3>5. QED
      BY <1>5, <1>6, <3>1, <3>3, <3>4, Zenon
  <2>2. CASE ~FileFull
    <3>1. files' = files /\ storing' = Append(storing, s)
      BY <2>2 DEF StoreOutput
    <3>2. (p \o f) \o Append(storing, s) = Append((p \o f) \o storing, s)
      BY <1>4
    <3>3. QED
      BY <1>2, <1>5, <1>6, <3>1, <3>2, Zenon
  <2>3. QED
    BY <2>1, <2>2
<1>9. StoredInOrder'
  BY <1>7, <1>8, Zenon DEF StoredInOrder
<1>10. QED
  BY <1>6, <1>9 DEF Stored

(* The segment in hand follows those sent. *)
LEMMA SendStored ==
  ASSUME TypeOK, Stored, storeAndForward, SendSucceeds
  PROVE  Stored'
<1>1. /\ storePacket # None /\ sent' = Append(sent, storePacket) /\ storePacket' = None
      /\ UNCHANGED <<storeAndForward, sendBuffer, localBuffer, sendOutput>>
      /\ UNCHANGED <<storing, files, arrivals>>
  BY DEF SendSucceeds, Stored
<1>2. Append(sent, storePacket) \o <<>> = sent \o <<storePacket>>
  BY <1>1 DEF TypeOK
<1>3. ((sent \o <<storePacket>>) \o FlattenSeq(files)) \o storing = arrivals
  BY <1>1 DEF Stored, StoredInOrder
<1>4. ((sent' \o <<>>) \o FlattenSeq(files')) \o storing' = arrivals'
  BY <1>1, <1>2, <1>3, Zenon
<1>5. StoredInOrder'
  BY <1>1, <1>4 DEF StoredInOrder
<1>6. QED
  BY <1>1, <1>5 DEF Stored

(* The segment read follows those sent, or the end of the file shows. *)
LEMMA ReadStored ==
  ASSUME TypeOK, Stored, storeAndForward, ReadFile
  PROVE  Stored'
<1>1. /\ storePacket = None /\ files # <<>> /\ files \in Seq(Seq(Serials))
      /\ UNCHANGED <<storeAndForward, sendBuffer, localBuffer, sendOutput, storing, arrivals, sent>>
  BY DEF ReadFile, Stored, TypeOK, bufferVars
<1>2. /\ Head(files) \in Seq(Serials) /\ Tail(files) \in Seq(Seq(Serials))
      /\ FlattenSeq(files) = Head(files) \o FlattenSeq(Tail(files))
  BY <1>1, TailType, FlattenTail
<1>3. PICK f \in Seq(Serials) : f = FlattenSeq(Tail(files))
  BY <1>2, FlattenType
<1>4. PICK d \in Seq(Serials) : d = Head(files)
  BY <1>2
<1>5. ((sent \o <<>>) \o (d \o f)) \o storing = arrivals
  BY <1>1, <1>2, <1>3, <1>4 DEF Stored, StoredInOrder
<1>6. CASE d # <<>>
  <2>1. /\ storePacket' = Head(d) /\ files' = [files EXCEPT ![1] = Tail(d)]
        /\ pc' = "sending"
    BY <1>1, <1>4, <1>6 DEF ReadFile
  <2>2. /\ Head(d) \in Serials /\ Tail(d) \in Seq(Serials) /\ d = <<Head(d)>> \o Tail(d)
    BY <1>6, OfTail
  <2>3. Head(d) # None
    BY <2>2, ProxySendAssumption DEF Serials, None
  <2>4. /\ files' \in Seq(Seq(Serials)) /\ files' # <<>>
        /\ Head(files') = Tail(d) /\ Tail(files') = Tail(files)
    <3>1. 1 \in 1 .. Len(files)
      BY <1>1
    <3>2. /\ files' \in Seq(Seq(Serials)) /\ Len(files') = Len(files)
          /\ files'[1] = Tail(d) /\ \A i \in 1 .. Len(files) : i # 1 => files'[i] = files[i]
      BY <1>1, <2>1, <2>2, <3>1
    <3>3. files' # <<>> /\ Head(files') = Tail(d)
      BY <3>1, <3>2
    <3>4. Tail(files') = Tail(files)
      BY <1>1, <3>1, <3>2, <3>3, SameTail
    <3>5. QED
      BY <3>2, <3>3, <3>4
  <2>5. FlattenSeq(files') = Tail(d) \o f
    <3>1. FlattenSeq(files') = Head(files') \o FlattenSeq(Tail(files'))
      BY <2>4, FlattenTail
    <3>2. QED
      BY <1>3, <2>4, <3>1, Zenon
  <2>6. (sent \o <<Head(d)>>) \o (Tail(d) \o f) = (sent \o <<>>) \o (d \o f)
    <3>1. \A p, q, r \in Seq(Serials), y \in Serials :
            (p \o <<y>>) \o (q \o r) = (p \o <<>>) \o ((<<y>> \o q) \o r)
      BY TakeFirst
    <3>2. sent \in Seq(Serials)
      BY DEF TypeOK
    <3>3. PICK t \in Seq(Serials), x \in Serials : t = Tail(d) /\ x = Head(d)
      BY <2>2
    <3>4. (sent \o <<x>>) \o (t \o f) = (sent \o <<>>) \o ((<<x>> \o t) \o f)
      BY <3>1, <3>2, Zenon
    <3>5. QED
      BY <2>2, <3>3, <3>4, Zenon
  <2>7. ((sent' \o <<storePacket'>>) \o FlattenSeq(files')) \o storing' = arrivals'
    BY <1>1, <1>5, <2>1, <2>5, <2>6, Zenon
  <2>8. StoredInOrder'
    BY <2>1, <2>3, <2>7 DEF StoredInOrder
  <2>9. QED
    BY <1>1, <2>1, <2>8 DEF Stored
<1>7. CASE d = <<>>
  <2>1. storePacket' = None /\ files' = Tail(files)
    BY <1>1, <1>4, <1>7 DEF ReadFile
  <2>2. <<>> \o f = f
    OBVIOUS
  <2>3. ((sent' \o <<>>) \o FlattenSeq(files')) \o storing' = arrivals'
    BY <1>1, <1>3, <1>5, <1>7, <2>1, <2>2, Zenon
  <2>4. StoredInOrder'
    BY <2>1, <2>3 DEF StoredInOrder
  <2>5. QED
    BY <1>1, <2>1, <2>4 DEF Stored
<1>8. QED
  BY <1>6, <1>7

(* On a path with files every step keeps the stored outputs in order.      *)
LEMMA NextStored ==
  ASSUME TypeOK, LocalHasNext, Stored, storeAndForward, [Next]_vars
  PROVE  Stored'
<1>1. ASSUME NEW s \in Serials, ReceiveOutput(s) \/ StoreOutput(s) PROVE Stored'
  BY <1>1, StoreStored DEF ReceiveOutput
<1>2. CASE SendSucceeds
  BY <1>2, SendStored
<1>3. CASE ReadFile
  BY <1>3, ReadStored
<1>4. CASE Move \/ Sort \/ CheckLocalBuffer
  <2>1. localBuffer = <<>> /\ Len(localBuffer) = 0
    BY DEF Stored
  <2>2. pc # "moving" /\ pc # "sorting"
    BY <2>1 DEF LocalHasNext
  <2>3. QED
    BY <1>4, <2>1, <2>2, Zenon DEF Move, Sort, CheckLocalBuffer
<1>5. ASSUME UNCHANGED <<storeAndForward, sendBuffer, localBuffer, sendOutput,
                         storing, files, storePacket, arrivals, sent>>,
             storePacket # None => pc' \in {"ready", "sending", "stopped"}
      PROVE  Stored'
  <2>1. StoredInOrder'
    BY <1>5 DEF Stored, StoredInOrder
  <2>2. QED
    BY <1>5, <2>1 DEF Stored
<1>6. CASE CheckSendBuffer
  <2>1. ~NextInSendBuffer /\ storePacket = None
    BY <1>6 DEF CheckSendBuffer, NextInSendBuffer, Stored
  <2>2. UNCHANGED <<storeAndForward, sendBuffer, localBuffer, sendOutput,
                    storing, files, storePacket, arrivals, sent>>
    BY <1>6, <2>1 DEF CheckSendBuffer, storeVars
  <2>3. StoredInOrder'
    BY <2>2 DEF Stored, StoredInOrder
  <2>4. QED
    BY <2>1, <2>2, <2>3 DEF Stored
<1>7. CASE PeerReady \/ NothingInHand \/ SendFails \/ Quit
  BY <1>5, <1>7 DEF PeerReady, NothingInHand, SendFails, Quit, InHand, Stored,
                    bufferVars, storeVars
<1>8. CASE Sleep \/ SpuriousWake \/ SetNotRunning \/ WakeAllThreads \/ UNCHANGED vars
  BY <1>5, <1>8 DEF Sleep, SpuriousWake, SetNotRunning, WakeAllThreads, Notified, Stored,
                    bufferVars, storeVars, vars
<1>9. QED
  BY <1>1, <1>2, <1>3, <1>4, <1>6, <1>7, <1>8 DEF Next, SendThread

----------------------------------------------------------------------------
(* The inductive invariant *)

(* Initially nothing has come, and nothing is anywhere. *)
LEMMA InitAccounted == Init => Ordered /\ Accounted
<1> SUFFICES ASSUME Init PROVE Ordered /\ Accounted
  OBVIOUS
<1>1. /\ serial = 1 /\ pc = "ready" /\ sendOutput = None
      /\ Len(sendBuffer) = 0 /\ Len(localBuffer) = 0 /\ Len(sent) = 0
      /\ files = <<>> /\ storePacket = None
  BY DEF Init
<1>2. Ordered
  BY <1>1 DEF Ordered, SerialIsNext, LocalSorted, BuffersAhead, BuffersApart, AllArrived, Taking
<1>3. /\ sendBuffer = <<>> /\ localBuffer = <<>> /\ arrivals = <<>>
      /\ ToSet(<<>>) = {} /\ IsInjective(<<>>)
  BY OfNone DEF Init
<1>4. QED
  BY <1>2, <1>3 DEF Accounted

(* So does it on a path with files. *)
LEMMA InitStored == Init => Stored
<1> SUFFICES ASSUME Init PROVE Stored
  OBVIOUS
<1>1. /\ sent = <<>> /\ storePacket = None /\ files = <<>> /\ storing = <<>>
      /\ arrivals = <<>> /\ sendBuffer = <<>> /\ localBuffer = <<>> /\ sendOutput = None
  BY DEF Init
<1>2. <<>> \o <<>> = <<>> /\ FlattenSeq(<<>>) = <<>>
  BY FlattenNone
<1>3. ((<<>> \o <<>>) \o FlattenSeq(<<>>)) \o <<>> = <<>>
  BY <1>2, Zenon
<1>4. StoredInOrder
  BY <1>1, <1>3 DEF StoredInOrder
<1>5. QED
  BY <1>1, <1>4 DEF Stored

(* The initial states satisfy the inductive invariant. *)
LEMMA InitIInv == Init => IInv
<1> SUFFICES ASSUME Init PROVE IInv
  OBVIOUS
<1>1. LocalHasNext
  BY DEF Init, LocalHasNext
<1>2. IsInjective(arrivals)
  BY OfNone DEF Init
<1>3. QED
  BY <1>1, <1>2, InitTypeOK, InitAccounted, InitStored DEF IInv

(* An output is handed to the path once.                                   *)
LEMMA NextArrivals ==
  ASSUME TypeOK, IsInjective(arrivals), [Next]_vars
  PROVE  IsInjective(arrivals')
<1>1. ASSUME NEW s \in Serials, ReceiveOutput(s) \/ StoreOutput(s)
      PROVE  IsInjective(arrivals')
  <2>1. s \notin ToSet(arrivals) /\ arrivals' = Append(arrivals, s)
    BY <1>1 DEF ReceiveOutput, StoreOutput
  <2>2. IsInjective(Append(arrivals, s)) <=> IsInjective(arrivals) /\ s \notin ToSet(arrivals)
    BY OfAppend DEF TypeOK
  <2>3. QED
    BY <2>1, <2>2
<1>2. CASE UNCHANGED arrivals
  BY <1>2
<1>3. QED
  BY <1>1, <1>2 DEF Next, SendThread, PeerReady, NothingInHand, SendSucceeds, SendFails, Quit,
     ReadFile, CheckLocalBuffer, CheckSendBuffer, Sleep, Move, Sort, SpuriousWake,
     SetNotRunning, WakeAllThreads, vars

(* The mode of a path is never changed.                                    *)
LEMMA SameMode == [Next]_vars => storeAndForward' = storeAndForward
BY DEF Next, SendThread, ReceiveOutput, StoreOutput, PeerReady, NothingInHand, SendSucceeds,
       SendFails, Quit, ReadFile, CheckLocalBuffer, CheckSendBuffer, Sleep, Move, Sort,
       SpuriousWake, SetNotRunning, WakeAllThreads, vars

(* IInv is an invariant of the path. *)
THEOREM Invariance == Spec => []IInv
<1>1. IInv /\ [Next]_vars => IInv'
  <2> SUFFICES ASSUME IInv, [Next]_vars PROVE IInv'
    OBVIOUS
  <2>1. TypeOK' /\ LocalHasNext'
    BY NextTypeOK, NextLocalHasNext DEF IInv
  <2>2. IsInjective(arrivals')
    BY NextArrivals DEF IInv
  <2>3. CASE storeAndForward
    <3>1. TypeOK /\ LocalHasNext /\ Stored
      BY <2>3 DEF IInv
    <3>2. Stored'
      BY <2>3, <3>1, NextStored
    <3>3. QED
      BY <2>1, <2>2, <2>3, <3>2, SameMode DEF IInv
  <2>4. CASE ~storeAndForward
    <3>1. TypeOK /\ LocalHasNext /\ Ordered /\ Accounted
      BY <2>4 DEF IInv
    <3>2. Ordered'
      BY <2>4, <3>1, NextOrdered
    <3>3. Accounted'
      BY <2>4, <3>1, <3>2, NextAccounted
    <3>4. QED
      BY <2>1, <2>2, <2>4, <3>2, <3>3, SameMode DEF IInv
  <2>5. QED
    BY <2>3, <2>4
<1>2. QED
  BY <1>1, InitIInv, PTL DEF Spec

(* TypeOK holds of a path with any number of outputs and files of any size.*)
THEOREM TypeCorrect == Spec => []TypeOK
BY Invariance, PTL DEF IInv

(* Whatever the order in which outputs arrive, and whenever the thread     *)
(* looks at its buffers, a path without store and forward sends the        *)
(* outputs 1, 2, 3, ... in that order.                                     *)
THEOREM OrderedDelivery == Spec => []InOrder
<1>1. IInv => InOrder
  BY DEF IInv, Ordered, InOrder
<1>2. QED
  BY <1>1, Invariance, PTL

----------------------------------------------------------------------------
(* The properties of a path *)

(* A sequence that counts from one. *)
LEMMA Counting ==
  ASSUME NEW q \in Seq(Serials), \A i \in 1 .. Len(q) : q[i] = i
  PROVE  ToSet(q) = 1 .. Len(q) /\ IsInjective(q)
<1>1. ToSet(q) = 1 .. Len(q)
  <2>1. \A x : x \in ToSet(q) <=> \E i \in 1 .. Len(q) : x = q[i]
    BY InSet
  <2>2. QED
    BY <2>1
<1>2. IsInjective(q)
  BY InjectiveSeq
<1>3. QED
  BY <1>1, <1>2

(* What an ordered path has sent or has in hand are the outputs up to the  *)
(* one it last moved out of its buffers.                                   *)
LEMMA PassedOn ==
  ASSUME TypeOK, Ordered,
         NEW h, h = IF sendOutput = None THEN <<>> ELSE <<sendOutput>>
  PROVE  /\ h \in Seq(Serials) /\ sent \o h \in Seq(Serials)
         /\ IsInjective(sent \o h)
         /\ ToSet(sent \o h) = 1 .. (IF Taking THEN serial - 2 ELSE serial - 1)
<1>1. /\ sent \in Seq(Serials) /\ Len(sent) \in Nat
      /\ \A i \in 1 .. Len(sent) : sent[i] = i
  BY DEF TypeOK, Ordered
<1>2. CASE sendOutput = None
  <2>1. h = <<>> /\ sent \o h = sent
    BY <1>1, <1>2
  <2>2. Len(sent) = IF Taking THEN serial - 2 ELSE serial - 1
    BY <1>1, <1>2 DEF TypeOK, Ordered, SerialIsNext
  <2>3. QED
    BY <1>1, <2>1, <2>2, Counting, EmptySeq
<1>3. CASE sendOutput # None
  <2>1. sendOutput \in Serials /\ sendOutput = Len(sent) + 1 /\ ~Taking /\ sendOutput = serial - 1
    BY <1>1, <1>3 DEF TypeOK, Ordered, SerialIsNext
  <2>2. PICK x \in Serials : x = sendOutput
    BY <2>1
  <2>3. /\ h = <<x>> /\ <<x>> \in Seq(Serials) /\ sent \o <<x>> \in Seq(Serials)
        /\ Len(sent \o <<x>>) = Len(sent) + 1
        /\ \A i \in 1 .. Len(sent) : (sent \o <<x>>)[i] = sent[i]
        /\ (sent \o <<x>>)[Len(sent) + 1] = x
    BY <1>1, <1>3, <2>2
  <2>4. \A i \in 1 .. Len(sent \o <<x>>) : (sent \o <<x>>)[i] = i
    BY <1>1, <2>1, <2>2, <2>3
  <2>5. ToSet(sent \o <<x>>) = 1 .. Len(sent \o <<x>>) /\ IsInjective(sent \o <<x>>)
    BY <2>3, <2>4, Counting
  <2>6. Len(sent \o <<x>>) = IF Taking THEN serial - 2 ELSE serial - 1
    BY <1>1, <2>1, <2>3 DEF TypeOK
  <2>7. QED
    BY <2>3, <2>5, <2>6
<1>4. QED
  BY <1>2, <1>3

(* What is sent, in hand and in the buffers is what arrived. *)
LEMMA KeptInOrder ==
  ASSUME TypeOK, LocalHasNext, Ordered, Accounted
  PROVE  EveryOutputKept
<1>1. PICK h : h = IF sendOutput = None THEN <<>> ELSE <<sendOutput>>
  OBVIOUS
<1>2. PICK b : b = IF Taking THEN serial - 2 ELSE serial - 1
  OBVIOUS
<1>3. /\ sent \o h \in Seq(Serials) /\ IsInjective(sent \o h)
      /\ ToSet(sent \o h) = 1 .. b
  BY <1>1, <1>2, PassedOn
<1>4. /\ \A n \in ToSet(sendBuffer) : n >= serial /\ n \in ToSet(arrivals)
      /\ \A n \in ToSet(localBuffer) : /\ n >= (IF Taking THEN serial - 1 ELSE serial)
                                       /\ n \in ToSet(arrivals)
      /\ ToSet(localBuffer) \cap ToSet(sendBuffer) = {}
  BY OrderedSets
<1>5. /\ ToSet(sendBuffer) \subseteq Serials /\ ToSet(localBuffer) \subseteq Serials
      /\ ToSet(arrivals) \subseteq Serials /\ serial \in Nat /\ serial >= 1
      /\ Taking => serial >= 2
  <2>1. Len(sent) \in Nat /\ serial >= 1 /\ (Taking => serial >= 2)
    BY DEF TypeOK, Ordered, SerialIsNext
  <2>2. QED
    BY <2>1, InSet DEF TypeOK
<1>6. /\ (1 .. b) \cap ToSet(localBuffer) = {}
      /\ ((1 .. b) \cup ToSet(localBuffer)) \cap ToSet(sendBuffer) = {}
  BY <1>2, <1>4, <1>5, ProxySendAssumption DEF Serials
<1>7. /\ (sent \o h) \o localBuffer \in Seq(Serials)
      /\ ToSet((sent \o h) \o localBuffer) = (1 .. b) \cup ToSet(localBuffer)
      /\ IsInjective((sent \o h) \o localBuffer)
  <2>1. PICK p \in Seq(Serials) : p = sent \o h
    BY <1>3
  <2>2. /\ p \o localBuffer \in Seq(Serials)
        /\ ToSet(p \o localBuffer) = ToSet(p) \cup ToSet(localBuffer)
        /\ IsInjective(p \o localBuffer) <=> /\ IsInjective(p) /\ IsInjective(localBuffer)
                                             /\ ToSet(p) \cap ToSet(localBuffer) = {}
    BY OfConcat DEF TypeOK
  <2>3. QED
    BY <1>3, <1>6, <2>1, <2>2, Zenon DEF Accounted
<1>8. /\ ToSet(((sent \o h) \o localBuffer) \o sendBuffer)
           = ((1 .. b) \cup ToSet(localBuffer)) \cup ToSet(sendBuffer)
      /\ IsInjective(((sent \o h) \o localBuffer) \o sendBuffer)
  <2>1. PICK p \in Seq(Serials) : p = (sent \o h) \o localBuffer
    BY <1>7
  <2>2. /\ ToSet(p \o sendBuffer) = ToSet(p) \cup ToSet(sendBuffer)
        /\ IsInjective(p \o sendBuffer) <=> /\ IsInjective(p) /\ IsInjective(sendBuffer)
                                            /\ ToSet(p) \cap ToSet(sendBuffer) = {}
    BY OfConcat DEF TypeOK
  <2>3. QED
    BY <1>6, <1>7, <2>1, <2>2, Zenon DEF Accounted
<1>9. ToSet(arrivals) = ((1 .. b) \cup ToSet(localBuffer)) \cup ToSet(sendBuffer)
  <2>1. ASSUME NEW n \in ToSet(arrivals)
        PROVE  n \in 1 .. b \/ n \in ToSet(localBuffer) \/ n \in ToSet(sendBuffer)
    <3>1. n \in Nat /\ n >= 1
      BY <1>5, ProxySendAssumption DEF Serials
    <3>2. n < serial \/ n \in ToSet(localBuffer) \/ n \in ToSet(sendBuffer)
      BY DEF Accounted
    <3>3. CASE n < serial /\ n \notin 1 .. b
      <4>1. Taking /\ n = serial - 1
        BY <1>2, <1>5, <3>1, <3>3
      <4>2. serial - 1 \in ToSet(localBuffer)
        <5>1. localBuffer \in Seq(Serials) /\ Len(localBuffer) \in Nat
          BY DEF TypeOK
        <5>2. \E i \in 1 .. Len(localBuffer) : serial - 1 = localBuffer[i]
          BY <4>1, <5>1 DEF LocalHasNext, Taking
        <5>3. QED
          BY <5>1, <5>2, InSet
      <4>3. QED
        BY <4>1, <4>2
    <3>4. QED
      BY <3>2, <3>3
  <2>2. \A n \in 1 .. b : n \in ToSet(arrivals)
    BY <1>2, <1>5 DEF Ordered, AllArrived
  <2>3. QED
    BY <1>4, <2>1, <2>2
<1>10. QED
  BY <1>1, <1>8, <1>9, Zenon DEF EveryOutputKept

(* No output is lost or doubled between the receive threads and workers    *)
(* that hand it to an ordered path, and the socket.                        *)
THEOREM NothingLost == Spec => []EveryOutputKept
<1>1. IInv => EveryOutputKept
  <2>1. CASE storeAndForward
    BY <2>1 DEF EveryOutputKept
  <2>2. CASE ~storeAndForward
    BY <2>2, KeptInOrder DEF IInv
  <2>3. QED
    BY <2>1, <2>2
<1>2. QED
  BY <1>1, Invariance, PTL

(* Whatever is stored while files are being read, a path with files sends  *)
(* the outputs in the order in which they were stored, every one once.     *)
THEOREM StoredDelivery == Spec => []StoredInOrder
<1>1. IInv => StoredInOrder
  <2>1. CASE storeAndForward
    BY <2>1 DEF IInv, Stored
  <2>2. CASE ~storeAndForward
    BY <2>2 DEF StoredInOrder
  <2>3. QED
    BY <2>1, <2>2
<1>2. QED
  BY <1>1, Invariance, PTL

----------------------------------------------------------------------------
(* Refinement: a path delivers as InOrderDelivery says. *)

(* An output handed to the path arrives. *)
LEMMA StepArrive ==
  ASSUME TypeOK, NEW s \in Serials, ReceiveOutput(s) \/ StoreOutput(s)
  PROVE  IOD!Arrive
<1>1. /\ s \notin ToSet(arrivals) /\ arrivals' = Append(arrivals, s)
      /\ UNCHANGED <<storeAndForward, sent>>
  BY DEF ReceiveOutput, StoreOutput
<1>2. ToSet(Append(arrivals, s)) = ToSet(arrivals) \cup {s}
  BY OfAppend DEF TypeOK
<1>3. QED
  BY <1>1, <1>2 DEF IOD!Arrive, Serials

(* What an ordered path sends next has arrived and is the next number.     *)
LEMMA StepDeliverOrdered ==
  ASSUME TypeOK, Ordered, ~storeAndForward, SendSucceeds
  PROVE  IOD!Deliver
<1>1. /\ sendOutput # None /\ sent' = Append(sent, sendOutput)
      /\ UNCHANGED <<storeAndForward, arrivals>>
  BY DEF SendSucceeds, Ordered
<1>2. /\ sendOutput \in Serials /\ sent \in Seq(Serials) /\ Len(sent) \in Nat
      /\ sendOutput = serial - 1 /\ sendOutput = Len(sent) + 1
  BY <1>1 DEF TypeOK, Ordered, SerialIsNext
<1>3. sendOutput \in ToSet(arrivals)
  <2>1. sendOutput \in 1 .. serial - 1
    BY <1>2, ProxySendAssumption DEF TypeOK, Serials
  <2>2. QED
    BY <2>1 DEF Ordered, AllArrived
<1>4. sendOutput \notin ToSet(sent)
  <2>1. ToSet(sent) = 1 .. Len(sent)
    BY <1>2, Counting DEF Ordered
  <2>2. QED
    BY <1>2, <2>1
<1>5. UNCHANGED <<~storeAndForward, ToSet(arrivals)>>
  BY <1>1
<1>6. /\ sendOutput \in ToSet(arrivals) \ ToSet(sent)
      /\ ~storeAndForward => sendOutput = Len(sent) + 1
      /\ sent' = Append(sent, sendOutput)
  BY <1>1, <1>2, <1>3, <1>4
<1>7. QED
  BY <1>5, <1>6, Zenon DEF IOD!Deliver, IOD!ToSet, ToSet

(* The segment a path with files sends was stored, and was not sent before.*)
LEMMA StepDeliverStored ==
  ASSUME TypeOK, Stored, storeAndForward, IsInjective(arrivals), SendSucceeds
  PROVE  IOD!Deliver
<1>1. /\ storePacket # None /\ sent' = Append(sent, storePacket)
      /\ UNCHANGED <<storeAndForward, arrivals>>
  BY DEF SendSucceeds, Stored
<1>2. PICK x \in Serials : x = storePacket
  BY <1>1 DEF TypeOK
<1>3. PICK f \in Seq(Serials) : f = FlattenSeq(files)
  BY FlattenType DEF TypeOK
<1>4. /\ <<x>> \in Seq(Serials) /\ ToSet(<<x>>) = {x}
      /\ sent \in Seq(Serials) /\ storing \in Seq(Serials)
  BY OfOne DEF TypeOK
<1>5. arrivals = ((sent \o <<x>>) \o f) \o storing
  BY <1>1, <1>2, <1>3 DEF Stored, StoredInOrder
<1>6. /\ sent \o <<x>> \in Seq(Serials)
      /\ ToSet(sent \o <<x>>) = ToSet(sent) \cup {x}
      /\ IsInjective(sent \o <<x>>) => ToSet(sent) \cap {x} = {}
  BY <1>4, OfConcat
<1>7. PICK p \in Seq(Serials) : p = sent \o <<x>>
  BY <1>6
<1>8. /\ p \o f \in Seq(Serials) /\ ToSet(p \o f) = ToSet(p) \cup ToSet(f)
      /\ IsInjective(p \o f) => IsInjective(p)
  BY OfConcat
<1>9. PICK q \in Seq(Serials) : q = p \o f
  BY <1>8
<1>10. /\ ToSet(q \o storing) = ToSet(q) \cup ToSet(storing)
       /\ IsInjective(q \o storing) => IsInjective(q)
  BY <1>4, OfConcat
<1>11. x \in ToSet(arrivals)
  BY <1>5, <1>6, <1>7, <1>8, <1>9, <1>10
<1>12. x \notin ToSet(sent)
  <2>1. IsInjective(sent \o <<x>>)
    BY <1>5, <1>7, <1>8, <1>9, <1>10, Zenon
  <2>2. QED
    BY <1>6, <2>1
<1>13. UNCHANGED <<~storeAndForward, ToSet(arrivals)>>
  BY <1>1
<1>14. /\ x \in ToSet(arrivals) \ ToSet(sent)
       /\ ~storeAndForward => x = Len(sent) + 1
       /\ sent' = Append(sent, x)
  BY <1>1, <1>2, <1>11, <1>12
<1>15. QED
  BY <1>13, <1>14, Zenon DEF IOD!Deliver, IOD!ToSet, ToSet

(* Every step of the path is one of the delivery, or leaves it alone.      *)
LEMMA StepIOD == IInv /\ [Next]_vars => [IOD!Next]_(IOD!vars)
<1> SUFFICES ASSUME IInv, [Next]_vars PROVE [IOD!Next]_(IOD!vars)
  OBVIOUS
<1>1. ASSUME NEW s \in Serials, ReceiveOutput(s) \/ StoreOutput(s) PROVE IOD!Next
  BY <1>1, StepArrive DEF IInv, IOD!Next
<1>2. CASE SendSucceeds
  <2>1. IOD!Deliver
    BY <1>2, StepDeliverOrdered, StepDeliverStored DEF IInv
  <2>2. QED
    BY <2>1 DEF IOD!Next
<1>3. CASE UNCHANGED <<storeAndForward, arrivals, sent>>
  BY <1>3 DEF IOD!vars
<1>4. QED
  BY <1>1, <1>2, <1>3 DEF Next, SendThread, PeerReady, NothingInHand, SendFails, Quit,
     ReadFile, CheckLocalBuffer, CheckSendBuffer, Sleep, Move, Sort, SpuriousWake,
     SetNotRunning, WakeAllThreads, vars

(* An output path of the proxy implements the abstract delivery: it sends  *)
(* what has arrived, once, and without files by serial number.             *)
THEOREM Refinement == Spec => ImplementsInOrderDelivery
<1>1. Init => IOD!Init
  BY OfNone DEF Init, IOD!Init
<1>2. QED
  BY <1>1, StepIOD, Invariance, PTL DEF Spec, IOD!Spec, ImplementsInOrderDelivery

=============================================================================
