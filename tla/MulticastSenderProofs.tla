----------------------- MODULE MulticastSenderProofs -----------------------
(***************************************************************************)
(* All paths of a multicast path carry the same data, and what has been    *)
(* counted has been sent, for any number of paths and packets and whatever *)
(* part of a packet the sockets take at a time.                            *)
(***************************************************************************)
EXTENDS MulticastSender, TLAPS

Holding == {"sending", "parking", "parked"}

(* A thread in SendData or SendPacket holds the lock, and a round goes on only while
   one is in SendPacket. *)
LockIsHeld ==
  /\ \A p \in Paths : pc[p] \in Holding => lock = p
  /\ todo # <<>> => lock \in Paths /\ pc[lock] = "sending"

InTodo(p) == \E i \in 1 .. Len(todo) : todo[i] = p

TodoOnce == \A i, j \in 1 .. Len(todo) : i # j => todo[i] # todo[j]

(* A path is ready unless it refers to the packet; Resend gives up the reference
   after it has marked the path. *)
ReadyIsFree ==
  \A p \in Paths :
    /\ ready[p] <=> ~ref[p] \/ pc[p] = "dereferencing"
    /\ pc[p] = "dereferencing" => ref[p]

(* How much of the packet a path has sent. *)
Progress ==
  \A p \in Paths :
    /\ InTodo(p) => ready[p] /\ Len(wire[p]) = 2 * packet - 2
    /\ ~InTodo(p) => 2 * packet - 2 <= Len(wire[p]) /\ Len(wire[p]) <= 2 * packet
    /\ ~InTodo(p) => (ready[p] <=> Len(wire[p]) = 2 * packet)

(* In a round the packet has not been counted, and whole says of the paths that had
   their turn that they have sent all of it. *)
Counting ==
  /\ totBytes <= packet
  /\ \A p \in Paths : pc[p] = "sending" =>
       /\ totBytes < packet
       /\ whole => \A q \in Paths : ~InTodo(q) => Len(wire[q]) = 2 * packet

IInv ==
  /\ TypeOK /\ LockIsHeld /\ TodoOnce /\ ReadyIsFree
  /\ Progress /\ Counting /\ SameDataOnEveryPath /\ CountedIsSent

----------------------------------------------------------------------------
LEMMA InitInv ==
  ASSUME MulticastSenderAssumption, Init
  PROVE  IInv
<1>1. TypeOK
  <2>1. 0 \in 0 .. MaxPackets /\ 0 \in 0 .. packet
    BY DEF MulticastSenderAssumption, Init
  <2>2. <<>> \in Seq(Paths) /\ <<>> \in Seq((1 .. MaxPackets) \X (1 .. Parts))
    OBVIOUS
  <2> QED
    BY <2>1, <2>2 DEF Init, TypeOK, Places
<1>2. LockIsHeld /\ TodoOnce /\ ReadyIsFree
  BY DEF Init, LockIsHeld, TodoOnce, ReadyIsFree, Holding
<1>3. Progress
  BY DEF Init, Progress, InTodo
<1>4. Counting /\ SameDataOnEveryPath /\ CountedIsSent
  BY DEF Init, Counting, SameDataOnEveryPath, CountedIsSent, Parts
<1> QED
  BY <1>1, <1>2, <1>3, <1>4 DEF IInv

(* Steps that send nothing and begin or end no round. *)
LEMMA QuietInv ==
  ASSUME IInv, NEW p \in Paths,
         Connect(p) \/ SendHeader(p) \/ NothingLeft(p) \/ Dereference(p)
           \/ CheckConnection(p) \/ NotAllReady(p)
  PROVE  IInv'
<1>1. /\ UNCHANGED <<limitVars, roundVars, wire>>
      /\ pc[p] \notin Holding
      /\ \E place \in Places \ (Holding \cup {"dereferencing"}) : pc' = [pc EXCEPT ![p] = place]
  BY DEF Connect, SendHeader, NothingLeft, Dereference, CheckConnection, NotAllReady, Goto,
         Places, Holding, limitVars, roundVars, connVars
<1>2. PICK place \in Places \ (Holding \cup {"dereferencing"}) : pc' = [pc EXCEPT ![p] = place]
  BY <1>1
<1>3. connected' \in [Paths -> BOOLEAN] /\ allConnected' \in BOOLEAN /\ announced' \in [Paths -> BOOLEAN]
  BY DEF Connect, SendHeader, NothingLeft, Dereference, CheckConnection, NotAllReady,
         connVars, IInv, TypeOK
<1>4. ready' \in [Paths -> BOOLEAN] /\ ref' \in [Paths -> BOOLEAN]
  BY DEF Connect, SendHeader, NothingLeft, Dereference, CheckConnection, NotAllReady,
         connVars, IInv, TypeOK
<1>5. TypeOK'
  BY <1>1, <1>2, <1>3, <1>4 DEF IInv, TypeOK, limitVars, roundVars
<1>6. LockIsHeld'
  BY <1>1, <1>2 DEF IInv, TypeOK, LockIsHeld, Holding, roundVars
<1>7. ReadyIsFree' /\ ready' = ready
  <2>1. CASE NothingLeft(p)
    <3>1. ready' = ready
      BY <2>1 DEF NothingLeft, IInv, ReadyIsFree, TypeOK
    <3> QED
      BY <2>1, <3>1 DEF NothingLeft, Goto, IInv, ReadyIsFree, TypeOK
  <2>2. CASE Dereference(p)
    BY <2>2 DEF Dereference, Goto, IInv, ReadyIsFree, TypeOK
  <2>3. CASE Connect(p) \/ SendHeader(p) \/ CheckConnection(p) \/ NotAllReady(p)
    <3>1. ready' = ready /\ ref' = ref /\ pc[p] # "dereferencing"
      BY <2>3 DEF Connect, SendHeader, CheckConnection, NotAllReady
    <3> QED
      BY <3>1, <1>2 DEF IInv, ReadyIsFree, TypeOK
  <2> QED
    BY <2>1, <2>2, <2>3
<1>8. Progress'
  BY <1>1, <1>7 DEF IInv, Progress, InTodo, roundVars
<1>9. Counting'
  BY <1>1, <1>2 DEF IInv, TypeOK, Counting, InTodo, Holding, roundVars, limitVars
<1> QED
  BY <1>1, <1>5, <1>6, <1>7, <1>8, <1>9
  DEF IInv, TodoOnce, SameDataOnEveryPath, CountedIsSent, limitVars, roundVars

(* Interactive traffic that runs out of data takes the lock and gives it up again, when
   it is woken or gets input. *)
LEMMA ParkingInv ==
  ASSUME MulticastSenderAssumption, IInv,
         InteractiveInput \/ \E p \in Paths : OutOfData(p) \/ Park(p) \/ Wake(p)
  PROVE  IInv'
<1>1. /\ UNCHANGED <<connVars, packet, todo, whole, ready, ref, announced, wire, limited, totBytes>>
      /\ maxBytes' \in 0 .. MaxPackets
  BY DEF InteractiveInput, OutOfData, Park, Wake, IInv, TypeOK, limitVars, roundVars,
         MulticastSenderAssumption
<1>2. /\ pc' \in [Paths -> Places] /\ lock' \in Paths \cup {NULL}
      /\ \A q \in Paths : /\ pc'[q] = "sending" <=> pc[q] = "sending"
                          /\ pc'[q] = "dereferencing" <=> pc[q] = "dereferencing"
  BY DEF InteractiveInput, OutOfData, Park, Wake, Goto, IInv, TypeOK, Places, limitVars, roundVars
<1>3. TypeOK'
  BY <1>1, <1>2 DEF IInv, TypeOK, connVars
<1>4. LockIsHeld'
  <2>1. CASE InteractiveInput
    BY <2>1 DEF InteractiveInput, IInv, TypeOK, LockIsHeld, Holding
  <2>2. ASSUME NEW p \in Paths, OutOfData(p)
        PROVE  LockIsHeld'
    BY <2>2 DEF MulticastSenderAssumption, OutOfData, Goto, IInv, TypeOK, LockIsHeld, Holding
  <2>3. ASSUME NEW p \in Paths, Park(p)
        PROVE  LockIsHeld'
    BY <2>3 DEF Park, Goto, IInv, TypeOK, LockIsHeld, Holding, roundVars
  <2>4. ASSUME NEW p \in Paths, Wake(p)
        PROVE  LockIsHeld'
    BY <2>4 DEF Wake, Goto, IInv, TypeOK, LockIsHeld, Holding
  <2> QED
    BY <2>1, <2>2, <2>3, <2>4
<1>5. ReadyIsFree'
  BY <1>1, <1>2 DEF IInv, ReadyIsFree
<1>6. Progress' /\ TodoOnce'
  BY <1>1 DEF IInv, Progress, TodoOnce, InTodo
<1>7. Counting'
  BY <1>1, <1>2 DEF IInv, Counting, InTodo
<1> QED
  BY <1>1, <1>3, <1>4, <1>5, <1>6, <1>7 DEF IInv, SameDataOnEveryPath, CountedIsSent

----------------------------------------------------------------------------
(* Where a byte of a packet is. *)
LEMMA DivMod ==
  ASSUME NEW a \in Nat, NEW m \in Nat, 2 * m <= a, a < 2 * m + 2
  PROVE  a \div 2 = m /\ a % 2 = a - 2 * m
OBVIOUS

(* The rest of a packet k when len parts have been sent, not all of packet k. *)
LEMMA Remaining ==
  ASSUME NEW k \in Nat, NEW len \in Nat, 2 * k - 2 <= len, len <= 2 * k, len # 2 * k,
         NEW n \in 0 .. 2 - (len % 2)
  PROVE  /\ n \in Nat /\ 1 <= k /\ len + n <= 2 * k
         /\ (len % 2) + n = 2 <=> len + n = 2 * k
<1>1. 1 <= k /\ k - 1 \in Nat /\ 2 * (k - 1) <= len /\ len < 2 * (k - 1) + 2
  OBVIOUS
<1>2. len % 2 = len - 2 * (k - 1)
  BY <1>1, DivMod
<1>3. PICK m : m = len % 2
  OBVIOUS
<1>4. m = len - 2 * (k - 1) /\ n \in 0 .. 2 - m
  BY <1>2, <1>3
<1>5. n \in Nat /\ n <= 2 - m
  BY <1>1, <1>4
<1>6. len + n <= 2 * k /\ (m + n = 2 <=> len + n = 2 * k)
  BY <1>1, <1>4, <1>5
<1> QED
  BY <1>1, <1>3, <1>5, <1>6

(* The part of the data at position i, if every part is where it belongs. *)
Part(i) == <<((i - 1) \div 2) + 1, ((i - 1) % 2) + 1>>

(* All parts in w are where they belong, and those in x are if they come behind len
   others. *)
InPlace(w) == \A i \in 1 .. Len(w) : w[i] = Part(i)
Follow(x, len) == \A i \in 1 .. Len(x) : x[i] = Part(len + i)

(* Joined sequences. *)
LEMMA Joined ==
  ASSUME NEW S, NEW w \in Seq(S), NEW x \in Seq(S), NEW v, v = w \o x
  PROVE  /\ v \in Seq(S) /\ Len(v) = Len(w) + Len(x)
         /\ \A i \in 1 .. Len(w) : v[i] = w[i]
         /\ \A i \in 1 .. Len(x) : v[Len(w) + i] = x[i]
OBVIOUS

(* Sequences as functions. *)
LEMMA FunctionSeq ==
  ASSUME NEW S, NEW n \in Nat, NEW x \in [1 .. n -> S]
  PROVE  x \in Seq(S) /\ Len(x) = n
OBVIOUS

(* Data that is in order stays so, if what follows is in order. *)
LEMMA Extended ==
  ASSUME NEW S, NEW w \in Seq(S), NEW x \in Seq(S), NEW v, v = w \o x,
         InPlace(w), Follow(x, Len(w))
  PROVE  v \in Seq(S) /\ Len(v) = Len(w) + Len(x) /\ InPlace(v)
<1>1. /\ v \in Seq(S) /\ Len(v) = Len(w) + Len(x)
      /\ \A i \in 1 .. Len(w) : v[i] = w[i]
      /\ \A i \in 1 .. Len(x) : v[Len(w) + i] = x[i]
  BY Joined
<1>2. Len(w) \in Nat /\ Len(x) \in Nat
  OBVIOUS
<1>3. ASSUME NEW i \in 1 .. Len(v)
      PROVE  v[i] = Part(i)
  <2>1. CASE i <= Len(w)
    BY <2>1, <1>1, <1>2 DEF InPlace
  <2>2. CASE Len(w) < i
    <3>1. PICK j \in 1 .. Len(x) : i = Len(w) + j
      <4>1. i - Len(w) \in 1 .. Len(x) /\ i = Len(w) + (i - Len(w))
        BY <2>2, <1>1, <1>2
      <4> QED
        BY <4>1
    <3> QED
      BY <3>1, <1>1 DEF Follow
  <2> QED
    BY <2>1, <2>2, <1>1, <1>2
<1> QED
  BY <1>1, <1>3 DEF InPlace

(* What a socket takes of the shared packet is what the path has not sent of it. *)
LEMMA Grows ==
  ASSUME MaxPackets \in Nat, TypeOK, SameDataOnEveryPath, NEW q \in Paths, NEW n \in Nat,
         packet \in 1 .. MaxPackets, 2 * packet - 2 <= Len(wire[q]),
         Len(wire[q]) + n <= 2 * packet,
         wire' = [wire EXCEPT ![q] = Written(q, n)]
  PROVE  /\ wire' \in [Paths -> Seq((1 .. MaxPackets) \X (1 .. Parts))]
         /\ Len(wire'[q]) = Len(wire[q]) + n
         /\ \A r \in Paths \ {q} : wire'[r] = wire[r]
         /\ SameDataOnEveryPath'
<1> DEFINE S == (1 .. MaxPackets) \X (1 .. 2)
<1>1. wire \in [Paths -> Seq(S)]
  BY DEF TypeOK, Parts
<1> HIDE DEF S
<1>2. PICK w, v, r, x : /\ w = wire[q] /\ v = wire'[q] /\ r = PartsSent(q)
                        /\ x = [i \in 1 .. n |-> <<packet, PartsSent(q) + i>>]
  OBVIOUS
<1>3. w \in Seq(S) /\ Len(w) \in Nat /\ v = w \o x
  <2>1. wire'[q] = Written(q, n)
    BY <1>1
  <2>2. Written(q, n) = w \o x
    BY <1>2, Zenon DEF Written
  <2>3. w \in Seq(S)
    BY <1>1, <1>2
  <2>4. v = w \o x
    BY <2>1, <2>2, <1>2, Zenon
  <2> QED
    BY <2>3, <2>4
<1>4. x \in Seq(S) /\ Len(x) = n /\ Follow(x, Len(w))
  <2>1. ASSUME NEW i \in 1 .. n
        PROVE  r + i \in 1 .. 2 /\ <<packet, r + i>> = Part(Len(w) + i)
    <3>1. packet \in Nat /\ 1 <= packet /\ i \in Nat /\ 1 <= i
      OBVIOUS
    <3>2. 2 * packet - 2 <= Len(w) /\ Len(w) + i <= 2 * packet
      BY <1>2, <1>3, <3>1
    <3>3. r = Len(w) % 2
      BY <1>2 DEF PartsSent, Parts
    <3>4. PICK k \in Nat, len \in Nat : k = packet /\ len = Len(w)
      BY <1>3, <3>1
    <3>5. 1 <= k /\ 2 * k - 2 <= len /\ len + i <= 2 * k /\ i \in Nat /\ 1 <= i /\ r = len % 2
      BY <3>1, <3>2, <3>3, <3>4
    <3>6. k - 1 \in Nat /\ len + i - 1 \in Nat
      BY <3>5
    <3>7. len % 2 = len - 2 * (k - 1)
      BY <3>5, <3>6, DivMod
    <3>8. (len + i - 1) \div 2 = k - 1 /\ (len + i - 1) % 2 = (len + i - 1) - 2 * (k - 1)
      BY <3>5, <3>6, DivMod
    <3>9. ((len + i - 1) \div 2) + 1 = k /\ ((len + i - 1) % 2) + 1 = r + i
      BY <3>5, <3>7, <3>8
    <3>10. <<k, r + i>> = Part(len + i)
      BY <3>9 DEF Part
    <3>11. r + i \in 1 .. 2
      BY <3>5, <3>7
    <3> QED
      BY <3>4, <3>10, <3>11
  <2>2. ASSUME NEW i \in 1 .. n
        PROVE  x[i] \in S /\ x[i] = Part(Len(w) + i)
    <3>1. x[i] = <<packet, r + i>>
      BY <1>2
    <3>2. <<packet, r + i>> \in S
      BY <2>1 DEF S
    <3> QED
      BY <2>1, <3>1, <3>2
  <2>3. x \in [1 .. n -> S]
    <3>1. x = [i \in 1 .. n |-> x[i]]
      BY <1>2, Zenon
    <3> QED
      BY <2>2, <3>1
  <2>4. x \in Seq(S) /\ Len(x) = n
    BY <2>3, FunctionSeq
  <2> QED
    BY <2>2, <2>4 DEF Follow
<1>5. v \in Seq(S) /\ Len(v) = Len(w) + n /\ InPlace(v)
  <2>1. InPlace(w)
    BY <1>2 DEF SameDataOnEveryPath, InPlace, Part, Parts
  <2>2. v \in Seq(S) /\ Len(v) = Len(w) + Len(x) /\ InPlace(v)
    BY <2>1, <1>3, <1>4, Extended
  <2> QED
    BY <2>2, <1>4
<1>6. /\ wire' \in [Paths -> Seq(S)]
      /\ \A o \in Paths \ {q} : wire'[o] = wire[o]
  <2>1. wire' = [wire EXCEPT ![q] = v]
    BY <1>1, <1>2
  <2> QED
    BY <2>1, <1>1, <1>5
<1>7. SameDataOnEveryPath'
  <2> SUFFICES ASSUME NEW o \in Paths
               PROVE  InPlace(wire'[o])
    BY DEF SameDataOnEveryPath, InPlace, Part, Parts
  <2>1. CASE o = q
    BY <2>1, <1>2, <1>5
  <2>2. CASE o # q
    BY <2>2, <1>6 DEF SameDataOnEveryPath, InPlace, Part, Parts
  <2> QED
    BY <2>1, <2>2
<1> QED
  BY <1>2, <1>5, <1>6, <1>7 DEF S, Parts

(* A path that refers to the packet sends more of it. *)
LEMMA ResendInv ==
  ASSUME MulticastSenderAssumption, IInv, NEW p \in Paths, Resend(p)
  PROVE  IInv'
<1>1. PICK n \in 0 .. Parts - PartsSent(p) :
        /\ wire' = [wire EXCEPT ![p] = Written(p, n)]
        /\ IF ResendDone(p, n)
           THEN ready' = [ready EXCEPT ![p] = TRUE] /\ pc' = [pc EXCEPT ![p] = "dereferencing"]
           ELSE UNCHANGED <<ready, pc>>
  BY DEF Resend, Goto
<1>2. /\ pc[p] = "polling" /\ ref[p]
      /\ UNCHANGED <<limitVars, connVars, roundVars, ref, announced>>
  BY DEF Resend
<1>3. ~ready[p] /\ ~InTodo(p)
  BY <1>2 DEF IInv, ReadyIsFree, Progress
<1>4. Len(wire[p]) \in Nat /\ packet \in Nat /\ packet <= MaxPackets /\ MaxPackets \in Nat
  BY DEF IInv, TypeOK, MulticastSenderAssumption
<1>5. 2 * packet - 2 <= Len(wire[p]) /\ Len(wire[p]) <= 2 * packet /\ Len(wire[p]) # 2 * packet
  BY <1>3, Zenon DEF IInv, Progress
<1>6. PICK k \in Nat, len \in Nat : k = packet /\ len = Len(wire[p])
  BY <1>4
<1>7. /\ n \in Nat /\ Len(wire[p]) + n <= 2 * packet /\ packet \in 1 .. MaxPackets
      /\ ResendDone(p, n) <=> Len(wire[p]) + n = 2 * packet
  <2>1. 2 * k - 2 <= len /\ len <= 2 * k /\ len # 2 * k
    BY <1>5, <1>6
  <2>2. n \in 0 .. 2 - (len % 2)
    BY <1>6 DEF PartsSent, Parts
  <2>3. /\ n \in Nat /\ 1 <= k /\ len + n <= 2 * k
        /\ (len % 2) + n = 2 <=> len + n = 2 * k
    BY <2>1, <2>2, Remaining
  <2>4. ResendDone(p, n) <=> (len % 2) + n = 2
    BY <1>6, Zenon DEF ResendDone, PartsSent, Parts
  <2>5. n \in Nat /\ len + n <= 2 * k /\ (ResendDone(p, n) <=> len + n = 2 * k)
    BY <2>3, <2>4, Zenon
  <2>6. packet \in 1 .. MaxPackets
    BY <2>3, <1>4, <1>6
  <2> QED
    BY <2>5, <2>6, <1>6, Zenon
<1>8. /\ wire' \in [Paths -> Seq((1 .. MaxPackets) \X (1 .. Parts))]
      /\ Len(wire'[p]) = Len(wire[p]) + n
      /\ \A r \in Paths \ {p} : wire'[r] = wire[r]
      /\ SameDataOnEveryPath'
  BY <1>1, <1>4, <1>5, <1>7, Grows DEF IInv
<1>9. /\ pc' \in [Paths -> Places] /\ ready' \in [Paths -> BOOLEAN]
      /\ \A r \in Paths : pc'[r] \in Holding <=> pc[r] \in Holding
      /\ \A r \in Paths : pc'[r] = "sending" <=> pc[r] = "sending"
      /\ \A r \in Paths \ {p} : pc'[r] = pc[r] /\ ready'[r] = ready[r]
      /\ ready'[p] <=> Len(wire'[p]) = 2 * packet
      /\ ready'[p] <=> pc'[p] = "dereferencing"
  <2>1. CASE ResendDone(p, n)
    BY <1>1, <1>2, <1>7, <1>8, <2>1 DEF IInv, TypeOK, Places, Holding
  <2>2. CASE ~ResendDone(p, n)
    BY <1>1, <1>2, <1>3, <1>7, <1>8, <2>2 DEF IInv, TypeOK, Places, Holding
  <2> QED
    BY <2>1, <2>2
<1>10. TypeOK'
  BY <1>2, <1>8, <1>9 DEF IInv, TypeOK, limitVars, connVars, roundVars
<1>11. LockIsHeld'
  BY <1>2, <1>9 DEF IInv, LockIsHeld, roundVars
<1>12. ReadyIsFree'
  BY <1>2, <1>9 DEF IInv, ReadyIsFree
<1>13. Progress'
  <2> SUFFICES ASSUME NEW r \in Paths
               PROVE  /\ InTodo(r) => ready'[r] /\ Len(wire'[r]) = 2 * packet - 2
                      /\ ~InTodo(r) => 2 * packet - 2 <= Len(wire'[r]) /\ Len(wire'[r]) <= 2 * packet
                      /\ ~InTodo(r) => (ready'[r] <=> Len(wire'[r]) = 2 * packet)
    BY <1>2 DEF Progress, InTodo, roundVars
  <2>1. CASE r = p
    BY <2>1, <1>3, <1>4, <1>5, <1>7, <1>8, <1>9
  <2>2. CASE r # p
    BY <2>2, <1>8, <1>9 DEF IInv, Progress
  <2> QED
    BY <2>1, <2>2
<1>14. Counting'
  <2>1. totBytes' <= packet'
    BY <1>2 DEF IInv, Counting, limitVars, roundVars
  <2>2. ASSUME NEW r \in Paths, pc'[r] = "sending"
        PROVE  totBytes < packet /\ ~whole
    BY <2>2, <1>3, <1>4, <1>5, <1>9 DEF IInv, Counting
  <2> QED
    BY <2>1, <2>2, <1>2 DEF Counting, limitVars, roundVars
<1>15. CountedIsSent'
  <2> SUFFICES ASSUME NEW r \in Paths
               PROVE  totBytes * 2 <= Len(wire'[r])
    BY <1>2 DEF CountedIsSent, Parts, limitVars
  <2>1. totBytes * 2 <= Len(wire[r]) /\ totBytes \in Nat /\ Len(wire[r]) \in Nat
    BY DEF IInv, CountedIsSent, Parts, TypeOK
  <2>2. CASE r = p
    BY <2>1, <2>2, <1>7, <1>8
  <2>3. CASE r # p
    BY <2>1, <2>3, <1>8
  <2> QED
    BY <2>2, <2>3
<1> QED
  BY <1>2, <1>8, <1>10, <1>11, <1>12, <1>13, <1>14, <1>15 DEF IInv, TodoOnce, roundVars

(* A list without its head. *)
LEMMA TailOnce ==
  ASSUME NEW S, NEW t \in Seq(S), t # <<>>,
         \A i, j \in 1 .. Len(t) : i # j => t[i] # t[j]
  PROVE  /\ Tail(t) \in Seq(S) /\ Head(t) = t[1] /\ Head(t) \in S
         /\ \A i, j \in 1 .. Len(Tail(t)) : i # j => Tail(t)[i] # Tail(t)[j]
         /\ \A x : (\E i \in 1 .. Len(Tail(t)) : Tail(t)[i] = x)
                    <=> (\E i \in 1 .. Len(t) : t[i] = x) /\ x # Head(t)
<1>1. /\ Tail(t) \in Seq(S) /\ Len(t) \in Nat /\ Len(t) > 0 /\ Len(Tail(t)) = Len(t) - 1
      /\ \A i \in 1 .. Len(Tail(t)) : Tail(t)[i] = t[i + 1]
      /\ Head(t) = t[1] /\ Head(t) \in S
  OBVIOUS
<1>2. \A i, j \in 1 .. Len(Tail(t)) : i # j => Tail(t)[i] # Tail(t)[j]
  BY <1>1
<1>3. ASSUME NEW x, NEW i \in 1 .. Len(Tail(t)), Tail(t)[i] = x
      PROVE  (\E j \in 1 .. Len(t) : t[j] = x) /\ x # Head(t)
  <2>1. i + 1 \in 1 .. Len(t) /\ 1 \in 1 .. Len(t) /\ i + 1 # 1 /\ t[i + 1] = x
    BY <1>1, <1>3
  <2> QED
    BY <2>1, <1>1
<1>4. ASSUME NEW x, NEW i \in 1 .. Len(t), t[i] = x, x # Head(t)
      PROVE  \E j \in 1 .. Len(Tail(t)) : Tail(t)[j] = x
  <2>1. i - 1 \in 1 .. Len(Tail(t)) /\ (i - 1) + 1 = i
    BY <1>1, <1>4
  <2>2. Tail(t)[i - 1] = x
    BY <2>1, <1>1, <1>4
  <2> QED
    BY <2>1, <2>2
<1> QED
  BY <1>1, <1>2, <1>3, <1>4

(* The thread that holds the lock sends on the next path. *)
LEMMA SendInv ==
  ASSUME MulticastSenderAssumption, IInv, NEW p \in Paths, Send(p)
  PROVE  IInv'
<1> DEFINE q == Head(todo)
<1>1. /\ q \in Paths /\ InTodo(q)
      /\ todo' \in Seq(Paths) /\ TodoOnce'
      /\ \A r \in Paths : InTodo(r)' <=> InTodo(r) /\ r # q
  <2>1. todo \in Seq(Paths) /\ todo # <<>> /\ todo' = Tail(todo)
    BY DEF Send, IInv, TypeOK
  <2>2. \A i, j \in 1 .. Len(todo) : i # j => todo[i] # todo[j]
    BY DEF IInv, TodoOnce
  <2>3. /\ Tail(todo) \in Seq(Paths) /\ Head(todo) = todo[1] /\ Head(todo) \in Paths
        /\ \A i, j \in 1 .. Len(Tail(todo)) : i # j => Tail(todo)[i] # Tail(todo)[j]
        /\ \A x : (\E i \in 1 .. Len(Tail(todo)) : Tail(todo)[i] = x)
                   <=> (\E i \in 1 .. Len(todo) : todo[i] = x) /\ x # Head(todo)
    BY <2>1, <2>2, TailOnce
  <2>4. InTodo(q)
    BY <2>1, <2>3 DEF InTodo
  <2> QED
    BY <2>1, <2>3, <2>4 DEF TodoOnce, InTodo
<1>2. q \in Paths
  BY <1>1
<1>3. ready[q] /\ ~ref[q] /\ Len(wire[q]) = 2 * packet - 2
  BY <1>1, <1>2, Zenon DEF Send, IInv, ReadyIsFree, Progress
<1>4. PICK n \in 0 .. Parts :
        /\ wire' = [wire EXCEPT ![q] = Written(q, n)]
        /\ ready' = [ready EXCEPT ![q] = n = Parts]
        /\ ref' = [ref EXCEPT ![q] = n # Parts]
        /\ whole' = (whole /\ n = Parts)
  BY <1>3 DEF Send
<1>5. /\ pc[p] = "sending" /\ pc[q] # "dereferencing" /\ todo # <<>>
      /\ UNCHANGED <<limitVars, connVars, packet, lock, pc, announced>>
  BY DEF Send
<1> HIDE DEF q
<1>6. /\ Len(wire[q]) \in Nat /\ packet \in Nat /\ packet <= MaxPackets /\ MaxPackets \in Nat
      /\ totBytes \in Nat /\ n \in 0 .. 2
  BY <1>2 DEF IInv, TypeOK, MulticastSenderAssumption, Parts
<1>7. totBytes < packet
  BY <1>5 DEF IInv, Counting
<1>8. n \in Nat /\ packet \in 1 .. MaxPackets
      /\ 2 * packet - 2 <= Len(wire[q]) /\ Len(wire[q]) + n <= 2 * packet
      /\ (n = 2 <=> Len(wire[q]) + n = 2 * packet)
  BY <1>3, <1>6, <1>7
<1>9. /\ wire' \in [Paths -> Seq((1 .. MaxPackets) \X (1 .. Parts))]
      /\ Len(wire'[q]) = Len(wire[q]) + n
      /\ \A r \in Paths \ {q} : wire'[r] = wire[r]
      /\ SameDataOnEveryPath'
  BY <1>2, <1>4, <1>6, <1>8, Grows DEF IInv
<1>10. /\ ready' \in [Paths -> BOOLEAN] /\ ref' \in [Paths -> BOOLEAN] /\ whole' \in BOOLEAN
       /\ ready'[q] <=> n = 2
       /\ ref'[q] <=> n # 2
       /\ \A r \in Paths \ {q} : ready'[r] = ready[r] /\ ref'[r] = ref[r]
  BY <1>2, <1>4 DEF IInv, TypeOK, Parts
<1>11. TypeOK'
  BY <1>1, <1>5, <1>9, <1>10 DEF IInv, TypeOK, limitVars, connVars
<1>12. LockIsHeld'
  BY <1>5 DEF IInv, LockIsHeld, Holding
<1>13. ReadyIsFree'
  BY <1>2, <1>5, <1>10 DEF IInv, ReadyIsFree
<1>14. Progress'
  <2> SUFFICES ASSUME NEW r \in Paths
               PROVE  /\ InTodo(r)' => ready'[r] /\ Len(wire'[r]) = 2 * packet - 2
                      /\ ~InTodo(r)' => 2 * packet - 2 <= Len(wire'[r]) /\ Len(wire'[r]) <= 2 * packet
                      /\ ~InTodo(r)' => (ready'[r] <=> Len(wire'[r]) = 2 * packet)
    BY <1>5 DEF Progress
  <2>1. CASE r = q
    <3>1. ~InTodo(r)'
      BY <2>1, <1>1
    <3>2. 2 * packet - 2 <= Len(wire[q]) + n
      BY <1>6, <1>8
    <3> QED
      BY <2>1, <3>1, <3>2, <1>8, <1>9, <1>10
  <2>2. CASE r # q
    <3>1. wire'[r] = wire[r] /\ ready'[r] = ready[r] /\ (InTodo(r)' <=> InTodo(r))
      BY <2>2, <1>1, <1>9, <1>10
    <3> QED
      BY <3>1, Zenon DEF IInv, Progress
  <2> QED
    BY <2>1, <2>2
<1>15. Counting'
  <2>1. totBytes' < packet'
    BY <1>5, <1>7 DEF limitVars
  <2>2. ASSUME whole', NEW r \in Paths, ~InTodo(r)'
        PROVE  Len(wire'[r]) = 2 * packet
    <3>1. whole /\ n = 2
      BY <1>4, <2>2 DEF Parts
    <3>2. CASE r = q
      BY <3>1, <3>2, <1>8, <1>9
    <3>3. CASE r # q
      <4>1. ~InTodo(r) /\ wire'[r] = wire[r]
        BY <2>2, <3>3, <1>1, <1>9
      <4> QED
        BY <3>1, <4>1, <1>5 DEF IInv, Counting
    <3> QED
      BY <3>2, <3>3
  <2>3. totBytes' <= packet'
    BY <1>5, <1>6, <1>7 DEF limitVars
  <2> QED
    BY <2>1, <2>2, <2>3, <1>5 DEF Counting
<1>16. CountedIsSent'
  <2> SUFFICES ASSUME NEW r \in Paths
               PROVE  totBytes * 2 <= Len(wire'[r])
    BY <1>5 DEF CountedIsSent, Parts, limitVars
  <2>1. totBytes * 2 <= Len(wire[r])
    BY DEF IInv, CountedIsSent, Parts
  <2>2. CASE r = q
    BY <2>1, <2>2, <1>6, <1>8, <1>9
  <2>3. CASE r # q
    BY <2>1, <2>3, <1>9
  <2> QED
    BY <2>2, <2>3
<1> QED
  BY <1>1, <1>9, <1>11, <1>12, <1>13, <1>14, <1>15, <1>16 DEF IInv

(* The thread that finds every path ready rewrites the packet: nobody needs it any more. *)
LEMMA NewPacketInv ==
  ASSUME MulticastSenderAssumption, IInv, NEW p \in Paths, NewPacket(p)
  PROVE  IInv'
<1>1. /\ pc[p] = "checking" /\ lock = NULL /\ packet < MaxPackets
      /\ \A q \in Paths : ready[q]
      /\ packet' = packet + 1 /\ lock' = p /\ todo' = PathList /\ whole' = TRUE
      /\ pc' = [pc EXCEPT ![p] = "sending"]
      /\ UNCHANGED <<limitVars, connVars, ready, ref, announced, wire>>
  BY DEF NewPacket, CheckReady, Goto
<1>2. packet \in Nat /\ MaxPackets \in Nat /\ totBytes \in Nat /\ totBytes <= packet
  BY DEF IInv, TypeOK, Counting, MulticastSenderAssumption
<1>3. packet' \in 0 .. MaxPackets /\ totBytes' \in 0 .. packet' /\ totBytes' < packet'
  BY <1>1, <1>2 DEF limitVars
<1>4. \A q \in Paths : ~InTodo(q)
  <2>1. todo = <<>>
    BY <1>1 DEF IInv, LockIsHeld, MulticastSenderAssumption
  <2> QED
    BY <2>1 DEF InTodo
<1>5. \A q \in Paths : Len(wire[q]) = 2 * packet
  BY <1>1, <1>4, Zenon DEF IInv, Progress
<1>6. PathList \in Seq(Paths)
  BY DEF MulticastSenderAssumption
<1>7. \A q \in Paths : InTodo(q)'
  BY <1>1 DEF InTodo, Paths, ToSet
<1>8. TodoOnce'
  BY <1>1, <1>6 DEF MulticastSenderAssumption, IsInjective, TodoOnce
<1>9. TypeOK'
  BY <1>1, <1>3, <1>6 DEF IInv, TypeOK, Places, limitVars, connVars
<1>10. LockIsHeld'
  BY <1>1 DEF IInv, TypeOK, LockIsHeld, Holding, MulticastSenderAssumption
<1>11. ReadyIsFree'
  BY <1>1 DEF IInv, TypeOK, ReadyIsFree
<1>12. Progress'
  BY <1>1, <1>2, <1>5, <1>7 DEF Progress
<1>13. Counting'
  BY <1>2, <1>3, <1>7 DEF Counting
<1> QED
  BY <1>1, <1>8, <1>9, <1>10, <1>11, <1>12, <1>13
  DEF IInv, SameDataOnEveryPath, CountedIsSent, limitVars

(* The end of a round: the packet counts if every path has sent all of it. *)
LEMMA EndRoundInv ==
  ASSUME MulticastSenderAssumption, IInv, NEW p \in Paths, EndRound(p)
  PROVE  IInv'
<1>1. /\ pc[p] = "sending" /\ todo = <<>>
      /\ totBytes' = totBytes + Counted /\ lock' = NULL
      /\ pc' = [pc EXCEPT ![p] = "polling"]
      /\ UNCHANGED <<limited, maxBytes, connVars, packet, todo, whole, ready, ref, announced, wire>>
  BY DEF EndRound, Goto
<1>2. packet \in Nat /\ totBytes \in Nat /\ totBytes < packet /\ Counted \in 0 .. 1
  BY <1>1 DEF IInv, TypeOK, Counting, Counted
<1>3. totBytes' \in 0 .. packet'
  BY <1>1, <1>2
<1>4. \A q \in Paths : ~InTodo(q)
  BY <1>1 DEF InTodo
<1>5. \A q \in Paths : pc'[q] \notin Holding
  BY <1>1 DEF IInv, TypeOK, LockIsHeld, Holding
<1>6. TypeOK'
  BY <1>1, <1>3 DEF IInv, TypeOK, Places, connVars
<1>7. LockIsHeld'
  BY <1>1, <1>5 DEF LockIsHeld
<1>8. ReadyIsFree'
  BY <1>1 DEF IInv, TypeOK, ReadyIsFree
<1>9. Progress' /\ TodoOnce'
  BY <1>1 DEF IInv, Progress, TodoOnce, InTodo
<1>10. Counting'
  BY <1>2, <1>3, <1>5 DEF Counting, Holding
<1>11. CountedIsSent'
  <2> SUFFICES ASSUME NEW r \in Paths
               PROVE  totBytes' * 2 <= Len(wire[r])
    BY <1>1 DEF CountedIsSent, Parts
  <2>1. totBytes * 2 <= Len(wire[r]) /\ Len(wire[r]) \in Nat
    BY DEF IInv, CountedIsSent, Parts, TypeOK
  <2>2. CASE whole
    <3>1. Len(wire[r]) = 2 * packet
      BY <2>2, <1>1, <1>4 DEF IInv, Counting
    <3> QED
      BY <3>1, <1>1, <1>2
  <2>3. CASE ~whole
    BY <2>1, <2>3, <1>1, <1>2 DEF Counted
  <2> QED
    BY <2>2, <2>3
<1> QED
  BY <1>1, <1>6, <1>7, <1>8, <1>9, <1>10, <1>11 DEF IInv, SameDataOnEveryPath

----------------------------------------------------------------------------
LEMMA NextInv ==
  ASSUME MulticastSenderAssumption, IInv, [Next]_vars
  PROVE  IInv'
<1>1. ASSUME NEW p \in Paths, Thread(p) \/ Wake(p)
      PROVE  IInv'
  BY <1>1, QuietInv, ParkingInv, ResendInv, SendInv, NewPacketInv, EndRoundInv DEF Thread
<1>2. CASE InteractiveInput
  BY <1>2, ParkingInv
<1>3. CASE UNCHANGED vars
  BY <1>3 DEF IInv, TypeOK, LockIsHeld, TodoOnce, ReadyIsFree, Progress, InTodo, Counting,
              SameDataOnEveryPath, CountedIsSent, PartsSent, Parts,
              vars, limitVars, connVars, roundVars
<1> QED
  BY <1>1, <1>2, <1>3 DEF Next

LEMMA Invariance == Spec => []IInv
<1>1. Init => IInv
  BY MulticastSenderAssumption, InitInv
<1>2. IInv /\ [Next]_vars => IInv'
  BY MulticastSenderAssumption, NextInv
<1> QED
  BY <1>1, <1>2, PTL DEF Spec

(* Every variable has its type, and the total counts packets that exist. *)
THEOREM TypeCorrect == Spec => []TypeOK
<1>1. IInv => TypeOK
  BY DEF IInv
<1> QED
  BY <1>1, Invariance, PTL

(* The sockets of all paths carry the parts of packet 1, then those of packet 2, and so
   on: SendData rewrites the shared packet only when no path needs it any more, whoever
   of the threads finds them all ready. *)
THEOREM SameData == Spec => []SameDataOnEveryPath
<1>1. IInv => SameDataOnEveryPath
  BY DEF IInv
<1> QED
  BY <1>1, Invariance, PTL

(* m_totBytes never counts a packet that one of the paths has not sent whole. *)
THEOREM CountedHasBeenSent == Spec => []CountedIsSent
<1>1. IInv => CountedIsSent
  BY DEF IInv
<1> QED
  BY <1>1, Invariance, PTL
=============================================================================
