-------------------------- MODULE PeerSetupProofs --------------------------
(***************************************************************************)
(* The state of PeerSetup is well typed, and a connection is bound to the  *)
(* path its peer has named, for any number of listening sockets, paths and *)
(* connections, whatever the identifiers come in.                          *)
(***************************************************************************)
EXTENDS PeerSetup, TLAPS

(* WaitForFlowIdentifier counts what it has taken, less the timeouts. *)
LengthsAgree ==
  \A c \in Conns : taken[c] <= came[c] /\ recvLen[c] = taken[c] - timeouts[c]

(* A thread leaves the loop with an identifier while the system runs, and its
   connection is not bound before. *)
Identified ==
  \A c \in Conns :
    /\ recv[c] \in {"none", "identifying", "binding"} => bound[c] = NULL
    /\ running /\ recv[c] = "binding" => taken[c] >= IdLen

IInv == TypeOK /\ LengthsAgree /\ Identified /\ RightPath

(* The threads of the proxy that do not touch connections. *)
Elsewhere ==
  \/ \E l \in Listeners : BeginListen(l) \/ ListenCreated(l) \/ BindAndListen(l)
                            \/ ListenLoop(l) \/ AcceptFails(l)
  \/ \E p \in SendPaths : Sender(p) \/ AskForPeer(p) \/ RemoteListens(p)
  \/ Join

----------------------------------------------------------------------------
(* The lengths, and what is known of a stream, as numbers. *)
LEMMA Numbers ==
  ASSUME PeerSetupAssumption
  PROVE  /\ IdLen \in Nat /\ 0 < IdLen /\ MaxData \in Nat
         /\ MaxTimeouts \in Nat /\ MaxBindFails \in Nat
  BY DEF PeerSetupAssumption

LEMMA StreamTypes ==
  ASSUME PeerSetupAssumption, TypeOK, NEW c \in Conns
  PROVE  /\ came[c] \in Nat /\ came[c] <= IdLen + MaxData
         /\ taken[c] \in Nat /\ taken[c] <= IdLen + MaxData
         /\ recvLen[c] \in Int /\ timeouts[c] \in Nat /\ timeouts[c] <= MaxTimeouts
<1>1. came[c] \in 0 .. IdLen + MaxData /\ taken[c] \in 0 .. IdLen + MaxData
  BY DEF TypeOK
<1>2. recvLen[c] \in -MaxTimeouts .. IdLen + MaxData /\ timeouts[c] \in 0 .. MaxTimeouts
  BY DEF TypeOK
<1> QED
  BY <1>1, <1>2, Numbers

(* What the listening threads, the send peers and the joins leave alone. *)
LEMMA ElsewhereLeavesAlone ==
  ASSUME Elsewhere
  PROVE  UNCHANGED <<running, recv, streamVars, peerVars>>
  BY DEF Elsewhere, BeginListen, ListenCreated, BindAndListen, ListenLoop, AcceptFails,
         Sender, BeginConnect, LockCreation, SocketCreated, BindLocal, Connect,
         SendIdentifier, SenderEnds, AskForPeer, RemoteListens, Join, JoinSenders,
         JoinListeners, JoinReaders, vars

(* They keep their own variables typed. *)
LEMMA ListenerTyped ==
  ASSUME TypeOK, NEW l \in Listeners,
         BeginListen(l) \/ ListenCreated(l) \/ BindAndListen(l) \/ ListenLoop(l)
           \/ AcceptFails(l)
  PROVE  TypeOK'
<1>1. /\ lock' \in Listeners \cup SendPaths \cup {NULL}
      /\ listen' \in [Listeners -> {"locking", "creating", "binding",
                                    "looping", "accepting", "ended"}]
  BY DEF TypeOK, BeginListen, ListenCreated, BindAndListen, ListenLoop, AcceptFails,
         ListenGoes, Lock, Unlock
<1>2. UNCHANGED <<running, main, bindFails, shut, sendVars, recv, streamVars, peerVars>>
  BY DEF BeginListen, ListenCreated, BindAndListen, ListenLoop, AcceptFails
<1> QED
  BY <1>1, <1>2 DEF TypeOK, sendVars, streamVars, peerVars

LEMMA SenderTyped ==
  ASSUME PeerSetupAssumption, TypeOK, NEW p \in SendPaths,
         Sender(p) \/ AskForPeer(p) \/ RemoteListens(p)
  PROVE  TypeOK'
<1>1. UNCHANGED <<running, main, listenVars, recv, streamVars, peerVars>>
  BY DEF Sender, BeginConnect, LockCreation, SocketCreated, BindLocal, Connect,
         SendIdentifier, SenderEnds, AskForPeer, RemoteListens
<1>2. lock' \in Listeners \cup SendPaths \cup {NULL}
  BY DEF TypeOK, Sender, BeginConnect, LockCreation, SocketCreated, BindLocal, Connect,
         SendIdentifier, SenderEnds, AskForPeer, RemoteListens, Lock, Unlock
<1>3. bindFails' \in 0 .. MaxBindFails
  <2>1. bindFails' = bindFails \/ (bindFails < MaxBindFails /\ bindFails' = bindFails + 1)
    BY DEF Sender, BeginConnect, LockCreation, SocketCreated, BindLocal, Connect,
           SendIdentifier, SenderEnds, AskForPeer, RemoteListens
  <2>2. bindFails \in 0 .. MaxBindFails
    BY DEF TypeOK
  <2> QED
    BY <2>1, <2>2, Numbers
<1>4. send' \in [SendPaths -> {"none", "starting", "locking", "creating", "connecting",
                              "identifying", "ready", "ended"}]
  BY DEF TypeOK, Sender, BeginConnect, LockCreation, SocketCreated, BindLocal, Connect,
         SendIdentifier, SenderEnds, AskForPeer, RemoteListens, SendGoes, GetSendPeer
<1>5. remote' \in [SendPaths -> BOOLEAN]
  BY DEF TypeOK, Sender, BeginConnect, LockCreation, SocketCreated, BindLocal, Connect,
         SendIdentifier, SenderEnds, AskForPeer, RemoteListens
<1>6. idSent' \in [SendPaths -> 0 .. IdLen]
  <2>1. UNCHANGED idSent
          \/ \E n \in 1 .. IdLen - idSent[p] : idSent' = [idSent EXCEPT ![p] = @ + n]
    BY DEF Sender, BeginConnect, LockCreation, SocketCreated, BindLocal, Connect,
           SendIdentifier, SenderEnds, AskForPeer, RemoteListens
  <2>2. idSent \in [SendPaths -> 0 .. IdLen]
    BY DEF TypeOK
  <2>3. \A n \in 1 .. IdLen - idSent[p] : idSent[p] + n \in 0 .. IdLen
    BY <2>2, Numbers
  <2> QED
    BY <2>1, <2>2, <2>3
<1> QED
  BY <1>1, <1>2, <1>3, <1>4, <1>5, <1>6 DEF TypeOK, listenVars, streamVars, peerVars

----------------------------------------------------------------------------
LEMMA InitInv ==
  ASSUME PeerSetupAssumption, Init
  PROVE  IInv
  BY DEF PeerSetupAssumption, Init, IInv, TypeOK, LengthsAgree, Identified, RightPath

LEMMA ElsewhereInv ==
  ASSUME PeerSetupAssumption, IInv, Elsewhere
  PROVE  IInv'
<1>1. TypeOK'
  <2>1. CASE Join
    BY <2>1 DEF IInv, TypeOK, Join, JoinSenders, JoinListeners, JoinReaders,
                listenVars, sendVars, streamVars, peerVars
  <2> QED
    BY <2>1, ListenerTyped, SenderTyped DEF Elsewhere, IInv
<1>2. UNCHANGED <<running, recv, streamVars, peerVars>>
  BY ElsewhereLeavesAlone
<1> QED
  BY <1>1, <1>2 DEF IInv, LengthsAgree, Identified, RightPath, streamVars, peerVars

LEMMA HandleAcceptInv ==
  ASSUME PeerSetupAssumption, IInv, NEW l \in Listeners, NEW c \in Conns, HandleAccept(l, c)
  PROVE  IInv'
  BY DEF HandleAccept, ListenGoes, IInv, TypeOK, LengthsAgree, Identified, RightPath,
         sendVars, streamVars, peerVars

LEMMA ReceiveIdentifierInv ==
  ASSUME PeerSetupAssumption, IInv, NEW c \in Conns, ReceiveIdentifier(c)
  PROVE  IInv'
<1> DEFINE n == IF came[c] - taken[c] < IdLen THEN came[c] - taken[c] ELSE IdLen
<1>1. /\ recv[c] = "identifying" /\ came[c] > taken[c]
      /\ taken' = [taken EXCEPT ![c] = @ + n]
      /\ recvLen' = [recvLen EXCEPT ![c] = @ + n]
      /\ IF recvLen[c] + n >= IdLen
         THEN recv' = [recv EXCEPT ![c] = "binding"] ELSE UNCHANGED recv
      /\ UNCHANGED <<running, main, lock, bindFails, listenVars, sendVars, came,
                     timeouts, peerVars>>
  BY DEF ReceiveIdentifier, Received, RecvGoes
<1>2. /\ came[c] \in Nat /\ came[c] <= IdLen + MaxData /\ taken[c] \in Nat
      /\ recvLen[c] = taken[c] - timeouts[c]
      /\ timeouts[c] \in Nat /\ timeouts[c] <= MaxTimeouts
  BY StreamTypes DEF IInv, LengthsAgree
<1>3. n \in Nat /\ n > 0 /\ taken[c] + n <= came[c]
  BY <1>1, <1>2, Numbers
<1>4. taken'[c] = taken[c] + n /\ recvLen'[c] = recvLen[c] + n
  BY <1>1 DEF IInv, TypeOK
<1>5. \A d \in Conns \ {c} : taken'[d] = taken[d] /\ recvLen'[d] = recvLen[d] /\ recv'[d] = recv[d]
  BY <1>1 DEF IInv, TypeOK
<1> HIDE DEF n
<1>6. LengthsAgree'
  <2> SUFFICES ASSUME NEW d \in Conns
               PROVE  taken'[d] <= came[d] /\ recvLen'[d] = taken'[d] - timeouts[d]
    BY <1>1 DEF LengthsAgree
  <2>1. CASE d = c
    BY <2>1, <1>2, <1>3, <1>4
  <2>2. CASE d # c
    BY <2>2, <1>5 DEF IInv, LengthsAgree
  <2> QED
    BY <2>1, <2>2
<1>7. taken[c] + n \in 0 .. IdLen + MaxData /\ recvLen[c] + n \in -MaxTimeouts .. IdLen + MaxData
  BY <1>2, <1>3, Numbers
<1>8. recv' \in [Conns -> {"none", "identifying", "binding", "forwarding", "reading", "ended"}]
  <2>1. recv \in [Conns -> {"none", "identifying", "binding", "forwarding", "reading", "ended"}]
    BY DEF IInv, TypeOK
  <2>2. recv' = [recv EXCEPT ![c] = "binding"] \/ recv' = recv
    BY <1>1
  <2> QED
    BY <2>1, <2>2
<1>9. TypeOK'
  <2>1. taken' \in [Conns -> 0 .. IdLen + MaxData]
    BY <1>1, <1>7 DEF IInv, TypeOK
  <2>2. recvLen' \in [Conns -> -MaxTimeouts .. IdLen + MaxData]
    BY <1>1, <1>7 DEF IInv, TypeOK
  <2> QED
    BY <1>1, <1>8, <2>1, <2>2 DEF IInv, TypeOK, listenVars, sendVars, peerVars
<1>10. recv'[c] \in {"identifying", "binding"} /\ (recv'[c] = "binding" => taken'[c] >= IdLen)
  <2>1. recv'[c] = "identifying" \/ (recv'[c] = "binding" /\ recvLen[c] + n >= IdLen)
    BY <1>1 DEF IInv, TypeOK
  <2>2. recvLen[c] + n >= IdLen => taken'[c] >= IdLen
    BY <1>2, <1>3, <1>4, Numbers
  <2> QED
    BY <2>1, <2>2
<1>11. Identified'
  BY <1>1, <1>5, <1>10 DEF IInv, Identified, peerVars
<1>12. RightPath'
  BY <1>1 DEF IInv, RightPath, peerVars
<1> QED
  BY <1>6, <1>9, <1>11, <1>12 DEF IInv

LEMMA ReceiveTimeoutInv ==
  ASSUME PeerSetupAssumption, IInv, NEW c \in Conns, ReceiveTimeout(c)
  PROVE  IInv'
<1>1. /\ recv[c] = "identifying" /\ timeouts[c] < MaxTimeouts
      /\ timeouts' = [timeouts EXCEPT ![c] = @ + 1]
      /\ recvLen' = [recvLen EXCEPT ![c] = @ - 1]
      /\ UNCHANGED <<running, main, lock, bindFails, listenVars, sendVars, recv, came,
                     taken, peerVars>>
  BY DEF ReceiveTimeout
<1>2. /\ taken[c] \in Nat /\ taken[c] <= IdLen + MaxData
      /\ recvLen[c] = taken[c] - timeouts[c]
      /\ timeouts[c] \in Nat
  BY StreamTypes DEF IInv, LengthsAgree
<1>3. /\ timeouts[c] + 1 \in 0 .. MaxTimeouts
      /\ recvLen[c] - 1 \in -MaxTimeouts .. IdLen + MaxData
  BY <1>1, <1>2, Numbers
<1>4. TypeOK'
  BY <1>1, <1>3 DEF IInv, TypeOK, listenVars, sendVars, peerVars
<1>5. LengthsAgree'
  <2> SUFFICES ASSUME NEW d \in Conns
               PROVE  taken[d] <= came[d] /\ recvLen'[d] = taken[d] - timeouts'[d]
    BY <1>1 DEF LengthsAgree
  <2>1. CASE d = c
    <3>1. timeouts'[c] = timeouts[c] + 1 /\ recvLen'[c] = recvLen[c] - 1
      BY <1>1 DEF IInv, TypeOK
    <3> QED
      BY <2>1, <3>1, <1>2 DEF IInv, LengthsAgree
  <2>2. CASE d # c
    BY <1>1, <2>2 DEF IInv, TypeOK, LengthsAgree
  <2> QED
    BY <2>1, <2>2
<1> QED
  BY <1>1, <1>4, <1>5 DEF IInv, Identified, RightPath, peerVars

LEMMA GiveUpInv ==
  ASSUME PeerSetupAssumption, IInv, NEW c \in Conns, GiveUpIdentifying(c)
  PROVE  IInv'
  BY DEF GiveUpIdentifying, RecvGoes, IInv, TypeOK, LengthsAgree, Identified, RightPath,
         listenVars, sendVars, streamVars, peerVars

(* The step that matters: while the system runs the identifier is whole, and no
   other connection is of the same path. *)
LEMMA BindConnectionInv ==
  ASSUME PeerSetupAssumption, IInv, NEW c \in Conns, BindConnection(c)
  PROVE  IInv'
<1> DEFINE p == IF taken[c] >= IdLen THEN PathOf[c] ELSE Zero
<1>1. /\ recv[c] = "binding"
      /\ bound' = [bound EXCEPT ![c] = p] /\ socket' = [socket EXCEPT ![p] = c]
      /\ taken' = [taken EXCEPT ![c] = 0] /\ came' = [came EXCEPT ![c] = 0]
      /\ recvLen' = [recvLen EXCEPT ![c] = 0] /\ timeouts' = [timeouts EXCEPT ![c] = 0]
      /\ recv' = [recv EXCEPT ![c] = "forwarding"]
      /\ UNCHANGED <<running, main, lock, bindFails, listenVars, sendVars>>
  BY DEF BindConnection, RecvGoes
<1>2. p \in RecvPaths
  BY DEF RecvPaths
<1>3. 0 \in 0 .. IdLen + MaxData /\ 0 \in -MaxTimeouts .. IdLen + MaxData /\ 0 \in 0 .. MaxTimeouts
  BY DEF PeerSetupAssumption
<1>4. TypeOK'
  <2>1. came' \in [Conns -> 0 .. IdLen + MaxData] /\ taken' \in [Conns -> 0 .. IdLen + MaxData]
    BY <1>1, <1>3 DEF IInv, TypeOK
  <2>2. recvLen' \in [Conns -> -MaxTimeouts .. IdLen + MaxData]
    BY <1>1, <1>3 DEF IInv, TypeOK
  <2>3. timeouts' \in [Conns -> 0 .. MaxTimeouts]
    BY <1>1, <1>3 DEF IInv, TypeOK
  <2>4. bound' \in [Conns -> RecvPaths \cup {NULL}] /\ socket' \in [RecvPaths -> Conns \cup {NULL}]
    BY <1>1, <1>2 DEF IInv, TypeOK
  <2>5. recv' \in [Conns -> {"none", "identifying", "binding", "forwarding", "reading", "ended"}]
    BY <1>1 DEF IInv, TypeOK
  <2> QED
    BY <1>1, <2>1, <2>2, <2>3, <2>4, <2>5 DEF IInv, TypeOK, listenVars, sendVars
<1>5. LengthsAgree'
  <2> SUFFICES ASSUME NEW d \in Conns
               PROVE  taken'[d] <= came'[d] /\ recvLen'[d] = taken'[d] - timeouts'[d]
    BY DEF LengthsAgree
  <2>1. CASE d = c
    <3>1. taken'[d] = 0 /\ came'[d] = 0 /\ recvLen'[d] = 0 /\ timeouts'[d] = 0
      BY <1>1, <2>1 DEF IInv, TypeOK
    <3> QED
      BY <3>1
  <2>2. CASE d # c
    <3>1. /\ taken'[d] = taken[d] /\ came'[d] = came[d]
          /\ recvLen'[d] = recvLen[d] /\ timeouts'[d] = timeouts[d]
      BY <1>1, <2>2 DEF IInv, TypeOK
    <3> QED
      BY <3>1 DEF IInv, LengthsAgree
  <2> QED
    BY <2>1, <2>2
<1>6. Identified'
  BY <1>1 DEF IInv, TypeOK, Identified
<1>7. RightPath'
  <2> SUFFICES ASSUME running, NEW d \in Conns, bound'[d] # NULL
               PROVE  bound'[d] = PathOf[d] /\ socket'[PathOf[d]] = d
    BY <1>1 DEF RightPath
  <2>1. p = PathOf[c]
    BY <1>1 DEF IInv, Identified
  <2>2. CASE d = c
    BY <1>1, <1>2, <2>1, <2>2 DEF IInv, TypeOK
  <2>3. CASE d # c
    <3>1. bound[d] = PathOf[d] /\ socket[PathOf[d]] = d /\ bound'[d] = bound[d]
      BY <1>1, <2>3 DEF IInv, TypeOK, RightPath
    <3>2. PathOf[d] # p
      BY <2>1, <2>3 DEF PeerSetupAssumption
    <3>3. PathOf[d] \in RecvPaths
      BY DEF RecvPaths
    <3> QED
      BY <1>1, <3>1, <3>2, <3>3 DEF IInv, TypeOK
  <2> QED
    BY <2>2, <2>3
<1> QED
  BY <1>4, <1>5, <1>6, <1>7 DEF IInv

LEMMA FindForwardPeerInv ==
  ASSUME PeerSetupAssumption, IInv, NEW c \in Conns, FindForwardPeer(c)
  PROVE  IInv'
<1>1. /\ recv[c] = "forwarding" /\ recv' = [recv EXCEPT ![c] = "reading"]
      /\ UNCHANGED <<running, main, lock, bindFails, listenVars, remote, idSent,
                     streamVars, peerVars>>
  BY DEF FindForwardPeer, RecvGoes
<1>2. send' \in [SendPaths -> {"none", "starting", "locking", "creating", "connecting",
                              "identifying", "ready", "ended"}]
  <2>1. UNCHANGED send
          \/ \E p \in DOMAIN Forward : send' = [send EXCEPT ![Forward[p]] = "starting"]
    BY DEF FindForwardPeer, GetSendPeer, SendGoes
  <2> QED
    BY <2>1 DEF PeerSetupAssumption, IInv, TypeOK
<1>3. TypeOK'
  BY <1>1, <1>2 DEF IInv, TypeOK, listenVars, streamVars, peerVars
<1> QED
  BY <1>1, <1>3 DEF IInv, TypeOK, LengthsAgree, Identified, RightPath, streamVars, peerVars

LEMMA ReaderEndsInv ==
  ASSUME PeerSetupAssumption, IInv, NEW c \in Conns, ReaderEnds(c)
  PROVE  IInv'
  BY DEF ReaderEnds, RecvGoes, IInv, TypeOK, LengthsAgree, Identified, RightPath,
         listenVars, sendVars, streamVars, peerVars

LEMMA StopInv ==
  ASSUME PeerSetupAssumption, IInv, Stop
  PROVE  IInv'
  BY DEF Stop, IInv, TypeOK, LengthsAgree, Identified, RightPath,
         sendVars, streamVars, peerVars

LEMMA WriteInv ==
  ASSUME PeerSetupAssumption, IInv, NEW c \in Conns, Write(c)
  PROVE  IInv'
<1>1. /\ came[c] < IdLen + MaxData /\ came' = [came EXCEPT ![c] = @ + 1]
      /\ UNCHANGED <<running, main, lock, bindFails, listenVars, sendVars, recv,
                     taken, recvLen, timeouts, peerVars>>
  BY DEF Write
<1>2. came[c] \in Nat /\ taken[c] \in Nat /\ taken[c] <= came[c]
  BY StreamTypes DEF IInv, LengthsAgree
<1>3. came[c] + 1 \in 0 .. IdLen + MaxData
  BY <1>1, <1>2, Numbers
<1>4. TypeOK'
  BY <1>1, <1>3 DEF IInv, TypeOK, listenVars, sendVars, peerVars
<1>5. LengthsAgree'
  <2> SUFFICES ASSUME NEW d \in Conns
               PROVE  taken[d] <= came'[d] /\ recvLen[d] = taken[d] - timeouts[d]
    BY <1>1 DEF LengthsAgree
  <2>1. taken[d] <= came[d] /\ recvLen[d] = taken[d] - timeouts[d]
    BY DEF IInv, LengthsAgree
  <2>2. CASE d = c
    <3>1. came'[c] = came[c] + 1
      BY <1>1 DEF IInv, TypeOK
    <3> QED
      BY <2>1, <2>2, <3>1, <1>2
  <2>3. CASE d # c
    BY <1>1, <2>1, <2>3 DEF IInv, TypeOK
  <2> QED
    BY <2>2, <2>3
<1> QED
  BY <1>1, <1>4, <1>5 DEF IInv, Identified, RightPath, peerVars

LEMMA NextInv ==
  ASSUME PeerSetupAssumption, IInv, [Next]_vars
  PROVE  IInv'
<1>1. CASE Elsewhere
  BY <1>1, ElsewhereInv
<1>2. ASSUME NEW l \in Listeners, NEW c \in Conns, HandleAccept(l, c)
      PROVE  IInv'
  BY <1>2, HandleAcceptInv
<1>3. ASSUME NEW c \in Conns, Reader(c)
      PROVE  IInv'
  BY <1>3, ReceiveIdentifierInv, ReceiveTimeoutInv, GiveUpInv, BindConnectionInv,
     FindForwardPeerInv, ReaderEndsInv DEF Reader
<1>4. CASE Stop
  BY <1>4, StopInv
<1>5. ASSUME NEW c \in Conns, Write(c)
      PROVE  IInv'
  BY <1>5, WriteInv
<1>6. CASE UNCHANGED vars
  BY <1>6 DEF vars, listenVars, sendVars, streamVars, peerVars, IInv, TypeOK,
              LengthsAgree, Identified, RightPath
<1> QED
  BY <1>1, <1>2, <1>3, <1>4, <1>5, <1>6 DEF Next, Listener, Peers, Elsewhere

----------------------------------------------------------------------------
(* The variables of the set-up code have the values it gives them, for every number
   of sockets, paths and connections and every length of the identifier. *)
THEOREM TypeCorrect == Spec => []TypeOK
<1>1. PeerSetupAssumption
  BY PeerSetupAssumption
<1>2. Init => IInv
  BY <1>1, InitInv
<1>3. IInv /\ [Next]_vars => IInv'
  BY <1>1, NextInv
<1>4. IInv => TypeOK
  BY DEF IInv
<1> QED
  BY <1>2, <1>3, <1>4, PTL DEF Spec

(* However the identifiers are cut into pieces and delayed, while the system runs a
   connection is bound to the path its upstream peer has named, and the receive peer
   of that path keeps reading from it. *)
THEOREM BoundToTheirPaths == Spec => []RightPath
<1>1. PeerSetupAssumption
  BY PeerSetupAssumption
<1>2. Init => IInv
  BY <1>1, InitInv
<1>3. IInv /\ [Next]_vars => IInv'
  BY <1>1, NextInv
<1>4. IInv => RightPath
  BY DEF IInv
<1> QED
  BY <1>2, <1>3, <1>4, PTL DEF Spec
=============================================================================
