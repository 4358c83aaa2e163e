----------------------------- MODULE PeerSetup -----------------------------
(***************************************************************************)
(* How the connections of one proxy come up and go down                    *)
(* (implementation/src/proxy/sources/tcp-proxy.{h,cc}).                    *)
(*                                                                         *)
(* A listening thread per address accepts connections; each gets a thread  *)
(* that reads the flow identifier, binds the connection to the receive     *)
(* peer of its path and asks for the send peer of the path it forwards to. *)
(* Workers ask for send peers as well.  The first one to ask starts the    *)
(* thread that connects the peer and sends its flow identifier.  Sockets   *)
(* are created under m_socket_creation.  When the system stops, the main   *)
(* thread joins all of them in the destructor.                             *)
(*                                                                         *)
(* A failed attempt that changes nothing is a stuttering step.  What is    *)
(* carried after the identifiers is left to ProxySend and CodecPipeline,   *)
(* and so is what a thread does with a receive peer that ~TcpProxy has     *)
(* deleted under it.                                                       *)
(***************************************************************************)
EXTENDS Integers

CONSTANTS
  NetListeners, LocalListeners, \* m_listen_peer and m_local_listen_peer
  NetPaths,     \* paths sent to other proxies, from an assigned local address
  LocalPaths,   \* paths sent to receivers on this host
  NetConns, LocalConns, \* connections from other proxies and from senders here
  PathOf,       \* the path each of them carries
  Forward,      \* m_forward_paths
  IdLen,        \* bytes of a flow identifier: 4
  MaxData,      \* bound: bytes of data behind an identifier
  MaxTimeouts,  \* bound: receive timeouts per connection
  MaxBindFails, \* bound: calls of BindLocal that fail
  NULL          \* no thread, no path, no connection

Listeners == NetListeners \cup LocalListeners
SendPaths == NetPaths \cup LocalPaths
Conns == NetConns \cup LocalConns

(* The path of a header nothing was read into. *)
Zero == 0
RecvPaths == {PathOf[c] : c \in Conns} \cup {Zero}

(* An upstream peer opens one connection for each path it sends on. *)
ASSUME PeerSetupAssumption ==
  /\ SendPaths \cup RecvPaths \subseteq Nat
  /\ \A c, d \in Conns : PathOf[c] = PathOf[d] => c = d
  /\ DOMAIN Forward \subseteq RecvPaths /\ \A p \in DOMAIN Forward : Forward[p] \in SendPaths
  /\ IdLen \in Nat \ {0}
  /\ MaxData \in Nat /\ MaxTimeouts \in Nat /\ MaxBindFails \in Nat
  /\ NULL \notin Listeners \cup Conns \cup Nat

VARIABLES
  running,   \* system_parameters.isRunning()
  main,      \* where the main thread is
  lock,      \* the thread that holds m_socket_creation
  bindFails, \* number of failed calls of BindLocal, for the bound
  listen,    \* where each listening thread is
  shut,      \* listening sockets setRunning(false) has shut down
  send,      \* where the thread of each send peer is, "none": no such peer
  remote,    \* the far end of each path listens
  idSent,    \* bytes of the identifier written to each path
  recv,      \* where each connection and its thread are
  came,      \* bytes of each connection the peer has written
  taken,     \* bytes WaitForFlowIdentifier has taken off it
  recvLen,   \* its variable recv_len
  timeouts,  \* number of receive timeouts, for the bound
  bound,     \* the path it has been bound to
  socket     \* m_socket of the receive peer of each path

listenVars == <<listen, shut>>
sendVars == <<send, remote, idSent>>
streamVars == <<came, taken, recvLen, timeouts>>
peerVars == <<bound, socket>>
vars == <<running, main, lock, bindFails, listenVars, sendVars, recv, streamVars, peerVars>>

TypeOK ==
  /\ running \in BOOLEAN
  /\ main \in {"working", "joining senders", "joining listeners", "joining readers", "gone"}
  /\ lock \in Listeners \cup SendPaths \cup {NULL}
  /\ bindFails \in 0 .. MaxBindFails
  /\ listen \in [Listeners -> {"locking", "creating", "binding",
                               "looping", "accepting", "ended"}]
  /\ shut \subseteq Listeners
  /\ send \in [SendPaths -> {"none", "starting", "locking", "creating",
                             "connecting", "identifying", "ready", "ended"}]
  /\ remote \in [SendPaths -> BOOLEAN]
  /\ idSent \in [SendPaths -> 0 .. IdLen]
  /\ recv \in [Conns -> {"none", "identifying", "binding", "forwarding",
                         "reading", "ended"}]
  /\ came \in [Conns -> 0 .. IdLen + MaxData]
  /\ taken \in [Conns -> 0 .. IdLen + MaxData]
  /\ recvLen \in [Conns -> -MaxTimeouts .. IdLen + MaxData]
  /\ timeouts \in [Conns -> 0 .. MaxTimeouts]
  /\ bound \in [Conns -> RecvPaths \cup {NULL}]
  /\ socket \in [RecvPaths -> Conns \cup {NULL}]

Init ==
  /\ running = TRUE /\ main = "working" /\ lock = NULL /\ bindFails = 0
  /\ listen = [l \in Listeners |-> "locking"] /\ shut = {}
  /\ send = [p \in SendPaths |-> "none"]
  /\ remote = [p \in SendPaths |-> FALSE]
  /\ idSent = [p \in SendPaths |-> 0]
  /\ recv = [c \in Conns |-> "none"]
  /\ came = [c \in Conns |-> 0]
  /\ taken = [c \in Conns |-> 0] /\ recvLen = [c \in Conns |-> 0]
  /\ timeouts = [c \in Conns |-> 0]
  /\ bound = [c \in Conns |-> NULL]
  /\ socket = [p \in RecvPaths |-> NULL]

Lock(t) == lock = NULL /\ lock' = t
Unlock(t) == lock = t /\ lock' = NULL

----------------------------------------------------------------------------
(* ListenLocal *)

ListenGoes(l, place) == listen' = [listen EXCEPT ![l] = place]

BeginListen(l) ==
  /\ listen[l] = "locking"
  /\ Lock(l)
  /\ ListenGoes(l, "creating")
  /\ UNCHANGED <<running, main, bindFails, shut, sendVars, recv, streamVars, peerVars>>

(* The loop around CreateSocket ends with a socket, or, of a network address,
   when the system stops: then Bind is called on a null pointer, which is not
   modelled. *)
ListenCreated(l) ==
  /\ listen[l] = "creating"
  /\ Unlock(l)
  /\ ListenGoes(l, "binding")
  /\ UNCHANGED <<running, main, bindFails, shut, sendVars, recv, streamVars, peerVars>>

(* Bind, Listen and registerListeningSocket; the thread returns if one of the
   first two fails. *)
BindAndListen(l) ==
  /\ listen[l] = "binding"
  /\ \E place \in {"looping", "ended"} : ListenGoes(l, place)
  /\ UNCHANGED <<running, main, lock, bindFails, shut, sendVars, recv, streamVars, peerVars>>

Registered(l) == listen[l] \in {"looping", "accepting"}

ListenLoop(l) ==
  /\ listen[l] = "looping"
  /\ ListenGoes(l, IF running THEN "accepting" ELSE "ended")
  /\ UNCHANGED <<running, main, lock, bindFails, shut, sendVars, recv, streamVars, peerVars>>

Accepts(l, c) == l \in NetListeners <=> c \in NetConns

(* Accept returns a connection an upstream peer has opened, and HandleAccept
   starts its thread. *)
HandleAccept(l, c) ==
  /\ listen[l] = "accepting" /\ l \notin shut
  /\ Accepts(l, c) /\ recv[c] = "none"
  /\ recv' = [recv EXCEPT ![c] = "identifying"]
  /\ ListenGoes(l, "looping")
  /\ UNCHANGED <<running, main, lock, bindFails, shut, sendVars, streamVars, peerVars>>

(* Accept returns no connection: the socket has been shut down, or the timeout
   of a network socket has passed. *)
AcceptFails(l) ==
  /\ listen[l] = "accepting"
  /\ l \in shut \/ l \in NetListeners
  /\ ListenGoes(l, "looping")
  /\ UNCHANGED <<running, main, lock, bindFails, shut, sendVars, recv, streamVars, peerVars>>

Listener(l) ==
  \/ BeginListen(l) \/ ListenCreated(l) \/ BindAndListen(l) \/ ListenLoop(l)
  \/ AcceptFails(l) \/ \E c \in Conns : HandleAccept(l, c)

----------------------------------------------------------------------------
(* The thread of a send peer: ConnectPeerThread, PeerEstablished, PeerReady *)

SendGoes(p, place) == send' = [send EXCEPT ![p] = place]

(* GetSendPeer, under m_send_peer_lock: the first one to ask creates the peer. *)
GetSendPeer(p) == IF send[p] = "none" THEN SendGoes(p, "starting") ELSE UNCHANGED send

(* A worker hands an output of a coded path to its send peer. *)
AskForPeer(p) ==
  /\ main = "working" /\ send[p] = "none" /\ p \notin {Forward[q] : q \in DOMAIN Forward}
  /\ GetSendPeer(p)
  /\ UNCHANGED <<running, main, lock, bindFails, listenVars, remote, idSent, recv,
                 streamVars, peerVars>>

BeginConnect(p) ==
  /\ send[p] = "starting"
  /\ SendGoes(p, IF running THEN "locking" ELSE "ended")
  /\ UNCHANGED <<running, main, lock, bindFails, listenVars, remote, idSent, recv,
                 streamVars, peerVars>>

LockCreation(p) ==
  /\ send[p] = "locking"
  /\ Lock(p)
  /\ SendGoes(p, "creating")
  /\ UNCHANGED <<running, main, bindFails, listenVars, remote, idSent, recv,
                 streamVars, peerVars>>

(* Mutant of SocketCreated: the unlock is within the branch of network paths. *)
SocketCreatedKeepsLock(p) ==
  /\ send[p] = "creating" /\ p \in LocalPaths
  /\ SendGoes(p, "connecting")
  /\ UNCHANGED <<running, main, lock, bindFails, listenVars, remote, idSent, recv,
                 streamVars, peerVars>>

(* CreateIPCSocket has returned a socket.  Null pointers are not modelled, as in
   ListenCreated. *)
SocketCreated(p) ==
  /\ send[p] = "creating" /\ p \in LocalPaths
  /\ Unlock(p)
  /\ SendGoes(p, "connecting")
  /\ UNCHANGED <<running, main, bindFails, listenVars, remote, idSent, recv,
                 streamVars, peerVars>>

(* CreateSocket has returned a socket; if BindLocal fails the thread returns with
   the lock held. *)
BindLocal(p) ==
  /\ send[p] = "creating" /\ p \in NetPaths
  /\ \/ /\ Unlock(p)
        /\ SendGoes(p, "connecting")
        /\ UNCHANGED bindFails
     \/ /\ bindFails < MaxBindFails
        /\ bindFails' = bindFails + 1
        /\ SendGoes(p, "ended")
        /\ UNCHANGED lock
  /\ UNCHANGED <<running, main, listenVars, remote, idSent, recv, streamVars, peerVars>>

(* Mutant of Connect: the retry loop does not look at isRunning(). *)
ConnectForever(p) ==
  /\ send[p] = "connecting" /\ remote[p]
  /\ SendGoes(p, "identifying")
  /\ UNCHANGED <<running, main, lock, bindFails, listenVars, remote, idSent, recv,
                 streamVars, peerVars>>

(* Connect is retried until the far end listens or the system stops. *)
Connect(p) ==
  /\ send[p] = "connecting"
  /\ \/ remote[p] /\ SendGoes(p, "identifying")
     \/ ~running /\ SendGoes(p, "ended")
  /\ UNCHANGED <<running, main, lock, bindFails, listenVars, remote, idSent, recv,
                 streamVars, peerVars>>

(* Mutant of SendIdentifier: every attempt sends the packet from its beginning. *)
SendIdentifierAgain(p) ==
  /\ send[p] = "identifying" /\ running
  /\ \E n \in 1 .. IdLen :
       /\ idSent' = [idSent EXCEPT ![p] = @ + n]
       /\ IF n = IdLen THEN SendGoes(p, "ready") ELSE UNCHANGED send
  /\ UNCHANGED <<running, main, lock, bindFails, listenVars, remote, recv,
                 streamVars, peerVars>>

(* PeerEstablished: the socket may take the identifier in several parts. *)
SendIdentifier(p) ==
  /\ send[p] = "identifying" /\ running
  /\ \E n \in 1 .. IdLen - idSent[p] :
       /\ idSent' = [idSent EXCEPT ![p] = @ + n]
       /\ IF idSent[p] + n = IdLen THEN SendGoes(p, "ready") ELSE UNCHANGED send
  /\ UNCHANGED <<running, main, lock, bindFails, listenVars, remote, recv,
                 streamVars, peerVars>>

(* PeerReady, and PeerEstablished when the system stops. *)
SenderEnds(p) ==
  /\ send[p] \in {"identifying", "ready"} /\ ~running
  /\ SendGoes(p, "ended")
  /\ UNCHANGED <<running, main, lock, bindFails, listenVars, remote, idSent, recv,
                 streamVars, peerVars>>

Sender(p) ==
  \/ BeginConnect(p) \/ LockCreation(p) \/ SocketCreated(p) \/ BindLocal(p)
  \/ Connect(p) \/ SendIdentifier(p) \/ SenderEnds(p)

----------------------------------------------------------------------------
(* The thread of a connection: WaitForFlowIdentifier and HandleRead *)

RecvGoes(c, place) == recv' = [recv EXCEPT ![c] = place]

(* Mutant of Received: off by one. *)
ReceivedEarly(len) == len >= IdLen - 1

(* flow_identifier_received, from recv_len. *)
Received(len) == len >= IdLen

(* Recv returns what has come, at most IdLen bytes. *)
ReceiveIdentifier(c) ==
  /\ recv[c] = "identifying" /\ came[c] > taken[c]
  /\ LET n == IF came[c] - taken[c] < IdLen THEN came[c] - taken[c] ELSE IdLen IN
       /\ taken' = [taken EXCEPT ![c] = @ + n]
       /\ recvLen' = [recvLen EXCEPT ![c] = @ + n]
       /\ IF Received(recvLen[c] + n) THEN RecvGoes(c, "binding") ELSE UNCHANGED recv
  /\ UNCHANGED <<running, main, lock, bindFails, listenVars, sendVars, came,
                 timeouts, peerVars>>

(* Recv returns -1, which is added like a length. *)
ReceiveTimeout(c) ==
  /\ recv[c] = "identifying" /\ c \in NetConns /\ came[c] = taken[c]
  /\ timeouts[c] < MaxTimeouts
  /\ timeouts' = [timeouts EXCEPT ![c] = @ + 1]
  /\ recvLen' = [recvLen EXCEPT ![c] = @ - 1]
  /\ UNCHANGED <<running, main, lock, bindFails, listenVars, sendVars, recv, came,
                 taken, peerVars>>

(* The system stops.  On a local connection, which is without a timeout, the thread
   comes back from Recv with bytes or at the end of the stream only: that the sender
   at the other end stops as well is assumed. *)
GiveUpIdentifying(c) ==
  /\ recv[c] = "identifying" /\ ~running
  /\ RecvGoes(c, "binding")
  /\ UNCHANGED <<running, main, lock, bindFails, listenVars, sendVars, streamVars, peerVars>>

(* RemoveHeader leaves the header zero if there are too few bytes.  GetReceivePeer
   finds or creates the peer, whose socket is then set.  The stream is followed
   no further. *)
BindConnection(c) ==
  /\ recv[c] = "binding"
  /\ LET p == IF taken[c] >= IdLen THEN PathOf[c] ELSE Zero IN
       /\ bound' = [bound EXCEPT ![c] = p]
       /\ socket' = [socket EXCEPT ![p] = c]
  /\ taken' = [taken EXCEPT ![c] = 0]
  /\ came' = [came EXCEPT ![c] = 0]
  /\ recvLen' = [recvLen EXCEPT ![c] = 0]
  /\ timeouts' = [timeouts EXCEPT ![c] = 0]
  /\ RecvGoes(c, "forwarding")
  /\ UNCHANGED <<running, main, lock, bindFails, listenVars, sendVars>>

(* HandleRead: a path with a forwarding rule gets its send peer. *)
FindForwardPeer(c) ==
  /\ recv[c] = "forwarding"
  /\ IF bound[c] \in DOMAIN Forward THEN GetSendPeer(Forward[bound[c]]) ELSE UNCHANGED send
  /\ RecvGoes(c, "reading")
  /\ UNCHANGED <<running, main, lock, bindFails, listenVars, remote, idSent,
                 streamVars, peerVars>>

ReaderEnds(c) ==
  /\ recv[c] = "reading" /\ ~running
  /\ RecvGoes(c, "ended")
  /\ UNCHANGED <<running, main, lock, bindFails, listenVars, sendVars, streamVars, peerVars>>

Reader(c) ==
  \/ ReceiveIdentifier(c) \/ ReceiveTimeout(c) \/ GiveUpIdentifying(c)
  \/ BindConnection(c) \/ FindForwardPeer(c) \/ ReaderEnds(c)

----------------------------------------------------------------------------
(* The main thread *)

(* Mutant of Stop: the listening sockets are left alone. *)
StopWithoutShutdown ==
  /\ main = "working"
  /\ running' = FALSE
  /\ main' = "joining senders"
  /\ UNCHANGED <<lock, bindFails, listenVars, sendVars, recv, streamVars, peerVars>>

(* setRunning(false) shuts down the listening sockets that are registered. *)
Stop ==
  /\ main = "working"
  /\ running' = FALSE
  /\ shut' = {l \in Listeners : Registered(l)}
  /\ main' = "joining senders"
  /\ UNCHANGED <<lock, bindFails, listen, sendVars, recv, streamVars, peerVars>>

(* ~TcpProxy deletes the send peers, which joins their threads ... *)
JoinSenders ==
  /\ main = "joining senders"
  /\ \A p \in SendPaths : send[p] \in {"none", "ended"}
  /\ main' = "joining listeners"
  /\ UNCHANGED <<running, lock, bindFails, listenVars, sendVars, recv, streamVars, peerVars>>

(* ... joins the listening threads ... *)
JoinListeners ==
  /\ main = "joining listeners"
  /\ \A l \in Listeners : listen[l] = "ended"
  /\ main' = "joining readers"
  /\ UNCHANGED <<running, lock, bindFails, listenVars, sendVars, recv, streamVars, peerVars>>

(* ... and ~TcpListenPeer joins the threads of the accepted connections. *)
JoinReaders ==
  /\ main = "joining readers"
  /\ \A c \in Conns : recv[c] \in {"none", "ended"}
  /\ main' = "gone"
  /\ UNCHANGED <<running, lock, bindFails, listenVars, sendVars, recv, streamVars, peerVars>>

Join == JoinSenders \/ JoinListeners \/ JoinReaders

----------------------------------------------------------------------------
(* The peers of the proxy *)

RemoteListens(p) ==
  /\ ~remote[p]
  /\ remote' = [remote EXCEPT ![p] = TRUE]
  /\ UNCHANGED <<running, main, lock, bindFails, listenVars, send, idSent, recv,
                 streamVars, peerVars>>

(* An upstream peer sends its identifier and then data, in parts of any size.
   Data that comes when the identifier has been received is not counted here. *)
Write(c) ==
  /\ recv[c] = "identifying" /\ came[c] < IdLen + MaxData
  /\ came' = [came EXCEPT ![c] = @ + 1]
  /\ UNCHANGED <<running, main, lock, bindFails, listenVars, sendVars, recv,
                 taken, recvLen, timeouts, peerVars>>

Peers ==
  \/ \E p \in SendPaths : RemoteListens(p)
  \/ \E c \in Conns : Write(c)

----------------------------------------------------------------------------
Next ==
  \/ \E l \in Listeners : Listener(l)
  \/ \E p \in SendPaths : Sender(p) \/ AskForPeer(p)
  \/ \E c \in Conns : Reader(c)
  \/ Stop \/ Join
  \/ Peers

Spec == Init /\ [][Next]_vars

(* Every thread of the proxy runs on; its peers, the workers and the user need
   not do anything. *)
Fairness ==
  /\ \A l \in Listeners : WF_vars(Listener(l))
  /\ \A p \in SendPaths : WF_vars(Sender(p))
  /\ \A c \in Conns : WF_vars(Reader(c))
  /\ WF_vars(Join)

FairSpec == Spec /\ Fairness

----------------------------------------------------------------------------
(* While the system runs a connection is bound to the path its peer has named,
   whatever parts the identifier came in and whatever timeouts there were, and the
   receive peer of that path reads from it. *)
RightPath ==
  running =>
    \A c \in Conns : bound[c] # NULL =>
      bound[c] = PathOf[c] /\ socket[PathOf[c]] = c

(* A thread has returned with m_socket_creation held, as BindLocal failed. *)
LockLost == lock \in SendPaths /\ send[lock] = "ended"

(* A connection that has named a path to forward gets a send peer, and every send
   peer whose far end listens is connected and has announced its path, however many
   threads start at once, unless the system stops or the lock has been lost. *)
PeersComeUp ==
  /\ \A c \in {d \in Conns : PathOf[d] \in DOMAIN Forward} :
       recv[c] = "binding" ~> send[Forward[PathOf[c]]] # "none" \/ ~running
  /\ \A p \in SendPaths :
       send[p] # "none" /\ remote[p] ~> send[p] = "ready" \/ ~running \/ LockLost

(* When the system stops every thread ends and the destructor returns, wherever the
   threads were, unless the lock has been lost. *)
DestructorReturns == ~running ~> main = "gone" \/ LockLost
=============================================================================
