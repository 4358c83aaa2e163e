-------------------------- MODULE MulticastSender --------------------------
(***************************************************************************)
(* One multicast path of CodedBulkBulkSendApplication                      *)
(* (implementation/src/multicast_agent/sources/CodedBulk-multicast-sender  *)
(* .{h,cc}, CodedBulk-bulk-send-application.cc): the same data is sent over*)
(* several sockets, each with a thread of its own.                         *)
(*                                                                         *)
(* The data of the moment is in one shared packet.  Each path that could   *)
(* not send all of it at once refers to it until its thread has sent the   *)
(* rest.  The thread that finds every path ready rewrites the packet and   *)
(* sends it on every path, holding m_check_ready_lock.                     *)
(*                                                                         *)
(* _set_lock of a path is held within single actions, and between the two  *)
(* halves of Resend, while its thread is at "dereferencing".               *)
(***************************************************************************)
EXTENDS Naturals, Sequences, FiniteSets, SequencesExt

CONSTANTS
  PathList,    \* m_paths, in order
  MaxPackets,  \* bound: packets generated
  NULL         \* no thread

Paths == ToSet(PathList)

ASSUME MulticastSenderAssumption ==
  /\ PathList \in Seq(Paths) /\ IsInjective(PathList) /\ PathList # <<>>
  /\ MaxPackets \in Nat
  /\ NULL \notin Paths

VARIABLES
  limited,     \* interactive traffic: GetPriority() is 6
  maxBytes,    \* m_maxBytes, in packets
  totBytes,    \* m_totBytes, in packets
  pc,          \* where the thread of each path is
  connected,   \* m_connected of each path
  allConnected,\* m_connected of the multicast path
  ready,       \* m_ready of each path
  ref,         \* the path's _ref_packet is not null
  packet,      \* what is in m_packet: the number of the data
  lock,        \* the thread that holds m_check_ready_lock
  todo,        \* the paths it has still to send the packet on
  whole,       \* each Send of this round so far has sent everything
  announced,   \* the flow identifier has been written to each socket
  wire         \* the data that has

limitVars == <<limited, maxBytes, totBytes>>
connVars == <<connected, allConnected>>
roundVars == <<packet, lock, todo, whole>>
vars == <<limitVars, connVars, roundVars, pc, ready, ref, announced, wire>>

(* A packet is written in parts. *)
Parts == 2

Init ==
  /\ limited \in BOOLEAN /\ maxBytes = 0 /\ totBytes = 0
  /\ pc = [p \in Paths |-> "connecting"]
  /\ connected = [p \in Paths |-> FALSE] /\ allConnected = FALSE
  /\ ready = [p \in Paths |-> TRUE]
  /\ ref = [p \in Paths |-> FALSE]
  /\ packet = 0 /\ lock = NULL /\ todo = <<>> /\ whole = TRUE
  /\ announced = [p \in Paths |-> FALSE]
  /\ wire = [p \in Paths |-> <<>>]

Goto(p, place) == pc' = [pc EXCEPT ![p] = place]

(* The parts of the current data already written to the socket of p. *)
PartsSent(p) == Len(wire[p]) % Parts

(* The socket of p takes n more parts of what the shared packet holds.  *)
Written(p, n) ==
  wire[p] \o [i \in 1 .. n |-> <<packet, PartsSent(p) + i>>]

----------------------------------------------------------------------------
(* The thread of path p: ConnectPeerThread, PathEstablished, PathReady *)

Connect(p) ==
  /\ pc[p] = "connecting"
  /\ connected' = [connected EXCEPT ![p] = TRUE]
  /\ Goto(p, "established")
  /\ UNCHANGED <<limitVars, allConnected, roundVars, ready, ref, announced, wire>>

(* The flow identifier tells the proxy which path the socket belongs to. *)
SendHeader(p) ==
  /\ pc[p] = "established"
  /\ announced' = [announced EXCEPT ![p] = TRUE]
  /\ Goto(p, "polling")
  /\ UNCHANGED <<limitVars, connVars, roundVars, ready, ref, wire>>

(* The socket is writable and nothing is left to send on it. *)
NothingLeft(p) ==
  /\ pc[p] = "polling" /\ ~ref[p]
  /\ ready' = [ready EXCEPT ![p] = TRUE]
  /\ Goto(p, "data sent")
  /\ UNCHANGED <<limitVars, connVars, roundVars, ref, announced, wire>>

(* With n more parts all of the packet has been sent. *)
ResendDone(p, n) == PartsSent(p) + n = Parts

(* Resend, up to the point where the path is marked as ready. *)
Resend(p) ==
  /\ pc[p] = "polling" /\ ref[p]
  /\ \E n \in 0 .. Parts - PartsSent(p) :
       /\ wire' = [wire EXCEPT ![p] = Written(p, n)]
       /\ IF ResendDone(p, n)
          THEN ready' = [ready EXCEPT ![p] = TRUE] /\ Goto(p, "dereferencing")
          ELSE UNCHANGED <<ready, pc>>
  /\ UNCHANGED <<limitVars, connVars, roundVars, ref, announced>>

Dereference(p) ==
  /\ pc[p] = "dereferencing"
  /\ ref' = [ref EXCEPT ![p] = FALSE]
  /\ Goto(p, "data sent")
  /\ UNCHANGED <<limitVars, connVars, roundVars, ready, announced, wire>>

(* DataSent goes on once all paths are connected. *)
CheckConnection(p) ==
  /\ pc[p] = "data sent"
  /\ allConnected' = (allConnected \/ \A q \in Paths : connected[q])
  /\ Goto(p, IF allConnected' THEN "checking" ELSE "polling")
  /\ UNCHANGED <<limitVars, connected, roundVars, ready, ref, announced, wire>>

----------------------------------------------------------------------------
(* Under m_check_ready_lock *)

(* Mutant of CheckReady: the path itself is enough. *)
CheckReadyOwn(p) == ready[p]

CheckReady(p) == \A q \in Paths : ready[q]

MaySend == ~limited \/ totBytes < maxBytes

NotAllReady(p) ==
  /\ pc[p] = "checking" /\ lock = NULL /\ ~CheckReady(p)
  /\ Goto(p, "polling")
  /\ UNCHANGED <<limitVars, connVars, roundVars, ready, ref, announced, wire>>

(* SendData rewrites the shared packet. *)
NewPacket(p) ==
  /\ pc[p] = "checking" /\ lock = NULL /\ CheckReady(p)
  /\ MaySend /\ packet < MaxPackets
  /\ packet' = packet + 1
  /\ lock' = p
  /\ todo' = PathList
  /\ whole' = TRUE
  /\ Goto(p, "sending")
  /\ UNCHANGED <<limitVars, connVars, ready, ref, announced, wire>>

(* Send on the next path: as much as the socket takes. *)
Send(p) ==
  LET q == Head(todo)
  IN  /\ pc[p] = "sending" /\ todo # <<>>
      /\ pc[q] # "dereferencing"
      /\ todo' = Tail(todo)
      /\ IF ready[q] /\ ~ref[q]
         THEN \E n \in 0 .. Parts :
                /\ wire' = [wire EXCEPT ![q] = Written(q, n)]
                /\ ready' = [ready EXCEPT ![q] = n = Parts]
                /\ ref' = [ref EXCEPT ![q] = n # Parts]
                /\ whole' = (whole /\ n = Parts)
         ELSE whole' = FALSE /\ UNCHANGED <<wire, ready, ref>>
      /\ UNCHANGED <<limitVars, connVars, packet, lock, pc, announced>>

(* Mutant of Counted: whatever has been sent counts. *)
CountedAlways == 1

(* Mutant of Counted: the results of the paths are added up. *)
CountedSum == IF whole THEN Len(PathList) ELSE 0

(* What SendPacket adds to the total: the least of the results of Send,    *)
(* unless that is -1 for a path that could not send all at once.           *)
Counted == IF whole THEN 1 ELSE 0

(* Mutant of EndRound: m_check_ready_lock stays locked. *)
EndRoundKeepsLock(p) ==
  /\ pc[p] = "sending" /\ todo = <<>>
  /\ totBytes' = totBytes + Counted
  /\ Goto(p, "polling")
  /\ UNCHANGED <<limited, maxBytes, connVars, packet, lock, todo, whole, ready, ref, announced, wire>>

(* SendPacket has sent on every path: the lock is given up. *)
EndRound(p) ==
  /\ pc[p] = "sending" /\ todo = <<>>
  /\ totBytes' = totBytes + Counted
  /\ lock' = NULL
  /\ Goto(p, "polling")
  /\ UNCHANGED <<limited, maxBytes, connVars, packet, todo, whole, ready, ref, announced, wire>>

(* Interactive traffic that has sent all it had finds nothing to send ...  *)
OutOfData(p) ==
  /\ pc[p] = "checking" /\ lock = NULL /\ CheckReady(p)
  /\ ~MaySend
  /\ lock' = p
  /\ Goto(p, "parking")
  /\ UNCHANGED <<limitVars, connVars, packet, todo, whole, ready, ref, announced, wire>>

(* ... and waits for input, without a predicate. *)
Park(p) ==
  /\ pc[p] = "parking"
  /\ Goto(p, "parked")
  /\ UNCHANGED <<limitVars, connVars, roundVars, ready, ref, announced, wire>>

(* Notified, or woken for no reason: SendData returns. *)
Wake(p) ==
  /\ pc[p] = "parked"
  /\ lock' = NULL
  /\ Goto(p, "polling")
  /\ UNCHANGED <<limitVars, connVars, packet, todo, whole, ready, ref, announced, wire>>

----------------------------------------------------------------------------
(* InteractiveInput: more to send.  Its notification wakes whoever is      *)
(* parked, and is lost on a thread about to park.                          *)
InteractiveInput ==
  /\ limited /\ maxBytes < MaxPackets
  /\ \E n \in 1 .. MaxPackets - maxBytes : maxBytes' = maxBytes + n
  /\ IF \E p \in Paths : pc[p] = "parked"
     THEN /\ pc' = [p \in Paths |-> IF pc[p] = "parked" THEN "polling" ELSE pc[p]]
          /\ lock' = NULL
     ELSE UNCHANGED <<pc, lock>>
  /\ UNCHANGED <<limited, totBytes, connVars, packet, todo, whole, ready, ref, announced, wire>>

----------------------------------------------------------------------------
Thread(p) ==
  \/ Connect(p) \/ SendHeader(p)
  \/ NothingLeft(p) \/ Resend(p) \/ Dereference(p) \/ CheckConnection(p)
  \/ NotAllReady(p) \/ NewPacket(p) \/ Send(p) \/ EndRound(p)
  \/ OutOfData(p) \/ Park(p)

Next ==
  \/ \E p \in Paths : Thread(p) \/ Wake(p)
  \/ InteractiveInput

(* Threads run, and a path that keeps trying to                            *)
(* send the rest of a packet gets it all out in the end.                   *)
Fairness ==
  \A p \in Paths :
    /\ WF_vars(Thread(p))
    /\ SF_vars(Resend(p) /\ pc'[p] = "dereferencing")

Spec == Init /\ [][Next]_vars /\ Fairness

----------------------------------------------------------------------------
Places == {"connecting", "established", "polling", "dereferencing", "data sent",
           "checking", "sending", "parking", "parked"}

(* Types; the total counts packets that exist. *)
TypeOK ==
  /\ limited \in BOOLEAN /\ maxBytes \in 0 .. MaxPackets /\ totBytes \in 0 .. packet
  /\ pc \in [Paths -> Places]
  /\ connected \in [Paths -> BOOLEAN] /\ allConnected \in BOOLEAN
  /\ ready \in [Paths -> BOOLEAN] /\ ref \in [Paths -> BOOLEAN]
  /\ packet \in 0 .. MaxPackets
  /\ lock \in Paths \cup {NULL}
  /\ todo \in Seq(Paths) /\ whole \in BOOLEAN
  /\ announced \in [Paths -> BOOLEAN]
  /\ wire \in [Paths -> Seq((1 .. MaxPackets) \X (1 .. Parts))]

(* Every path carries the same data in the same order, whole: the parts of *)
(* packet 1, then those of packet 2, and so on.  The shared packet is not  *)
(* rewritten before each path has sent all of it.                          *)
SameDataOnEveryPath ==
  \A p \in Paths : \A i \in 1 .. Len(wire[p]) :
    wire[p][i] = <<((i - 1) \div Parts) + 1, ((i - 1) % Parts) + 1>>

(* A packet is counted only when it has gone out whole on every path. *)
CountedIsSent ==
  \A p \in Paths : totBytes * Parts <= Len(wire[p])

(* Traffic without a limit goes on: whatever part of a packet the sockets  *)
(* take at a time, every path gets everything in the end.                  *)
AllDataSent ==
  ~limited ~> \A p \in Paths : Len(wire[p]) = MaxPackets * Parts

(* The flow identifier is the first thing on a socket: DataSent returns   *)
(* "if not all paths are ready".                                           *)
HeaderFirst == \A p \in Paths : wire[p] # <<>> => announced[p]

(* Interactive traffic sends no more than it was given to send: "Once these*)
(* bytes are sent, no packet is sent again" (SetMaxBytes).                 *)
MaxBytesRespected == limited => packet <= maxBytes
=============================================================================
