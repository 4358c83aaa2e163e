---------------------------- MODULE MCPeerSetup ----------------------------
(***************************************************************************)
(* A network and a local listening socket, and a connection from another   *)
(* proxy, of path 1.  Path 1 is forwarded to the next proxy; path 3, which *)
(* codecs write to, goes to a receiver on the host.  Flow identifiers of   *)
(* two bytes.                                                              *)
(***************************************************************************)
EXTENDS PeerSetup

CONSTANTS net, loc, fromProxy

MCNetListeners == {net}
MCLocalListeners == {loc}
MCNetConns == {fromProxy}
MCPathOf == [c \in MCNetConns |-> 1]
MCForward == [p \in {1} |-> 1]
=============================================================================
