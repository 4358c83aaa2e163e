---------------------------- MODULE MCProxySend ----------------------------
(* Four outputs arriving in every order on a path, with files of two       *)
(* outputs: two complete files, read while more is stored.                 *)
EXTENDS ProxySend
=============================================================================
