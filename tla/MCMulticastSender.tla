------------------------- MODULE MCMulticastSender -------------------------
(* Three paths and up to three packets, with interactive traffic or without;  *)
(* two paths and two packets show the two violations.                         *)
EXTENDS MulticastSender

CONSTANTS a, b, c

MCPathList == <<a, b, c>>
MCTwoPaths == <<a, b>>
=============================================================================
