-------------------------- MODULE InOrderDelivery --------------------------
(***************************************************************************)
(* What a send thread of CodedBulkProxy promises for one output path: an   *)
(* output is sent after it has arrived, once, and, when outputs do not go  *)
(* through files, in the order of the serial numbers.                      *)
(***************************************************************************)
EXTENDS Naturals, Sequences, SequencesExt

CONSTANT MaxSerial

VARIABLES
  ordered,   \* the path delivers by serial number
  arrived,   \* serial numbers of the outputs handed to the path
  sent       \* serial numbers sent, oldest first

vars == <<ordered, arrived, sent>>

Init ==
  /\ ordered \in BOOLEAN
  /\ arrived = {}
  /\ sent = <<>>

Arrive ==
  /\ \E s \in (1 .. MaxSerial) \ arrived : arrived' = arrived \cup {s}
  /\ UNCHANGED <<ordered, sent>>

Deliver ==
  /\ \E s \in arrived \ ToSet(sent) :
       /\ ordered => s = Len(sent) + 1
       /\ sent' = Append(sent, s)
  /\ UNCHANGED <<ordered, arrived>>

Next == Arrive \/ Deliver

Spec == Init /\ [][Next]_vars
=============================================================================
