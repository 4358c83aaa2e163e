-------------------------- MODULE MCCodecPipeline --------------------------
(* Two input paths coded together by two codecs, the first with two        *)
(* outputs, and a path that is forwarded.  Each path has room for two      *)
(* packets and three to send, so one path can wait for the other with a    *)
(* full buffer while two of its packets are in tasks of the same codec.    *)
EXTENDS CodecPipeline

CONSTANTS p1, p2, f1, c1, c2

MCPaths == {p1, p2, f1}
MCForwarding == {f1}
MCCodecList == <<c1, c2>>
MCInputPaths == [c \in {c1, c2} |-> IF c = c1 THEN <<p1, p2>> ELSE <<p2>>]
MCRows == [c \in {c1, c2} |-> IF c = c1 THEN 2 ELSE 1]
MCMaxSerial == [p \in MCPaths |-> IF p = f1 THEN 1 ELSE 3]
=============================================================================
