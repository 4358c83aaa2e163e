--------------------------- MODULE MCCodecManager ---------------------------
(* CodecManager with two workers, one receive thread and one notifier per  *)
(* worker, so that coding can fail.  Ready tasks differ by their identity  *)
(* only, and so do workers: their permutations are a symmetry of the       *)
(* safety properties, which MCCodecManager.cfg checks on four tasks.       *)
(* MCCodecManagerLive.cfg checks liveness on two, without symmetry.        *)
EXTENDS CodecManager, TLC

Symmetry == Permutations(ReadyTasks) \cup Permutations(Workers) \cup Permutations(Receivers)
=============================================================================
