----------------------------- MODULE BatchQueue -----------------------------
(***************************************************************************)
(* What the codec manager promises about ready tasks: every submitted task *)
(* is started once, tasks start in the order in which they were submitted, *)
(* at most Limit at a time, and a task that was started is finished once.  *)
(* A submitted task leaves the queue only by being started, until the queue*)
(* has been told to stop: when it is closed what is still pending is       *)
(* dropped, and nothing starts, ends or is submitted after that.           *)
(***************************************************************************)
EXTENDS Naturals, Sequences, SequencesExt

CONSTANTS
  Tasks,   \* the tasks
  Limit    \* the most tasks that can be started together

VARIABLES
  pending,   \* submitted and not yet started, oldest first
  started,   \* started and not yet finished
  phase      \* "open", "stopping" or "closed"

vars == <<pending, started, phase>>

Init == pending = <<>> /\ started = {} /\ phase = "open"

Submit(t) ==
  /\ phase # "closed"
  /\ t \notin ToSet(pending) \cup started
  /\ pending' = Append(pending, t)
  /\ UNCHANGED <<started, phase>>

Start(n) ==
  /\ phase # "closed"
  /\ n <= Len(pending)
  /\ pending' = SubSeq(pending, n + 1, Len(pending))
  /\ started' = started \cup ToSet(SubSeq(pending, 1, n))
  /\ UNCHANGED phase

Finish(t) ==
  /\ phase # "closed"
  /\ t \in started
  /\ started' = started \ {t}
  /\ UNCHANGED <<pending, phase>>

(* The queue is told to stop.  Nothing is dropped yet. *)
Stop ==
  /\ phase = "open"
  /\ phase' = "stopping"
  /\ UNCHANGED <<pending, started>>

(* The end of the queue: the tasks that were never started are dropped. *)
Close ==
  /\ phase = "stopping"
  /\ phase' = "closed"
  /\ pending' = <<>>
  /\ UNCHANGED started

Next ==
  \/ \E t \in Tasks : Submit(t) \/ Finish(t)
  \/ \E n \in 1 .. Limit : Start(n)
  \/ Stop \/ Close

Spec == Init /\ [][Next]_vars
=============================================================================
