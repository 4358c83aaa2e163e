---------------------------- MODULE CodecManager ----------------------------
(***************************************************************************)
(* The ready-task list and the thread pool of CodedBulkCodecManager        *)
(* (implementation/src/proxy/sources/CodedBulk-codec-manager.{h,cc}).      *)
(*                                                                         *)
(* Receive threads append ready tasks to a singly linked list and then run *)
(* scheduleTasks, which spawns and notifies workers.  A worker takes at    *)
(* most BatchSize tasks at once: to cut the list without walking it, the   *)
(* manager keeps a pointer to every BatchSize-th task.  A task whose       *)
(* coding fails for want of a notifier is pushed on the worker's list of   *)
(* failed tasks, which becomes its next batch.                             *)
(*                                                                         *)
(* An action is what a thread does under _CodedBulkReadyTasks_lock, or one *)
(* iteration of a worker's loop over its own batch.                        *)
(***************************************************************************)
EXTENDS Naturals, Sequences, FiniteSets, SequencesExt

CONSTANTS
  ReadyTasks,         \* the elements of the pools _alloc_ready_task
  Receivers,          \* receive threads, which enqueue and schedule
  Workers,            \* at most __max_num_worker_threads worker threads
  BatchSize,          \* __worker_thread_batch_size
  ScheduleThreshold,  \* the least backlog scheduling reacts to (10)
  NotifierSize,       \* size of a worker's alloc_notifier
  NULL                \* nullptr

ASSUME CodecManagerAssumption ==
  /\ BatchSize \in Nat \ {0}
  /\ ScheduleThreshold \in Nat
  /\ NotifierSize \in Nat \ {0}
  /\ NULL \notin ReadyTasks
  /\ IsFiniteSet(Workers)

VARIABLES
  next,         \* _next_task of every ready task
  first, last,  \* _CodedBulkReadyTasks, _CodedBulkReadyTasks_last
  size,         \* _CodedBulkReadyTasks_size
  cached,       \* _CodedBulkReadyTasks_cached_pointers
  receiver,     \* where each receive thread is
  worker,       \* where each worker thread is
  uninit,       \* _num_uninitialized_threads
  waiting,      \* _num_waiting_threads
  numWorkers,   \* _num_worker_threads
  local,        \* local_tasks of each worker
  numLocal,     \* num_local_tasks: tasks of the batch still to run
  failed,       \* local_failed_tasks
  numFailed,    \* num_failed_tasks
  notifiers,    \* notifiers of the worker's pool in use
  running,      \* system_parameters.isRunning()
  stop,         \* _stop
  destroyed,    \* the destructor has cleared the list
  queue,        \* (history) the enqueued tasks nobody has taken, oldest first
  batch,        \* (history) the tasks of each worker's batch still to run
  retry         \* (history) the tasks of the batch that failed, last first

listVars == <<next, first, last, size, cached, queue>>
poolVars == <<uninit, waiting, numWorkers>>
localVars == <<local, numLocal, failed, numFailed, batch, retry>>
vars == <<listVars, receiver, worker, poolVars, localVars, notifiers,
          running, stop, destroyed>>

Pointer == ReadyTasks \cup {NULL}

Init ==
  /\ next = [t \in ReadyTasks |-> NULL]
  /\ first = NULL /\ last = NULL /\ size = 0 /\ cached = <<>> /\ queue = <<>>
  /\ receiver = [r \in Receivers |-> "polling"]
  /\ worker = [w \in Workers |-> "unborn"]
  /\ uninit = 0 /\ waiting = 0 /\ numWorkers = 0
  /\ local = [w \in Workers |-> NULL]
  /\ numLocal = [w \in Workers |-> 0]
  /\ failed = [w \in Workers |-> NULL]
  /\ numFailed = [w \in Workers |-> 0]
  /\ batch = [w \in Workers |-> <<>>]
  /\ retry = [w \in Workers |-> <<>>]
  /\ notifiers = [w \in Workers |-> 0]
  /\ running = TRUE /\ stop = FALSE /\ destroyed = FALSE

(* The tasks a worker has in hand. *)
Held(w) == ToSet(batch[w]) \cup ToSet(retry[w])

(* Ready tasks whose flag _allocated is down. *)
Free == ReadyTasks \ (ToSet(queue) \cup UNION {Held(w) : w \in Workers})

----------------------------------------------------------------------------
(* Receive threads *)

(* A whole packet arrives and is offered to the codecs. *)
ReceivePacket(r) ==
  /\ receiver[r] = "polling" /\ running
  /\ receiver' = [receiver EXCEPT ![r] = "feeding"]
  /\ UNCHANGED <<listVars, worker, poolVars, localVars, notifiers, running, stop, destroyed>>

(* Mutant of RecordPointer: off by one. *)
RecordPointerLate == size > 0 /\ size % BatchSize = 1 % BatchSize

(* Whether enqueueTask records a pointer to the task it appends. *)
RecordPointer == size > 0 /\ size % BatchSize = 0

(* A codec completes a task: it becomes a new ready task at the end of the *)
(* list.  One packet can complete a task in several codecs.                *)
EnqueueTask(r, t) ==
  /\ receiver[r] = "feeding" /\ ~destroyed
  /\ t \in Free
  /\ IF last = NULL
     THEN /\ first' = t
          /\ next' = [next EXCEPT ![t] = NULL]
     ELSE /\ next' = [next EXCEPT ![t] = NULL, ![last] = t]
          /\ UNCHANGED first
  /\ last' = t
  /\ cached' = IF RecordPointer THEN Append(cached, t) ELSE cached
  /\ size' = size + 1
  /\ queue' = Append(queue, t)
  /\ UNCHANGED <<receiver, worker, poolVars, localVars, notifiers, running, stop, destroyed>>

(* The packet has been offered to every codec: scheduleTasks is called. *)
BeginSchedule(r) ==
  /\ receiver[r] = "feeding" /\ ~destroyed
  /\ receiver' = [receiver EXCEPT ![r] = IF stop THEN "polling" ELSE "scheduling"]
  /\ UNCHANGED <<listVars, worker, poolVars, localVars, notifiers, running, stop, destroyed>>

CanSpawn == waiting + uninit < size /\ numWorkers < Cardinality(Workers)

(* Mutant of ScheduleCondition: a full pool is never woken again. *)
ScheduleConditionSpawnOnly == size >= ScheduleThreshold /\ CanSpawn

ScheduleCondition == size >= ScheduleThreshold /\ (CanSpawn \/ waiting > 0)

(* Where the workers are after notify_one, if they were as f says. *)
NotifyOne(f) ==
  LET asleep == {w \in Workers : f[w] = "waiting"}
  IN  IF asleep = {} THEN {f} ELSE {[f EXCEPT ![w] = "notified"] : w \in asleep}

(* One round of the loop of scheduleTasks: scheduling() spawns a worker if *)
(* there are too few and notifies one; the lock is given up in between.    *)
ScheduleRound(r) ==
  /\ receiver[r] = "scheduling" /\ ~destroyed
  /\ IF running /\ ScheduleCondition
     THEN /\ UNCHANGED receiver
          /\ IF CanSpawn
             THEN /\ uninit' = uninit + 1
                  /\ numWorkers' = numWorkers + 1
                  /\ UNCHANGED waiting
                  /\ \E w \in Workers :
                       /\ worker[w] = "unborn"
                       /\ worker' \in NotifyOne([worker EXCEPT ![w] = "spawned"])
             ELSE /\ UNCHANGED poolVars
                  /\ worker' \in NotifyOne(worker)
     ELSE /\ receiver' = [receiver EXCEPT ![r] = "polling"]
          /\ UNCHANGED <<worker, poolVars>>
  /\ UNCHANGED <<listVars, localVars, notifiers, running, stop, destroyed>>

----------------------------------------------------------------------------
(* Worker threads *)

(* Mutant of TakeBatch: the whole list is taken, whatever its length. *)
TakeBatchAll(w) ==
  /\ first' = NULL /\ last' = NULL /\ cached' = <<>> /\ size' = 0
  /\ local' = [local EXCEPT ![w] = first]
  /\ numLocal' = [numLocal EXCEPT ![w] = size]
  /\ batch' = [batch EXCEPT ![w] = queue]
  /\ queue' = <<>>
  /\ worker' = [worker EXCEPT ![w] = "coding"]
  /\ UNCHANGED <<next, failed, numFailed, retry>>

(* A worker that holds the lock and finds the list non-empty cuts off a    *)
(* batch, at the first recorded pointer if the list is longer than one.    *)
TakeBatch(w) ==
  LET n == IF size > BatchSize THEN BatchSize ELSE size
  IN  /\ IF size > BatchSize
         THEN /\ first' = Head(cached)
              /\ cached' = Tail(cached)
              /\ UNCHANGED last
         ELSE /\ first' = NULL
              /\ last' = NULL
              /\ UNCHANGED cached
      /\ size' = size - n
      /\ local' = [local EXCEPT ![w] = first]
      /\ numLocal' = [numLocal EXCEPT ![w] = n]
      /\ batch' = [batch EXCEPT ![w] = SubSeq(queue, 1, n)]
      /\ queue' = SubSeq(queue, n + 1, Len(queue))
      /\ worker' = [worker EXCEPT ![w] = "coding"]
      /\ UNCHANGED <<next, failed, numFailed, retry>>

(* The top of the loop: isRunning() is read without the lock. *)
LoopTop(w) ==
  /\ running
  /\ \/ /\ worker[w] = "spawned"
        /\ worker' = [worker EXCEPT ![w] = "entering first"]
     \/ /\ worker[w] = "idle"
        /\ worker' = [worker EXCEPT ![w] = "entering"]
     \/ /\ worker[w] = "retrying"
        /\ worker' = [worker EXCEPT ![w] = "coding"]
  /\ UNCHANGED <<listVars, receiver, poolVars, localVars, notifiers, running, stop, destroyed>>

(* Mutant of MustWait: the wait does not look at _stop. *)
MustWaitIgnoringStop == first = NULL

(* The predicate of the workers' wait, negated. *)
MustWait == first = NULL /\ ~stop

(* With the lock and no task in hand, the worker counts itself as waiting, *)
(* and waits unless there is a task or _stop is set.                       *)
WorkerEnter(w) ==
  /\ worker[w] \in {"entering first", "entering"}
  /\ uninit' = IF worker[w] = "entering first" THEN uninit - 1 ELSE uninit
  /\ \/ /\ MustWait
        /\ worker' = [worker EXCEPT ![w] = "waiting"]
        /\ waiting' = waiting + 1
        /\ UNCHANGED <<listVars, localVars>>
     \/ /\ ~MustWait /\ first = NULL
        /\ worker' = [worker EXCEPT ![w] = "idle"]
        /\ UNCHANGED <<waiting, listVars, localVars>>
     \/ /\ first # NULL
        /\ TakeBatch(w)
        /\ UNCHANGED waiting
  /\ UNCHANGED <<receiver, numWorkers, notifiers, running, stop, destroyed>>

(* Mutant of WorkerWake: the worker does not count itself out. *)
WorkerWakeStillCounted(w) ==
  /\ worker[w] = "notified"
  /\ \/ /\ MustWait
        /\ worker' = [worker EXCEPT ![w] = "waiting"]
        /\ UNCHANGED <<listVars, localVars>>
     \/ /\ ~MustWait /\ first = NULL
        /\ worker' = [worker EXCEPT ![w] = "idle"]
        /\ UNCHANGED <<listVars, localVars>>
     \/ first # NULL /\ TakeBatch(w)
  /\ UNCHANGED <<receiver, poolVars, notifiers, running, stop, destroyed>>

(* A notified worker has the lock again and re-evaluates the predicate of  *)
(* the wait: another worker may have taken the tasks meanwhile.            *)
WorkerWake(w) ==
  /\ worker[w] = "notified"
  /\ \/ /\ MustWait
        /\ worker' = [worker EXCEPT ![w] = "waiting"]
        /\ UNCHANGED <<waiting, listVars, localVars>>
     \/ /\ ~MustWait /\ first = NULL
        /\ worker' = [worker EXCEPT ![w] = "idle"]
        /\ waiting' = waiting - 1
        /\ UNCHANGED <<listVars, localVars>>
     \/ /\ first # NULL
        /\ TakeBatch(w)
        /\ waiting' = waiting - 1
  /\ UNCHANGED <<receiver, uninit, numWorkers, notifiers, running, stop, destroyed>>

(* A condition variable may wake a thread without a notification. *)
SpuriousWake(w) ==
  /\ worker[w] = "waiting"
  /\ worker' = [worker EXCEPT ![w] = "notified"]
  /\ UNCHANGED <<listVars, receiver, poolVars, localVars, notifiers, running, stop, destroyed>>

(* One iteration over the batch that codes its task and deletes it.  The   *)
(* link of a deleted task is dead: New() clears it before it is used again.*)
RunSucceeds(w) ==
  /\ worker[w] = "coding" /\ numLocal[w] > 0
  /\ notifiers[w] < NotifierSize
  /\ notifiers' = [notifiers EXCEPT ![w] = @ + 1]
  /\ local' = [local EXCEPT ![w] = next[local[w]]]
  /\ next' = [next EXCEPT ![local[w]] = NULL]
  /\ numLocal' = [numLocal EXCEPT ![w] = @ - 1]
  /\ batch' = [batch EXCEPT ![w] = Tail(@)]
  /\ UNCHANGED <<first, last, size, cached, queue, receiver, worker, poolVars,
                 failed, numFailed, retry, running, stop, destroyed>>

(* Mutant of RunFails: the link is read after the task has been relinked. *)
RunFailsReadsLate(w) ==
  /\ worker[w] = "coding" /\ numLocal[w] > 0
  /\ notifiers[w] = NotifierSize
  /\ local' = [local EXCEPT ![w] = failed[w]]
  /\ next' = [next EXCEPT ![local[w]] = failed[w]]
  /\ failed' = [failed EXCEPT ![w] = local[w]]
  /\ numFailed' = [numFailed EXCEPT ![w] = @ + 1]
  /\ numLocal' = [numLocal EXCEPT ![w] = @ - 1]
  /\ batch' = [batch EXCEPT ![w] = Tail(@)]
  /\ retry' = [retry EXCEPT ![w] = <<Head(batch[w])>> \o @]
  /\ UNCHANGED <<first, last, size, cached, queue, receiver, worker, poolVars,
                 notifiers, running, stop, destroyed>>

(* One iteration that finds no notifier: the task joins the failed ones. *)
RunFails(w) ==
  /\ worker[w] = "coding" /\ numLocal[w] > 0
  /\ notifiers[w] = NotifierSize
  /\ local' = [local EXCEPT ![w] = next[local[w]]]
  /\ next' = [next EXCEPT ![local[w]] = failed[w]]
  /\ failed' = [failed EXCEPT ![w] = local[w]]
  /\ numFailed' = [numFailed EXCEPT ![w] = @ + 1]
  /\ numLocal' = [numLocal EXCEPT ![w] = @ - 1]
  /\ batch' = [batch EXCEPT ![w] = Tail(@)]
  /\ retry' = [retry EXCEPT ![w] = <<Head(batch[w])>> \o @]
  /\ UNCHANGED <<first, last, size, cached, queue, receiver, worker, poolVars,
                 notifiers, running, stop, destroyed>>

(* The batch is over: the failed tasks are the next batch. *)
EndBatch(w) ==
  /\ worker[w] = "coding" /\ numLocal[w] = 0
  /\ local' = [local EXCEPT ![w] = failed[w]]
  /\ numLocal' = [numLocal EXCEPT ![w] = numFailed[w]]
  /\ failed' = [failed EXCEPT ![w] = NULL]
  /\ numFailed' = [numFailed EXCEPT ![w] = 0]
  /\ batch' = [batch EXCEPT ![w] = retry[w]]
  /\ retry' = [retry EXCEPT ![w] = <<>>]
  /\ worker' = [worker EXCEPT ![w] = IF failed[w] = NULL THEN "idle" ELSE "retrying"]
  /\ UNCHANGED <<listVars, receiver, poolVars, notifiers, running, stop, destroyed>>

(* The top of the loop once the system has been told to stop.  The worker  *)
(* gives up the outputs and notifiers of its pools that are still in use;  *)
(* tasks that failed stay as they are.                                     *)
WorkerExit(w) ==
  /\ worker[w] \in {"spawned", "idle", "retrying"} /\ ~running
  /\ worker' = [worker EXCEPT ![w] = "exited"]
  /\ notifiers' = [notifiers EXCEPT ![w] = 0]
  /\ UNCHANGED <<listVars, receiver, poolVars, localVars, running, stop, destroyed>>

(* A send thread sends the last output of a task: the notifier is free. *)
NotifierReturned(w) ==
  /\ notifiers[w] > 0
  /\ notifiers' = [notifiers EXCEPT ![w] = @ - 1]
  /\ UNCHANGED <<listVars, receiver, worker, poolVars, localVars, running, stop, destroyed>>

----------------------------------------------------------------------------
(* Shutdown: setRunning(false), then the destructor of the manager *)

SetNotRunning ==
  /\ running
  /\ running' = FALSE
  /\ UNCHANGED <<listVars, receiver, worker, poolVars, localVars, notifiers, stop, destroyed>>

(* _stop is set under the lock, so that no worker starts to wait after it, *)
(* and those that wait are notified.                                       *)
Destroy ==
  /\ ~running /\ ~stop
  /\ stop' = TRUE
  /\ worker' = [w \in Workers |-> IF worker[w] = "waiting" THEN "notified" ELSE worker[w]]
  /\ UNCHANGED <<listVars, receiver, poolVars, localVars, notifiers, running, destroyed>>

(* Mutant of ClearTasks: the workers are not joined. *)
ClearTasksWithoutJoin ==
  /\ stop /\ ~destroyed
  /\ destroyed' = TRUE
  /\ first' = NULL /\ last' = NULL /\ size' = 0 /\ cached' = <<>> /\ queue' = <<>>
  /\ UNCHANGED <<next, receiver, worker, poolVars, localVars, notifiers, running, stop>>

(* Every worker has been joined: clearCodedBulkCodecs empties the list. *)
ClearTasks ==
  /\ stop /\ ~destroyed
  /\ \A w \in Workers : worker[w] \in {"unborn", "exited"}
  /\ destroyed' = TRUE
  /\ first' = NULL /\ last' = NULL /\ size' = 0 /\ cached' = <<>> /\ queue' = <<>>
  /\ UNCHANGED <<next, receiver, worker, poolVars, localVars, notifiers, running, stop>>

----------------------------------------------------------------------------
ReceiverStep(r) == BeginSchedule(r) \/ ScheduleRound(r)

WorkerStep(w) ==
  \/ LoopTop(w) \/ WorkerEnter(w) \/ WorkerWake(w)
  \/ RunSucceeds(w) \/ RunFails(w) \/ EndBatch(w)
  \/ WorkerExit(w)

Next ==
  \/ \E r \in Receivers :
       ReceivePacket(r) \/ (\E t \in ReadyTasks : EnqueueTask(r, t)) \/ ReceiverStep(r)
  \/ \E w \in Workers : WorkerStep(w) \/ SpuriousWake(w) \/ NotifierReturned(w)
  \/ SetNotRunning \/ Destroy \/ ClearTasks

(* Threads keep running; outputs are sent in the end, so notifiers return. *)
Fairness ==
  /\ \A r \in Receivers : WF_vars(ReceiverStep(r))
  /\ \A w \in Workers : WF_vars(WorkerStep(w)) /\ WF_vars(NotifierReturned(w))
  /\ WF_vars(Destroy) /\ WF_vars(ClearTasks)

Spec == Init /\ [][Next]_vars /\ Fairness

----------------------------------------------------------------------------
Places == {"unborn", "spawned", "entering first", "entering", "waiting",
           "notified", "coding", "retrying", "idle", "exited"}

(* Types, and the bound on a worker's batch. *)
TypeOK ==
  /\ next \in [ReadyTasks -> Pointer]
  /\ first \in Pointer /\ last \in Pointer /\ size \in Nat
  /\ cached \in Seq(ReadyTasks) /\ queue \in Seq(ReadyTasks)
  /\ receiver \in [Receivers -> {"polling", "feeding", "scheduling"}]
  /\ worker \in [Workers -> Places]
  /\ uninit \in Nat /\ waiting \in Nat /\ numWorkers \in Nat
  /\ local \in [Workers -> Pointer] /\ failed \in [Workers -> Pointer]
  /\ numLocal \in [Workers -> 0 .. BatchSize] /\ numFailed \in [Workers -> 0 .. BatchSize]
  /\ batch \in [Workers -> Seq(ReadyTasks)] /\ retry \in [Workers -> Seq(ReadyTasks)]
  /\ notifiers \in [Workers -> 0 .. NotifierSize]
  /\ running \in BOOLEAN /\ stop \in BOOLEAN /\ destroyed \in BOOLEAN

(* The n tasks reached from p by _next_task are those of s, in order. *)
Linked(p, n, s) ==
  /\ n = Len(s)
  /\ n > 0 => p = s[1]
  /\ \A i \in 1 .. Len(s) - 1 : next[s[i]] = s[i + 1]

(* The linked list is the queue: its ends, its length, its links, and the  *)
(* recorded pointers, which point at the first task of every later batch.  *)
(* A wrong pointer would cut a batch in the wrong place, so that tasks     *)
(* would be coded twice or never.                                          *)
ListIsQueue ==
  /\ Linked(first, size, queue)
  /\ size = 0 => first = NULL /\ last = NULL
  /\ size > 0 => last = queue[size]
  /\ \A i \in 1 .. Len(cached) : i * BatchSize < size /\ cached[i] = queue[i * BatchSize + 1]
  /\ size <= (Len(cached) + 1) * BatchSize

(* A worker's batch and its failed tasks are chained through the same      *)
(* links; following them num_local_tasks times visits exactly the batch.   *)
BatchesAreLinked ==
  \A w \in Workers :
    /\ Linked(local[w], numLocal[w], batch[w])
    /\ Linked(failed[w], numFailed[w], retry[w])

(* While the system runs, the thread counters that decide whether to spawn *)
(* count the threads: those not yet inside, those that can be woken (also  *)
(* the ones on their way back from the wait), and all of them.             *)
CountersCountThreads ==
  running =>
    /\ uninit = Cardinality({w \in Workers : worker[w] \in {"spawned", "entering first"}})
    /\ waiting = Cardinality({w \in Workers : worker[w] \in {"waiting", "notified"}})
    /\ numWorkers = Cardinality({w \in Workers : worker[w] # "unborn"})

(* The n tasks reached from p by _next_task. *)
Chain(p, n) ==
  LET reached[i \in 1 .. n] ==
        IF i = 1 THEN p
        ELSE IF reached[i - 1] \in ReadyTasks THEN next[reached[i - 1]] ELSE NULL
  IN  reached

(* The tasks on the chains of the workers. *)
Started ==
  UNION {ToSet(Chain(local[w], numLocal[w])) \cup ToSet(Chain(failed[w], numFailed[w])) :
         w \in Workers}

(* Read off the pointers and counts alone, without the histories, the      *)
(* manager implements the batch queue: tasks start in the order they were  *)
(* submitted, at most BatchSize together, and none is started or finished  *)
(* twice.  A task leaves the list only into the hands of a worker until the*)
(* destructor, which has set _stop and joined the workers, drops the rest; *)
(* after that no worker starts or finishes anything.                       *)
BQ == INSTANCE BatchQueue WITH Tasks <- ReadyTasks, Limit <- BatchSize,
        pending <- Chain(first, size), started <- Started,
        phase <- IF destroyed THEN "closed" ELSE IF stop THEN "stopping" ELSE "open"
ImplementsBatchQueue == BQ!Spec

(* A task that is queued when the backlog is at the threshold is taken by  *)
(* a worker, also if every worker is busy or asleep at that moment.        *)
BacklogTaken ==
  \A t \in ReadyTasks :
    (size >= ScheduleThreshold /\ t \in ToSet(queue)) ~> (t \notin ToSet(queue) \/ ~running)

(* Once the system is told to stop, every worker leaves its loop and the   *)
(* destructor, which joins them, ends.                                     *)
ShutdownCompletes == ~running ~> destroyed
----------------------------------------------------------------------------
(* The inductive invariant *)

(* A ready task is in one place of one chain: the links of a chain are not *)
(* overwritten by what happens to another.                                 *)
Apart ==
  /\ IsInjective(queue)
  /\ \A w \in Workers :
       /\ IsInjective(batch[w]) /\ IsInjective(retry[w])
       /\ ToSet(batch[w]) \cap ToSet(retry[w]) = {}
       /\ ToSet(queue) \cap Held(w) = {}
       /\ \A v \in Workers \ {w} : Held(v) \cap Held(w) = {}

(* A worker that goes for a batch has none left, and no failed task.       *)
BatchesAreOver ==
  \A w \in Workers :
    /\ worker[w] \notin {"coding", "retrying", "exited"} => batch[w] = <<>>
    /\ worker[w] # "coding" => retry[w] = <<>>

(* The tasks that failed were of one batch.                                *)
BatchesFit == \A w \in Workers : numLocal[w] + numFailed[w] <= BatchSize

Outside == {w \in Workers : worker[w] \in {"spawned", "entering first"}}
InWait == {w \in Workers : worker[w] \in {"waiting", "notified"}}
Born == {w \in Workers : worker[w] # "unborn"}

(* The counters: a worker that exits before it ever had the lock stays     *)
(* counted as not inside.                                                  *)
Counted ==
  /\ uninit >= Cardinality(Outside)
  /\ running => uninit = Cardinality(Outside)
  /\ waiting = Cardinality(InWait)
  /\ numWorkers = Cardinality(Born)

(* The list is cleared when no worker is inside its loop, and none enters  *)
(* it again.                                                               *)
Joined == destroyed => stop /\ \A w \in Workers : worker[w] \in {"unborn", "exited"}

IInv ==
  /\ TypeOK /\ ListIsQueue /\ BatchesAreLinked
  /\ Apart /\ BatchesAreOver /\ BatchesFit /\ Counted /\ Joined
=============================================================================
