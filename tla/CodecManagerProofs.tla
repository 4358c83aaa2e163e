------------------------- MODULE CodecManagerProofs -------------------------
(***************************************************************************)
(* The lists of ready tasks of CodecManager, for any number of tasks,      *)
(* receive threads and workers, and any size of a batch.                   *)
(***************************************************************************)
EXTENDS CodecManager, SequenceLemmas, FiniteSetTheorems

----------------------------------------------------------------------------
(* Chains: what the operations on links do to the sequence they stand for. *)

\* Linked, with the links as a parameter.
Chained(nx, p, n, s) ==
  /\ n = Len(s)
  /\ n > 0 => p = s[1]
  /\ \A i \in 1 .. Len(s) - 1 : nx[s[i]] = s[i + 1]

(* A chain is not changed by other links. *)
LEMMA ChainStays ==
  ASSUME NEW S, NEW s \in Seq(S), NEW nx, NEW ny, NEW p, NEW n, Chained(nx, p, n, s),
         \A x \in ToSet(s) : ny[x] = nx[x]
  PROVE  Chained(ny, p, n, s)
<1>1. \A i \in 1 .. Len(s) - 1 : i \in 1 .. Len(s) /\ s[i] \in ToSet(s)
  <2>1. \A x : x \in ToSet(s) <=> \E i \in 1 .. Len(s) : x = s[i]
    BY InSet
  <2>2. Len(s) \in Nat
    OBVIOUS
  <2>3. QED
    BY <2>1, <2>2
<1>2. QED
  BY <1>1 DEF Chained

(* A task linked to the last one comes last. *)
LEMMA ChainAppend ==
  ASSUME NEW S, NEW s \in Seq(S), NEW t \in S, NEW nx, NEW ny, NEW p, NEW n,
         Chained(nx, p, n, s), IsInjective(s), n > 0,
         ny[s[n]] = t, \A x \in ToSet(s) : x # s[n] => ny[x] = nx[x]
  PROVE  Chained(ny, p, n + 1, Append(s, t))
<1>1. /\ n = Len(s) /\ Len(s) \in Nat /\ p = s[1]
      /\ \A i \in 1 .. Len(s) - 1 : nx[s[i]] = s[i + 1]
  BY DEF Chained
<1>2. /\ Len(Append(s, t)) = n + 1 /\ Append(s, t)[n + 1] = t
      /\ \A i \in 1 .. n : Append(s, t)[i] = s[i]
  BY <1>1
<1>3. \A i, j \in 1 .. Len(s) : s[i] = s[j] => i = j
  BY InjectiveSeq
<1>4. \A i \in 1 .. Len(s) : s[i] \in ToSet(s)
  <2>1. \A x : x \in ToSet(s) <=> \E i \in 1 .. Len(s) : x = s[i]
    BY InSet
  <2>2. QED
    BY <2>1
<1>5. ASSUME NEW i \in 1 .. n PROVE ny[Append(s, t)[i]] = Append(s, t)[i + 1]
  <2>1. CASE i = n
    BY <1>1, <1>2, <2>1
  <2>2. CASE i # n
    <3>1. i \in 1 .. Len(s) - 1 /\ i \in 1 .. n /\ n \in 1 .. n /\ i + 1 \in 1 .. n
      BY <1>1, <2>2
    <3>2. s[i] # s[n] /\ s[i] \in ToSet(s)
      BY <1>1, <1>3, <1>4, <2>2, <3>1
    <3>3. QED
      BY <1>1, <1>2, <3>1, <3>2
  <2>3. QED
    BY <2>1, <2>2
<1>6. Append(s, t)[1] = p
  BY <1>1, <1>2
<1>7. n + 1 - 1 = n
  BY <1>1
<1>8. QED
  BY <1>2, <1>5, <1>6, <1>7 DEF Chained

(* The first task of a chain is deleted, or moved elsewhere. *)
LEMMA ChainTail ==
  ASSUME NEW S, NEW s \in Seq(S), NEW nx, NEW p, NEW n, Chained(nx, p, n, s), n > 0
  PROVE  s # <<>> /\ p = Head(s) /\ Chained(nx, nx[p], n - 1, Tail(s))
<1>1. /\ n = Len(s) /\ Len(s) \in Nat /\ p = s[1]
      /\ \A i \in 1 .. Len(s) - 1 : nx[s[i]] = s[i + 1]
  BY DEF Chained
<1>2. s # <<>> /\ Head(s) = s[1]
  BY <1>1
<1>3. Len(Tail(s)) = n - 1 /\ \A i \in 1 .. n - 1 : Tail(s)[i] = s[i + 1]
  <2>1. /\ Len(Tail(s)) = Len(s) - 1
        /\ \A i \in 1 .. Len(Tail(s)) : Tail(s)[i] = s[i + 1]
    BY <1>2, HeadTailProperties
  <2>2. QED
    BY <1>1, <2>1
<1>4. n - 1 > 0 => nx[p] = Tail(s)[1]
  BY <1>1, <1>3
<1>5. ASSUME NEW i \in 1 .. n - 1 - 1 PROVE nx[Tail(s)[i]] = Tail(s)[i + 1]
  <2>1. i \in 1 .. n - 1 /\ i + 1 \in 1 .. n - 1 /\ i + 1 \in 1 .. Len(s) - 1
    BY <1>1
  <2>2. QED
    BY <1>1, <1>3, <2>1
<1>6. QED
  BY <1>1, <1>2, <1>3, <1>4, <1>5 DEF Chained

(* A task is put in front of a chain. *)
LEMMA ChainCons ==
  ASSUME NEW S, NEW s \in Seq(S), NEW t \in S, NEW nx, NEW p, NEW n,
         Chained(nx, p, n, s), nx[t] = p
  PROVE  Chained(nx, t, n + 1, <<t>> \o s)
<1>1. /\ n = Len(s) /\ Len(s) \in Nat /\ (n > 0 => p = s[1])
      /\ \A i \in 1 .. Len(s) - 1 : nx[s[i]] = s[i + 1]
  BY DEF Chained
<1>2. PICK q : q = <<t>> \o s
  OBVIOUS
<1>3. Len(q) = n + 1 /\ q[1] = t /\ \A i \in 1 .. n : q[i + 1] = s[i]
  BY <1>1, <1>2, OfCons
<1>4. ASSUME NEW i \in 1 .. n PROVE nx[q[i]] = q[i + 1]
  <2>1. CASE i = 1
    BY <1>1, <1>3, <2>1
  <2>2. CASE i # 1
    <3>1. i - 1 \in 1 .. Len(s) - 1 /\ i - 1 \in 1 .. n /\ (i - 1) + 1 = i
      BY <1>1, <2>2
    <3>2. q[i] = s[i - 1] /\ q[i + 1] = s[i] /\ nx[s[i - 1]] = s[i]
      BY <1>1, <1>3, <3>1
    <3>3. QED
      BY <3>2
  <2>3. QED
    BY <2>1, <2>2
<1>5. n + 1 - 1 = n
  BY <1>1
<1>6. Chained(nx, t, n + 1, q)
  BY <1>3, <1>4, <1>5 DEF Chained
<1>7. QED
  BY <1>2, <1>6

(* A chain cut in two. *)
LEMMA ChainCut ==
  ASSUME NEW S, NEW s \in Seq(S), NEW nx, NEW p, NEW n, Chained(nx, p, n, s),
         NEW k \in 0 .. n, NEW a \in Seq(S), NEW b \in Seq(S),
         Len(a) = k, \A i \in 1 .. k : a[i] = s[i],
         Len(b) = n - k, \A i \in 1 .. n - k : b[i] = s[k + i]
  PROVE  /\ Chained(nx, p, k, a)
         /\ \A r : (k < n => r = s[k + 1]) => Chained(nx, r, n - k, b)
<1>1. /\ n = Len(s) /\ Len(s) \in Nat /\ (n > 0 => p = s[1])
      /\ \A i \in 1 .. Len(s) - 1 : nx[s[i]] = s[i + 1]
  BY DEF Chained
<1>2. Chained(nx, p, k, a)
  <2>1. k > 0 => p = a[1]
    BY <1>1
  <2>2. ASSUME NEW i \in 1 .. k - 1 PROVE nx[a[i]] = a[i + 1]
    <3>1. i \in 1 .. k /\ i + 1 \in 1 .. k /\ i \in 1 .. Len(s) - 1
      BY <1>1
    <3>2. QED
      BY <1>1, <3>1
  <2>3. QED
    BY <2>1, <2>2 DEF Chained
<1>3. ASSUME NEW r, k < n => r = s[k + 1] PROVE Chained(nx, r, n - k, b)
  <2>1. n - k > 0 => r = b[1]
    BY <1>1, <1>3
  <2>2. ASSUME NEW i \in 1 .. n - k - 1 PROVE nx[b[i]] = b[i + 1]
    <3>1. /\ i \in 1 .. n - k /\ i + 1 \in 1 .. n - k
          /\ k + i \in 1 .. Len(s) - 1 /\ k + (i + 1) = (k + i) + 1
      BY <1>1
    <3>2. b[i] = s[k + i] /\ b[i + 1] = s[(k + i) + 1] /\ nx[s[k + i]] = s[(k + i) + 1]
      BY <1>1, <3>1
    <3>3. QED
      BY <3>2
  <2>3. QED
    BY <2>1, <2>2 DEF Chained
<1>4. QED
  BY <1>2, <1>3

----------------------------------------------------------------------------
(* The recorded pointers. *)

\* What ListIsQueue says of the recorded pointers.
Recorded(ca, n, q) ==
  /\ \A i \in 1 .. Len(ca) : i * BatchSize < n /\ ca[i] = q[i * BatchSize + 1]
  /\ n <= (Len(ca) + 1) * BatchSize

(* Products with the size of a batch keep the order. *)
LEMMA Times ==
  \A j, k \in Nat : /\ j * BatchSize \in Nat
                    /\ (j + 1) * BatchSize \in Nat
                    /\ (j + 2) * BatchSize \in Nat
                    /\ j <= k => j * BatchSize <= k * BatchSize
                    /\ (j + 1) * BatchSize = j * BatchSize + BatchSize
BY CodecManagerAssumption

(* RecordPointer tests for a multiple of the size of a batch. *)
LEMMA Multiples ==
  \A n \in Nat : n % BatchSize = 0 <=> \E k \in Nat : n = k * BatchSize
<1> SUFFICES ASSUME NEW n \in Nat
             PROVE  n % BatchSize = 0 <=> \E k \in Nat : n = k * BatchSize
  OBVIOUS
<1>1. PICK d, r : d = n \div BatchSize /\ r = n % BatchSize
  OBVIOUS
<1>2. d \in Nat /\ r \in 0 .. BatchSize - 1 /\ n = d * BatchSize + r
  BY <1>1, CodecManagerAssumption
<1>3. ASSUME NEW k \in Nat, n = k * BatchSize PROVE r = 0
  <2>1. k * BatchSize = d * BatchSize + r
    BY <1>2, <1>3
  <2>2. CASE k <= d
    BY <1>2, <2>1, <2>2, Times, CodecManagerAssumption
  <2>3. CASE k > d
    <3>1. (d + 1) * BatchSize <= k * BatchSize
      BY <1>2, <2>3, Times
    <3>2. d * BatchSize + BatchSize <= d * BatchSize + r
      BY <1>2, <2>1, <3>1, Times
    <3>3. d * BatchSize \in Nat
      BY <1>2, Times
    <3>4. QED
      BY <1>2, <3>2, <3>3, CodecManagerAssumption
  <2>4. QED
    BY <1>2, <2>2, <2>3
<1>4. r = 0 => n = d * BatchSize
  <2>1. d * BatchSize \in Nat
    BY <1>2, Times
  <2>2. QED
    BY <1>2, <2>1
<1>5. QED
  BY <1>1, <1>2, <1>3, <1>4

(* enqueueTask records a pointer to every BatchSize-th task.               *)
LEMMA RecordAppend ==
  ASSUME NEW S, NEW q \in Seq(S), NEW ca \in Seq(S), NEW t \in S, NEW n, n = Len(q),
         Recorded(ca, n, q),
         NEW c, c = IF n > 0 /\ n % BatchSize = 0 THEN Append(ca, t) ELSE ca
  PROVE  Recorded(c, n + 1, Append(q, t))
<1>1. PICK m \in Nat : m = Len(ca)
  OBVIOUS
<1>2. /\ n \in Nat /\ n <= (m + 1) * BatchSize
      /\ \A i \in 1 .. m : i * BatchSize < n /\ ca[i] = q[i * BatchSize + 1]
  BY <1>1 DEF Recorded
<1>3. /\ Append(q, t)[n + 1] = t /\ \A i \in 1 .. n : Append(q, t)[i] = q[i]
      /\ Len(Append(ca, t)) = m + 1 /\ Append(ca, t)[m + 1] = t
      /\ \A i \in 1 .. m : Append(ca, t)[i] = ca[i]
  BY <1>1
<1>4. \A i \in 1 .. m : /\ i * BatchSize < n + 1
                        /\ ca[i] = Append(q, t)[i * BatchSize + 1]
  <2>1. ASSUME NEW i \in 1 .. m
        PROVE  i * BatchSize + 1 \in 1 .. n /\ i * BatchSize < n + 1
    <3>1. i \in Nat
      OBVIOUS
    <3>2. i * BatchSize \in Nat
      BY <3>1, Times
    <3>3. QED
      BY <1>2, <3>2
  <2>2. QED
    BY <1>2, <1>3, <2>1
<1>5. CASE n > 0 /\ n % BatchSize = 0
  <2>1. PICK k \in Nat : n = k * BatchSize
    BY <1>2, <1>5, Multiples
  <2>2. k > m
    <3>1. CASE m = 0
      <4>1. 0 * BatchSize = 0
        BY CodecManagerAssumption
      <4>2. QED
        BY <1>5, <2>1, <3>1, <4>1
    <3>2. CASE m > 0
      <4>1. m * BatchSize < k * BatchSize
        BY <1>2, <2>1, <3>2
      <4>2. k <= m => k * BatchSize <= m * BatchSize
        BY Times
      <4>3. k * BatchSize \in Nat /\ m * BatchSize \in Nat
        BY Times
      <4>4. QED
        BY <4>1, <4>2, <4>3
    <3>3. QED
      BY <3>1, <3>2
  <2>3. k <= m + 1
    <3>1. k * BatchSize <= (m + 1) * BatchSize
      BY <1>2, <2>1
    <3>2. m + 2 <= k => (m + 2) * BatchSize <= k * BatchSize
      BY Times
    <3>3. (m + 2) * BatchSize = (m + 1) * BatchSize + BatchSize
      BY Times
    <3>4. (m + 1) * BatchSize \in Nat /\ k * BatchSize \in Nat /\ (m + 2) * BatchSize \in Nat
      BY Times
    <3>5. QED
      BY <3>1, <3>2, <3>3, <3>4, CodecManagerAssumption
  <2>4. n = (m + 1) * BatchSize
    <3>1. k = m + 1
      BY <2>2, <2>3
    <3>2. QED
      BY <2>1, <3>1
  <2>5. n + 1 <= (m + 1 + 1) * BatchSize
    <3>1. (m + 1 + 1) * BatchSize = (m + 1) * BatchSize + BatchSize
      BY Times
    <3>2. QED
      BY <1>2, <2>4, <3>1, CodecManagerAssumption
  <2>6. \A i \in 1 .. m + 1 : /\ i * BatchSize < n + 1
                              /\ Append(ca, t)[i] = Append(q, t)[i * BatchSize + 1]
    <3>1. \A i \in 1 .. m + 1 : i \in 1 .. m \/ i = m + 1
      OBVIOUS
    <3>2. /\ (m + 1) * BatchSize < n + 1
          /\ Append(ca, t)[m + 1] = Append(q, t)[(m + 1) * BatchSize + 1]
      <4>1. n < n + 1 /\ Append(ca, t)[m + 1] = Append(q, t)[n + 1]
        BY <1>2, <1>3
      <4>2. QED
        BY <2>4, <4>1
    <3>3. QED
      BY <1>3, <1>4, <3>1, <3>2
  <2>7. QED
    BY <1>3, <1>5, <2>5, <2>6 DEF Recorded
<1>6. CASE n = 0
  <2>1. n + 1 <= (m + 1) * BatchSize
    <3>1. 1 * BatchSize <= (m + 1) * BatchSize
      BY Times
    <3>2. (m + 1) * BatchSize \in Nat
      BY Times
    <3>3. QED
      BY <1>6, <3>1, <3>2, CodecManagerAssumption
  <2>2. c = ca
    BY <1>6
  <2>3. QED
    BY <1>1, <1>4, <2>1, <2>2, Zenon DEF Recorded
<1>7. CASE n > 0 /\ n % BatchSize # 0
  <2>1. n # (m + 1) * BatchSize
    BY <1>2, <1>7, Multiples
  <2>2. n + 1 <= (m + 1) * BatchSize
    <3>1. (m + 1) * BatchSize \in Nat
      BY Times
    <3>2. QED
      BY <1>2, <2>1, <3>1
  <2>3. c = ca
    BY <1>7
  <2>4. QED
    BY <1>1, <1>4, <2>2, <2>3, Zenon DEF Recorded
<1>8. n = 0 \/ n > 0
  BY <1>2
<1>9. QED
  BY <1>5, <1>6, <1>7, <1>8

(* A list longer than a batch is cut at the first recorded pointer.        *)
LEMMA RecordCut ==
  ASSUME NEW S, NEW q \in Seq(S), NEW ca \in Seq(S), NEW r \in Seq(S), NEW n,
         n = Len(q), Recorded(ca, n, q), n > BatchSize,
         \A i \in 1 .. n - BatchSize : r[i] = q[BatchSize + i]
  PROVE  /\ ca # <<>> /\ Head(ca) = q[BatchSize + 1]
         /\ Recorded(Tail(ca), n - BatchSize, r)
<1>1. PICK m \in Nat : m = Len(ca)
  OBVIOUS
<1>2. /\ n \in Nat /\ n <= (m + 1) * BatchSize
      /\ \A i \in 1 .. m : i * BatchSize < n /\ ca[i] = q[i * BatchSize + 1]
  BY <1>1 DEF Recorded
<1>3. m # 0
  <2>1. (0 + 1) * BatchSize = BatchSize
    BY CodecManagerAssumption
  <2>2. QED
    BY <1>2, <2>1, CodecManagerAssumption
<1>4. ca # <<>> /\ Head(ca) = ca[1] /\ 1 * BatchSize = BatchSize
  BY <1>1, <1>3, CodecManagerAssumption
<1>5. Head(ca) = q[BatchSize + 1]
  BY <1>2, <1>3, <1>4
<1>6. Len(Tail(ca)) = m - 1 /\ \A i \in 1 .. m - 1 : Tail(ca)[i] = ca[i + 1]
  <2>1. /\ Len(Tail(ca)) = Len(ca) - 1
        /\ \A i \in 1 .. Len(Tail(ca)) : Tail(ca)[i] = ca[i + 1]
    BY <1>4, HeadTailProperties
  <2>2. QED
    BY <1>1, <2>1
<1>7. ASSUME NEW i \in 1 .. m - 1
      PROVE  i * BatchSize < n - BatchSize /\ Tail(ca)[i] = r[i * BatchSize + 1]
  <2>1. i + 1 \in 1 .. m /\ i \in Nat
    OBVIOUS
  <2>2. PICK b \in Nat : b = i * BatchSize
    BY <2>1, Times
  <2>3. (i + 1) * BatchSize = b + BatchSize
    BY <2>1, <2>2, Times
  <2>4. b + BatchSize < n /\ ca[i + 1] = q[b + BatchSize + 1]
    BY <1>2, <2>1, <2>3
  <2>5. b + 1 \in 1 .. n - BatchSize /\ BatchSize + (b + 1) = b + BatchSize + 1
    BY <1>2, <2>4, CodecManagerAssumption
  <2>6. r[b + 1] = q[b + BatchSize + 1]
    BY <2>5
  <2>7. b < n - BatchSize
    BY <1>2, <2>4, CodecManagerAssumption
  <2>8. QED
    BY <1>6, <2>2, <2>4, <2>6, <2>7
<1>8. n - BatchSize <= (m - 1 + 1) * BatchSize
  <2>1. (m + 1) * BatchSize = m * BatchSize + BatchSize /\ m * BatchSize \in Nat
    BY Times
  <2>2. m - 1 + 1 = m
    OBVIOUS
  <2>3. QED
    BY <1>2, <2>1, <2>2, CodecManagerAssumption
<1>9. QED
  BY <1>4, <1>5, <1>6, <1>7, <1>8 DEF Recorded

----------------------------------------------------------------------------
(* The invariants, with the variables as parameters. *)

List(nx, f, l, n, ca, q) ==
  /\ Chained(nx, f, n, q)
  /\ n = 0 => f = NULL /\ l = NULL
  /\ n > 0 => l = q[n]
  /\ Recorded(ca, n, q)

\* The chains of a worker.
Worker(nx, lo, nl, b, fa, nf, re) == Chained(nx, lo, nl, b) /\ Chained(nx, fa, nf, re)

(* What the two invariants say now, and what they say after a step.        *)
LEMMA ListIs ==
  /\ ListIsQueue <=> List(next, first, last, size, cached, queue)
  /\ ListIsQueue' <=> List(next', first', last', size', cached', queue')
BY DEF ListIsQueue, Linked, List, Chained, Recorded

(* The same for the chains of the workers.                                *)
LEMMA BatchesAre ==
  /\ BatchesAreLinked <=>
       \A w \in Workers :
         Worker(next, local[w], numLocal[w], batch[w], failed[w], numFailed[w], retry[w])
  /\ BatchesAreLinked' <=>
       \A w \in Workers :
         Worker(next', local'[w], numLocal'[w], batch'[w], failed'[w], numFailed'[w], retry'[w])
BY DEF BatchesAreLinked, Linked, Worker, Chained

(* The queue and the chains consist of ready tasks. *)
LEMMA Tasks ==
  ASSUME TypeOK
  PROVE  /\ queue \in Seq(ReadyTasks) /\ ToSet(queue) \subseteq ReadyTasks
         /\ \A w \in Workers :
              /\ batch[w] \in Seq(ReadyTasks) /\ ToSet(batch[w]) \subseteq ReadyTasks
              /\ retry[w] \in Seq(ReadyTasks) /\ ToSet(retry[w]) \subseteq ReadyTasks
<1>1. queue \in Seq(ReadyTasks)
  BY DEF TypeOK
<1>2. ASSUME NEW w \in Workers PROVE batch[w] \in Seq(ReadyTasks) /\ retry[w] \in Seq(ReadyTasks)
  BY DEF TypeOK
<1>3. QED
  BY <1>1, <1>2, InSet

(* The chains of a worker are not changed by links of other tasks.         *)
LEMMA WorkerStays ==
  ASSUME TypeOK, BatchesAreLinked, NEW w \in Workers, NEW ny,
         \A x \in Held(w) : ny[x] = next[x]
  PROVE  Worker(ny, local[w], numLocal[w], batch[w], failed[w], numFailed[w], retry[w])
<1>1. /\ Chained(next, local[w], numLocal[w], batch[w])
      /\ Chained(next, failed[w], numFailed[w], retry[w])
  BY BatchesAre DEF Worker
<1>2. batch[w] \in Seq(ReadyTasks) /\ retry[w] \in Seq(ReadyTasks)
  BY Tasks
<1>3. /\ \A x \in ToSet(batch[w]) : ny[x] = next[x]
      /\ \A x \in ToSet(retry[w]) : ny[x] = next[x]
  BY DEF Held
<1>4. Chained(ny, local[w], numLocal[w], batch[w])
  BY <1>1, <1>2, <1>3, ChainStays
<1>5. Chained(ny, failed[w], numFailed[w], retry[w])
  BY <1>1, <1>2, <1>3, ChainStays
<1>6. QED
  BY <1>4, <1>5 DEF Worker

----------------------------------------------------------------------------
(* The lists in the steps of receive threads *)

(* A task is appended. *)
LEMMA EnqueueLists ==
  ASSUME TypeOK, ListIsQueue, BatchesAreLinked, Apart,
         NEW r, NEW t \in ReadyTasks, EnqueueTask(r, t)
  PROVE  ListIsQueue' /\ BatchesAreLinked' /\ Apart'
<1>1. t \notin ToSet(queue) /\ \A w \in Workers : t \notin Held(w)
  BY DEF EnqueueTask, Free
<1>2. /\ queue \in Seq(ReadyTasks) /\ cached \in Seq(ReadyTasks) /\ IsInjective(queue)
      /\ next \in [ReadyTasks -> Pointer]
  BY DEF TypeOK, Apart
<1>3. /\ Chained(next, first, size, queue) /\ Recorded(cached, size, queue)
      /\ size = 0 => last = NULL
      /\ size > 0 => last = queue[size]
  BY ListIs DEF List
<1>4. size = Len(queue) /\ Len(queue) \in Nat
  BY <1>2, <1>3 DEF Chained
<1>5. /\ last' = t /\ size' = size + 1 /\ queue' = Append(queue, t)
      /\ UNCHANGED <<local, numLocal, failed, numFailed, batch, retry>>
      /\ cached' = IF size > 0 /\ size % BatchSize = 0 THEN Append(cached, t) ELSE cached
  BY DEF EnqueueTask, RecordPointer, localVars
<1>6. /\ \A x \in ReadyTasks : x # t /\ x \notin ToSet(queue) => next'[x] = next[x]
      /\ Chained(next', first', size + 1, Append(queue, t))
  <2>1. CASE size = 0
    <3>1. last = NULL /\ first' = t /\ next' = [next EXCEPT ![t] = NULL]
      BY <1>3, <2>1 DEF EnqueueTask
    <3>2. \A x \in ReadyTasks : x # t => next'[x] = next[x]
      BY <1>2, <3>1
    <3>3. Len(Append(queue, t)) = 1 /\ Append(queue, t)[1] = t
      <4>1. /\ Len(Append(queue, t)) = Len(queue) + 1
            /\ Append(queue, t)[Len(queue) + 1] = t
        BY <1>2
      <4>2. Len(queue) + 1 = 1
        BY <1>4, <2>1
      <4>3. QED
        BY <4>1, <4>2, Zenon
    <3>4. Chained(next', t, 1, Append(queue, t))
      BY <3>3 DEF Chained
    <3>5. QED
      BY <2>1, <3>1, <3>2, <3>4
  <2>2. CASE size > 0
    <3>1. last = queue[size] /\ size \in 1 .. Len(queue)
      BY <1>3, <1>4, <2>2
    <3>2. last \in ToSet(queue) /\ last \in ReadyTasks
      <4>1. \A x : x \in ToSet(queue) <=> \E i \in 1 .. Len(queue) : x = queue[i]
        BY <1>2, InSet
      <4>2. QED
        BY <3>1, <4>1, Tasks
    <3>3. last # NULL /\ last # t
      BY <1>1, <3>2, CodecManagerAssumption
    <3>4. first' = first /\ next' = [next EXCEPT ![t] = NULL, ![last] = t]
      BY <3>3 DEF EnqueueTask
    <3>5. /\ next'[last] = t
          /\ \A x \in ReadyTasks : x # t /\ x # last => next'[x] = next[x]
      BY <1>2, <3>2, <3>3, <3>4
    <3>6. \A x \in ToSet(queue) : x # queue[size] => next'[x] = next[x]
      BY <1>1, <3>1, <3>5, Tasks
    <3>7. PICK ny : ny = next'
      OBVIOUS
    <3>8. Chained(ny, first, size + 1, Append(queue, t))
      BY <1>2, <1>3, <2>2, <3>1, <3>5, <3>6, <3>7, ChainAppend
    <3>9. QED
      BY <3>2, <3>4, <3>5, <3>7, <3>8
  <2>3. QED
    BY <1>4, <2>1, <2>2
<1>7. ListIsQueue'
  <2>1. PICK c : c = cached'
    OBVIOUS
  <2>2. Recorded(c, size + 1, Append(queue, t))
    BY <1>2, <1>3, <1>4, <1>5, <2>1, RecordAppend
  <2>3. Append(queue, t)[size + 1] = t /\ size + 1 # 0
    BY <1>2, <1>4
  <2>4. List(next', first', last', size', cached', queue')
    BY <1>5, <1>6, <2>1, <2>2, <2>3 DEF List
  <2>5. QED
    BY <2>4, ListIs
<1>8. BatchesAreLinked'
  <2>1. ASSUME NEW w \in Workers
        PROVE  Worker(next', local[w], numLocal[w], batch[w], failed[w], numFailed[w], retry[w])
    <3>1. \A x \in Held(w) : x \in ReadyTasks /\ x # t /\ x \notin ToSet(queue)
      BY <1>1, Tasks DEF Apart, Held
    <3>2. QED
      BY <1>6, <3>1, WorkerStays
  <2>2. QED
    BY <1>5, <2>1, BatchesAre
<1>9. Apart'
  <2>1. /\ ToSet(Append(queue, t)) = ToSet(queue) \cup {t}
        /\ IsInjective(Append(queue, t))
    BY <1>1, <1>2, OfAppend
  <2>2. \A w \in Workers : ToSet(Append(queue, t)) \cap Held(w) = {}
    BY <1>1, <2>1 DEF Apart
  <2>3. \A w \in Workers : Held(w)' = Held(w)
    BY <1>5 DEF Held
  <2>4. QED
    BY <1>5, <2>1, <2>2, <2>3 DEF Apart
<1>10. QED
  BY <1>7, <1>8, <1>9

(* Whatever leaves the chains alone leaves the lists alone.                *)
LEMMA KeepLists ==
  ASSUME ListIsQueue, BatchesAreLinked, Apart, BatchesFit,
         UNCHANGED <<next, first, last, size, cached, queue>>,
         UNCHANGED <<local, numLocal, failed, numFailed, batch, retry>>
  PROVE  ListIsQueue' /\ BatchesAreLinked' /\ Apart' /\ BatchesFit'
<1>1. ListIsQueue'
  BY ListIs
<1>2. BatchesAreLinked'
  BY BatchesAre
<1>3. Apart' /\ BatchesFit'
  BY DEF Apart, Held, BatchesFit
<1>4. QED
  BY <1>1, <1>2, <1>3

----------------------------------------------------------------------------
(* The lists in the steps of workers *)

(* A worker cuts a batch off. *)
LEMMA TakeSplits ==
  ASSUME TypeOK, ListIsQueue, NEW w \in Workers, TakeBatch(w), first # NULL
  PROVE  \E n \in 1 .. BatchSize :
           /\ n <= Len(queue)
           /\ batch' = [batch EXCEPT ![w] = SubSeq(queue, 1, n)]
           /\ queue' = SubSeq(queue, n + 1, Len(queue))
           /\ Chained(next, first, n, SubSeq(queue, 1, n))
           /\ List(next, first', last', size', cached', queue')
           /\ local' = [local EXCEPT ![w] = first]
           /\ numLocal' = [numLocal EXCEPT ![w] = n]
           /\ UNCHANGED <<next, failed, numFailed, retry>>
<1>1. /\ queue \in Seq(ReadyTasks) /\ cached \in Seq(ReadyTasks)
  BY DEF TypeOK
<1>2. /\ Chained(next, first, size, queue) /\ Recorded(cached, size, queue)
      /\ size = 0 => first = NULL
      /\ size > 0 => last = queue[size]
  BY ListIs DEF List
<1>3. size = Len(queue) /\ Len(queue) \in Nat /\ size > 0
  BY <1>1, <1>2 DEF Chained
<1>4. PICK n : n = IF size > BatchSize THEN BatchSize ELSE size
  OBVIOUS
<1>5. n \in 1 .. BatchSize /\ n <= size /\ n \in 0 .. size /\ n \in 0 .. Len(queue)
  BY <1>3, <1>4, CodecManagerAssumption
<1>6. /\ batch' = [batch EXCEPT ![w] = SubSeq(queue, 1, n)]
      /\ queue' = SubSeq(queue, n + 1, Len(queue))
      /\ local' = [local EXCEPT ![w] = first]
      /\ numLocal' = [numLocal EXCEPT ![w] = n]
      /\ size' = size - n
      /\ UNCHANGED <<next, failed, numFailed, retry>>
  BY <1>4, Zenon DEF TakeBatch
<1>7. PICK a, b : a = SubSeq(queue, 1, n) /\ b = SubSeq(queue, n + 1, Len(queue))
  OBVIOUS
<1>8. /\ a \in Seq(ReadyTasks) /\ Len(a) = n /\ \A i \in 1 .. n : a[i] = queue[i]
      /\ b \in Seq(ReadyTasks) /\ Len(b) = size - n
      /\ \A i \in 1 .. size - n : b[i] = queue[n + i]
  BY <1>1, <1>3, <1>5, <1>7, OfSplit
<1>9. /\ Chained(next, first, n, a)
      /\ \A r : (n < size => r = queue[n + 1]) => Chained(next, r, size - n, b)
  BY <1>1, <1>2, <1>5, <1>8, ChainCut
<1>10. List(next, first', last', size', cached', b)
  <2>1. CASE size > BatchSize
    <3>1. n = BatchSize /\ n < size
      BY <1>4, <2>1
    <3>2. first' = Head(cached) /\ cached' = Tail(cached) /\ last' = last
      BY <2>1 DEF TakeBatch
    <3>3. Head(cached) = queue[n + 1] /\ Recorded(Tail(cached), size - n, b)
      <4>1. \A i \in 1 .. size - BatchSize : b[i] = queue[BatchSize + i]
        BY <1>8, <3>1
      <4>2. /\ Head(cached) = queue[BatchSize + 1]
            /\ Recorded(Tail(cached), size - BatchSize, b)
        <5>1. /\ Recorded(cached, size, queue) /\ size = Len(queue) /\ b \in Seq(ReadyTasks)
              /\ cached \in Seq(ReadyTasks) /\ queue \in Seq(ReadyTasks)
          BY <1>1, <1>2, <1>3, <1>8
        <5>2. QED
          BY <2>1, <4>1, <5>1, RecordCut
      <4>3. QED
        BY <3>1, <4>2, Zenon
    <3>4. Chained(next, first', size - n, b)
      BY <1>9, <3>2, <3>3
    <3>5. size - n > 0 /\ size - n \in 1 .. size - n /\ n + (size - n) = size
      BY <1>3, <1>5, <3>1
    <3>6. last' = b[size - n]
      BY <1>2, <1>3, <1>8, <3>2, <3>5
    <3>7. QED
      BY <1>6, <3>2, <3>3, <3>4, <3>5, <3>6 DEF List
  <2>2. CASE ~(size > BatchSize)
    <3>1. n = size /\ size - n = 0
      BY <1>3, <1>4, <2>2
    <3>2. first' = NULL /\ last' = NULL /\ cached' = cached
      BY <2>2 DEF TakeBatch
    <3>3. Len(cached) = 0
      <4>1. 1 * BatchSize = BatchSize
        BY CodecManagerAssumption
      <4>2. 1 \in 1 .. Len(cached) => 1 * BatchSize < size
        BY <1>2 DEF Recorded
      <4>3. QED
        BY <1>1, <1>3, <2>2, <4>1, <4>2, CodecManagerAssumption
    <3>4. Recorded(cached, 0, b)
      <4>1. 0 <= (0 + 1) * BatchSize
        BY CodecManagerAssumption
      <4>2. QED
        BY <3>3, <4>1 DEF Recorded
    <3>5. Chained(next, NULL, 0, b)
      <4>1. ~(n < size)
        BY <1>3, <3>1
      <4>2. Chained(next, NULL, size - n, b)
        BY <1>9, <4>1, Zenon
      <4>3. QED
        BY <3>1, <4>2, Zenon
    <3>6. QED
      BY <1>6, <3>1, <3>2, <3>4, <3>5 DEF List
  <2>3. QED
    BY <2>1, <2>2
<1>11. QED
  BY <1>3, <1>5, <1>6, <1>7, <1>9, <1>10, Zenon

(* A worker takes a batch: the chains of the list and of the worker are right. *)
LEMMA TakeLists ==
  ASSUME TypeOK, ListIsQueue, BatchesAreLinked, Apart, BatchesAreOver, BatchesFit,
         NEW w \in Workers, worker[w] \notin {"coding", "retrying", "exited"},
         TakeBatch(w), first # NULL
  PROVE  ListIsQueue' /\ BatchesAreLinked' /\ Apart' /\ BatchesAreOver' /\ BatchesFit'
<1>1. PICK n \in 1 .. BatchSize :
        /\ n <= Len(queue)
        /\ batch' = [batch EXCEPT ![w] = SubSeq(queue, 1, n)]
        /\ queue' = SubSeq(queue, n + 1, Len(queue))
        /\ Chained(next, first, n, SubSeq(queue, 1, n))
        /\ List(next, first', last', size', cached', queue')
        /\ local' = [local EXCEPT ![w] = first]
        /\ numLocal' = [numLocal EXCEPT ![w] = n]
        /\ UNCHANGED <<next, failed, numFailed, retry>>
  BY TakeSplits
<1>2. PICK a, b : a = SubSeq(queue, 1, n) /\ b = SubSeq(queue, n + 1, Len(queue))
  OBVIOUS
<1>3. /\ a \in Seq(ReadyTasks) /\ b \in Seq(ReadyTasks)
      /\ ToSet(queue) = ToSet(a) \cup ToSet(b)
      /\ IsInjective(a) /\ IsInjective(b) /\ ToSet(a) \cap ToSet(b) = {}
  <2>1. queue \in Seq(ReadyTasks) /\ n \in 0 .. Len(queue) /\ Len(queue) \in Nat
    BY <1>1, CodecManagerAssumption DEF TypeOK
  <2>2. /\ a \in Seq(ReadyTasks) /\ Len(a) = n /\ \A i \in 1 .. n : a[i] = queue[i]
        /\ b \in Seq(ReadyTasks) /\ Len(b) = Len(queue) - n
        /\ \A i \in 1 .. Len(queue) - n : b[i] = queue[n + i]
    BY <1>2, <2>1, OfSplit
  <2>3. /\ Len(queue) = Len(a) + Len(b) /\ \A i \in 1 .. Len(a) : a[i] = queue[i]
        /\ \A i \in 1 .. Len(b) : b[i] = queue[Len(a) + i]
    BY <2>1, <2>2
  <2>4. /\ ToSet(queue) = ToSet(a) \cup ToSet(b)
        /\ IsInjective(queue) <=> /\ IsInjective(a) /\ IsInjective(b)
                                  /\ ToSet(a) \cap ToSet(b) = {}
    <3>1. queue \in Seq(ReadyTasks) /\ a \in Seq(ReadyTasks) /\ b \in Seq(ReadyTasks)
      BY <2>1, <2>2
    <3>2. queue = a \o b
      BY <2>3, <3>1, OfParts
    <3>3. /\ ToSet(a \o b) = ToSet(a) \cup ToSet(b)
          /\ IsInjective(a \o b) <=> /\ IsInjective(a) /\ IsInjective(b)
                                     /\ ToSet(a) \cap ToSet(b) = {}
      BY <3>1, OfConcat
    <3>4. QED
      BY <3>2, <3>3, Zenon
  <2>5. QED
    BY <2>2, <2>4 DEF Apart
<1>4. queue' = b /\ batch' = [batch EXCEPT ![w] = a] /\ Chained(next, first, n, a)
  BY <1>1, <1>2
<1>5. /\ batch[w] = <<>> /\ retry[w] = <<>> /\ worker' = [worker EXCEPT ![w] = "coding"]
  BY DEF BatchesAreOver, TakeBatch
<1>6. /\ batch'[w] = a /\ local'[w] = first /\ numLocal'[w] = n /\ worker'[w] = "coding"
      /\ \A v \in Workers \ {w} : /\ batch'[v] = batch[v] /\ local'[v] = local[v]
                                  /\ numLocal'[v] = numLocal[v] /\ worker'[v] = worker[v]
  BY <1>1, <1>4, <1>5 DEF TypeOK
<1>7. ToSet(retry[w]) = {} /\ ToSet(batch[w]) = {} /\ Held(w) = {}
  BY <1>5, OfNone DEF Held
<1>8. Held(w)' = ToSet(a) /\ \A v \in Workers \ {w} : Held(v)' = Held(v)
  BY <1>1, <1>6, <1>7 DEF Held
<1>9. ListIsQueue'
  BY <1>1, ListIs
<1>10. BatchesAreLinked'
  <2>1. /\ Chained(next, failed[w], numFailed[w], retry[w])
        /\ \A v \in Workers : Worker(next, local[v], numLocal[v], batch[v],
                                     failed[v], numFailed[v], retry[v])
    BY BatchesAre DEF Worker
  <2>2. Worker(next, first, n, a, failed[w], numFailed[w], retry[w])
    BY <1>4, <2>1 DEF Worker
  <2>3. ASSUME NEW v \in Workers
        PROVE  Worker(next', local'[v], numLocal'[v], batch'[v],
                      failed'[v], numFailed'[v], retry'[v])
    BY <1>1, <1>6, <2>1, <2>2
  <2>4. QED
    BY <2>3, BatchesAre
<1>11. Apart'
  <2>1. ASSUME NEW v \in Workers
        PROVE  /\ IsInjective(batch'[v]) /\ IsInjective(retry'[v])
               /\ ToSet(batch'[v]) \cap ToSet(retry'[v]) = {}
               /\ ToSet(queue') \cap Held(v)' = {}
               /\ \A u \in Workers \ {v} : Held(u)' \cap Held(v)' = {}
    <3>0. /\ IsInjective(batch[v]) /\ IsInjective(retry[v])
          /\ ToSet(batch[v]) \cap ToSet(retry[v]) = {}
          /\ \A u \in Workers : ToSet(queue) \cap Held(u) = {}
          /\ \A u \in Workers \ {v} : Held(u) \cap Held(v) = {}
          /\ retry'[v] = retry[v]
      BY <1>1 DEF Apart
    <3>1. CASE v = w
      <4>1. IsInjective(batch'[v]) /\ IsInjective(retry'[v])
        BY <1>3, <1>6, <3>0, <3>1
      <4>2. ToSet(batch'[v]) \cap ToSet(retry'[v]) = {}
        BY <1>7, <3>0, <3>1
      <4>3. ToSet(queue') \cap Held(v)' = {}
        BY <1>3, <1>4, <1>8, <3>1
      <4>4. \A u \in Workers \ {v} : Held(u)' \cap Held(v)' = {}
        BY <1>3, <1>8, <3>0, <3>1
      <4>5. QED
        BY <4>1, <4>2, <4>3, <4>4
    <3>2. CASE v # w
      <4>1. batch'[v] = batch[v] /\ Held(v)' = Held(v)
        BY <1>6, <1>8, <3>2
      <4>2. ToSet(queue') \cap Held(v)' = {}
        BY <1>3, <1>4, <3>0, <4>1
      <4>3. \A u \in Workers \ {v} : Held(u)' \cap Held(v)' = {}
        BY <1>3, <1>8, <3>0, <3>2, <4>1
      <4>4. QED
        BY <3>0, <4>1, <4>2, <4>3
    <3>3. QED
      BY <3>1, <3>2
  <2>2. QED
    BY <1>3, <1>4, <2>1 DEF Apart
<1>12. BatchesAreOver'
  BY <1>1, <1>5, <1>6 DEF BatchesAreOver
<1>13. BatchesFit'
  <2>1. numFailed[w] = 0
    <3>1. Chained(next, failed[w], numFailed[w], retry[w])
      BY BatchesAre DEF Worker
    <3>2. QED
      BY <1>5, <3>1 DEF Chained
  <2>2. numLocal'[w] + numFailed'[w] <= BatchSize
    BY <1>1, <1>6, <2>1, CodecManagerAssumption
  <2>3. QED
    BY <1>1, <1>6, <2>2 DEF BatchesFit
<1>14. QED
  BY <1>9, <1>10, <1>11, <1>12, <1>13

(* The links of the queue are not changed by those of other tasks.         *)
LEMMA QueueStays ==
  ASSUME TypeOK, ListIsQueue, UNCHANGED <<first, last, size, cached, queue>>,
         \A x \in ToSet(queue) : next'[x] = next[x]
  PROVE  ListIsQueue'
<1>1. PICK ny : ny = next'
  OBVIOUS
<1>2. Chained(next, first, size, queue) /\ queue \in Seq(ReadyTasks)
  BY ListIs, Tasks DEF List
<1>3. Chained(ny, first, size, queue)
  BY <1>1, <1>2, ChainStays
<1>4. List(next', first', last', size', cached', queue')
  BY <1>1, <1>3, ListIs DEF List
<1>5. QED
  BY <1>4, ListIs

(* The task a worker runs is the first of its batch, and in no other place.*)
LEMMA RunHead ==
  ASSUME TypeOK, BatchesAreLinked, Apart, NEW w \in Workers, numLocal[w] > 0
  PROVE  /\ batch[w] # <<>> /\ local[w] = Head(batch[w]) /\ local[w] \in ReadyTasks
         /\ Tail(batch[w]) \in Seq(ReadyTasks) /\ IsInjective(Tail(batch[w]))
         /\ Chained(next, next[local[w]], numLocal[w] - 1, Tail(batch[w]))
         /\ ToSet(batch[w]) = {local[w]} \cup ToSet(Tail(batch[w]))
         /\ local[w] \notin ToSet(Tail(batch[w])) /\ local[w] \notin ToSet(retry[w])
         /\ local[w] \notin ToSet(queue)
         /\ \A v \in Workers \ {w} : local[w] \notin Held(v)
<1>1. PICK b \in Seq(ReadyTasks) : b = batch[w]
  BY Tasks
<1>2. PICK p, n : p = local[w] /\ n = numLocal[w]
  OBVIOUS
<1>3. Chained(next, p, n, b) /\ n > 0 /\ IsInjective(b)
  BY <1>1, <1>2, BatchesAre DEF Worker, Apart
<1>4. b # <<>> /\ p = Head(b) /\ Chained(next, next[p], n - 1, Tail(b))
  BY <1>3, ChainTail
<1>5. /\ Head(b) \in ReadyTasks /\ Tail(b) \in Seq(ReadyTasks)
      /\ ToSet(b) = {Head(b)} \cup ToSet(Tail(b))
      /\ IsInjective(b) <=> IsInjective(Tail(b)) /\ Head(b) \notin ToSet(Tail(b))
  BY <1>4, OfTail
<1>6. /\ ToSet(b) \cap ToSet(retry[w]) = {} /\ ToSet(queue) \cap Held(w) = {}
      /\ \A v \in Workers \ {w} : Held(v) \cap Held(w) = {}
      /\ ToSet(b) \subseteq Held(w)
  BY <1>1 DEF Apart, Held
<1>7. p \in ToSet(b)
  BY <1>4, <1>5
<1>8. QED
  BY <1>1, <1>2, <1>3, <1>4, <1>5, <1>6, <1>7

(* A task that has been coded is deleted. *)
LEMMA SucceedLists ==
  ASSUME TypeOK, ListIsQueue, BatchesAreLinked, Apart, BatchesAreOver, BatchesFit,
         NEW w \in Workers, RunSucceeds(w)
  PROVE  ListIsQueue' /\ BatchesAreLinked' /\ Apart' /\ BatchesAreOver' /\ BatchesFit'
<1>1. /\ worker[w] = "coding" /\ numLocal[w] > 0
      /\ local' = [local EXCEPT ![w] = next[local[w]]]
      /\ next' = [next EXCEPT ![local[w]] = NULL]
      /\ numLocal' = [numLocal EXCEPT ![w] = numLocal[w] - 1]
      /\ batch' = [batch EXCEPT ![w] = Tail(batch[w])]
      /\ UNCHANGED <<first, last, size, cached, queue, worker, failed, numFailed, retry>>
  BY DEF RunSucceeds
<1>2. PICK h \in ReadyTasks, b \in Seq(ReadyTasks) : h = local[w] /\ b = Tail(batch[w])
  BY <1>1, RunHead
<1>3. /\ IsInjective(b) /\ Chained(next, next[h], numLocal[w] - 1, b)
      /\ ToSet(batch[w]) = {h} \cup ToSet(b)
      /\ h \notin ToSet(b) /\ h \notin ToSet(retry[w]) /\ h \notin ToSet(queue)
      /\ \A v \in Workers \ {w} : h \notin Held(v)
  BY <1>1, <1>2, RunHead
<1>4. \A x \in ReadyTasks : x # h => next'[x] = next[x]
  BY <1>1, <1>2 DEF TypeOK
<1>5. /\ local'[w] = next[h] /\ numLocal'[w] = numLocal[w] - 1 /\ batch'[w] = b
      /\ \A v \in Workers \ {w} : /\ batch'[v] = batch[v] /\ local'[v] = local[v]
                                  /\ numLocal'[v] = numLocal[v]
  BY <1>1, <1>2 DEF TypeOK
<1>6. Held(w)' = ToSet(b) \cup ToSet(retry[w]) /\ \A v \in Workers \ {w} : Held(v)' = Held(v)
  BY <1>1, <1>5 DEF Held
<1>7. ListIsQueue'
  <2>1. \A x \in ToSet(queue) : next'[x] = next[x]
    BY <1>3, <1>4, Tasks
  <2>2. QED
    BY <1>1, <2>1, QueueStays
<1>8. BatchesAreLinked'
  <2>1. PICK ny : ny = next'
    OBVIOUS
  <2>2. ASSUME NEW v \in Workers
        PROVE  Worker(ny, local'[v], numLocal'[v], batch'[v], failed[v], numFailed[v], retry[v])
    <3>1. CASE v = w
      <4>1. \A x \in ToSet(b) : ny[x] = next[x]
        BY <1>2, <1>3, <1>4, <2>1, InSet
      <4>2. Chained(ny, next[h], numLocal[w] - 1, b)
        BY <1>2, <1>3, <4>1, ChainStays
      <4>3. retry[w] \in Seq(ReadyTasks) /\ \A x \in ToSet(retry[w]) : ny[x] = next[x]
        BY <1>3, <1>4, <2>1, Tasks
      <4>4. Chained(next, failed[w], numFailed[w], retry[w])
        BY BatchesAre DEF Worker
      <4>5. Chained(ny, failed[w], numFailed[w], retry[w])
        BY <4>3, <4>4, ChainStays
      <4>6. QED
        BY <1>5, <3>1, <4>2, <4>5 DEF Worker
    <3>2. CASE v # w
      <4>1. \A x \in Held(v) : ny[x] = next[x]
        BY <1>3, <1>4, <2>1, <3>2, Tasks DEF Held
      <4>2. QED
        BY <1>5, <3>2, <4>1, WorkerStays
    <3>3. QED
      BY <3>1, <3>2
  <2>3. QED
    BY <1>1, <2>1, <2>2, BatchesAre
<1>9. Apart'
  <2>1. Held(w)' \subseteq Held(w)
    BY <1>3, <1>6 DEF Held
  <2>2. \A v \in Workers : Held(v)' \subseteq Held(v)
    BY <1>6, <2>1
  <2>3. \A v \in Workers : /\ IsInjective(batch'[v]) /\ IsInjective(retry[v])
                           /\ ToSet(batch'[v]) \cap ToSet(retry[v]) = {}
    BY <1>3, <1>5 DEF Apart
  <2>4. \A v \in Workers : /\ ToSet(queue) \cap Held(v)' = {}
                           /\ \A u \in Workers \ {v} : Held(u)' \cap Held(v)' = {}
    BY <2>2 DEF Apart
  <2>5. IsInjective(queue)
    BY DEF Apart
  <2>6. QED
    BY <1>1, <2>3, <2>4, <2>5 DEF Apart
<1>10. BatchesAreOver'
  BY <1>1, <1>5 DEF BatchesAreOver
<1>11. BatchesFit'
  BY <1>1, <1>5, CodecManagerAssumption DEF BatchesFit, TypeOK
<1>12. QED
  BY <1>7, <1>8, <1>9, <1>10, <1>11

(* A task whose coding failed is put in front of those that failed before. *)
LEMMA FailLists ==
  ASSUME TypeOK, ListIsQueue, BatchesAreLinked, Apart, BatchesAreOver, BatchesFit,
         NEW w \in Workers, RunFails(w)
  PROVE  ListIsQueue' /\ BatchesAreLinked' /\ Apart' /\ BatchesAreOver' /\ BatchesFit'
<1>1. /\ worker[w] = "coding" /\ numLocal[w] > 0
      /\ local' = [local EXCEPT ![w] = next[local[w]]]
      /\ next' = [next EXCEPT ![local[w]] = failed[w]]
      /\ failed' = [failed EXCEPT ![w] = local[w]]
      /\ numFailed' = [numFailed EXCEPT ![w] = numFailed[w] + 1]
      /\ numLocal' = [numLocal EXCEPT ![w] = numLocal[w] - 1]
      /\ batch' = [batch EXCEPT ![w] = Tail(batch[w])]
      /\ retry' = [retry EXCEPT ![w] = <<Head(batch[w])>> \o retry[w]]
      /\ UNCHANGED <<first, last, size, cached, queue, worker>>
  BY DEF RunFails
<1>2. PICK h \in ReadyTasks, b \in Seq(ReadyTasks) : h = local[w] /\ b = Tail(batch[w])
  BY <1>1, RunHead
<1>3. /\ IsInjective(b) /\ Chained(next, next[h], numLocal[w] - 1, b)
      /\ ToSet(batch[w]) = {h} \cup ToSet(b) /\ h = Head(batch[w])
      /\ h \notin ToSet(b) /\ h \notin ToSet(retry[w]) /\ h \notin ToSet(queue)
      /\ \A v \in Workers \ {w} : h \notin Held(v)
  BY <1>1, <1>2, RunHead
<1>4. /\ next'[h] = failed[w]
      /\ \A x \in ReadyTasks : x # h => next'[x] = next[x]
  BY <1>1, <1>2 DEF TypeOK
<1>5. PICK r \in Seq(ReadyTasks) : r = <<h>> \o retry[w]
  BY Tasks, OfCons
<1>6. /\ ToSet(r) = {h} \cup ToSet(retry[w]) /\ IsInjective(r)
  BY <1>3, <1>5, Tasks, OfCons DEF Apart
<1>7. /\ local'[w] = next[h] /\ numLocal'[w] = numLocal[w] - 1 /\ batch'[w] = b
      /\ failed'[w] = h /\ numFailed'[w] = numFailed[w] + 1 /\ retry'[w] = r
      /\ \A v \in Workers \ {w} :
           /\ batch'[v] = batch[v] /\ local'[v] = local[v] /\ numLocal'[v] = numLocal[v]
           /\ retry'[v] = retry[v] /\ failed'[v] = failed[v] /\ numFailed'[v] = numFailed[v]
  BY <1>1, <1>2, <1>3, <1>5 DEF TypeOK
<1>8. Held(w)' = Held(w) /\ \A v \in Workers \ {w} : Held(v)' = Held(v)
  BY <1>3, <1>6, <1>7 DEF Held
<1>9. ListIsQueue'
  <2>1. \A x \in ToSet(queue) : next'[x] = next[x]
    BY <1>3, <1>4, Tasks
  <2>2. QED
    BY <1>1, <2>1, QueueStays
<1>10. BatchesAreLinked'
  <2>1. PICK ny : ny = next'
    OBVIOUS
  <2>2. Worker(ny, next[h], numLocal[w] - 1, b, h, numFailed[w] + 1, r)
    <3>1. \A x \in ToSet(b) : ny[x] = next[x]
      BY <1>2, <1>3, <1>4, <2>1, InSet
    <3>2. Chained(ny, next[h], numLocal[w] - 1, b)
      BY <1>2, <1>3, <3>1, ChainStays
    <3>3. retry[w] \in Seq(ReadyTasks) /\ \A x \in ToSet(retry[w]) : ny[x] = next[x]
      BY <1>3, <1>4, <2>1, Tasks
    <3>4. Chained(next, failed[w], numFailed[w], retry[w])
      BY BatchesAre DEF Worker
    <3>5. Chained(ny, failed[w], numFailed[w], retry[w])
      BY <3>3, <3>4, ChainStays
    <3>6. Chained(ny, h, numFailed[w] + 1, <<h>> \o retry[w])
      BY <1>4, <2>1, <3>3, <3>5, ChainCons
    <3>7. QED
      BY <1>5, <3>2, <3>6 DEF Worker
  <2>3. ASSUME NEW v \in Workers
        PROVE  Worker(ny, local'[v], numLocal'[v], batch'[v], failed'[v], numFailed'[v], retry'[v])
    <3>1. CASE v = w
      BY <1>7, <2>2, <3>1
    <3>2. CASE v # w
      <4>1. \A x \in Held(v) : ny[x] = next[x]
        BY <1>3, <1>4, <2>1, <3>2, Tasks DEF Held
      <4>2. QED
        BY <1>7, <3>2, <4>1, WorkerStays
    <3>3. QED
      BY <3>1, <3>2
  <2>4. QED
    BY <2>1, <2>3, BatchesAre
<1>11. Apart'
  <2>1. \A v \in Workers : Held(v)' = Held(v)
    BY <1>8
  <2>2. ASSUME NEW v \in Workers
        PROVE  /\ IsInjective(batch'[v]) /\ IsInjective(retry'[v])
               /\ ToSet(batch'[v]) \cap ToSet(retry'[v]) = {}
    <3>1. CASE v = w
      <4>1. ToSet(batch[w]) \cap ToSet(retry[w]) = {}
        BY DEF Apart
      <4>2. QED
        BY <1>3, <1>6, <1>7, <3>1, <4>1
    <3>2. CASE v # w
      BY <1>7, <3>2 DEF Apart
    <3>3. QED
      BY <3>1, <3>2
  <2>3. QED
    BY <1>1, <2>1, <2>2 DEF Apart
<1>12. BatchesAreOver'
  BY <1>1, <1>7 DEF BatchesAreOver
<1>13. BatchesFit'
  BY <1>1, <1>7, CodecManagerAssumption DEF BatchesFit, TypeOK
<1>14. QED
  BY <1>9, <1>10, <1>11, <1>12, <1>13

(* The failed tasks become the batch. *)
LEMMA EndLists ==
  ASSUME TypeOK, ListIsQueue, BatchesAreLinked, Apart, BatchesAreOver, BatchesFit,
         NEW w \in Workers, EndBatch(w)
  PROVE  ListIsQueue' /\ BatchesAreLinked' /\ Apart' /\ BatchesAreOver' /\ BatchesFit'
<1>1. /\ worker[w] = "coding" /\ numLocal[w] = 0
      /\ local' = [local EXCEPT ![w] = failed[w]]
      /\ numLocal' = [numLocal EXCEPT ![w] = numFailed[w]]
      /\ failed' = [failed EXCEPT ![w] = NULL]
      /\ numFailed' = [numFailed EXCEPT ![w] = 0]
      /\ batch' = [batch EXCEPT ![w] = retry[w]]
      /\ retry' = [retry EXCEPT ![w] = <<>>]
      /\ worker' = [worker EXCEPT ![w] = IF failed[w] = NULL THEN "idle" ELSE "retrying"]
      /\ UNCHANGED <<next, first, last, size, cached, queue>>
  BY DEF EndBatch, listVars
<1>2. /\ local'[w] = failed[w] /\ numLocal'[w] = numFailed[w] /\ batch'[w] = retry[w]
      /\ failed'[w] = NULL /\ numFailed'[w] = 0 /\ retry'[w] = <<>>
      /\ worker'[w] = IF failed[w] = NULL THEN "idle" ELSE "retrying"
      /\ \A v \in Workers \ {w} :
           /\ batch'[v] = batch[v] /\ local'[v] = local[v] /\ numLocal'[v] = numLocal[v]
           /\ retry'[v] = retry[v] /\ failed'[v] = failed[v] /\ numFailed'[v] = numFailed[v]
           /\ worker'[v] = worker[v]
  BY <1>1 DEF TypeOK
<1>3. /\ \A v \in Workers : Worker(next, local[v], numLocal[v], batch[v],
                                   failed[v], numFailed[v], retry[v])
      /\ Chained(next, local[w], numLocal[w], batch[w])
      /\ Chained(next, failed[w], numFailed[w], retry[w])
  BY BatchesAre DEF Worker
<1>4. batch[w] = <<>>
  BY <1>1, <1>3, Tasks, NonEmpty DEF Chained
<1>5. ToSet(<<>>) = {} /\ IsInjective(<<>>)
  BY OfNone
<1>6. Held(w)' = Held(w) /\ \A v \in Workers \ {w} : Held(v)' = Held(v)
  BY <1>2, <1>4, <1>5 DEF Held
<1>7. ListIsQueue'
  BY <1>1, QueueStays
<1>8. BatchesAreLinked'
  <2>1. Worker(next, failed[w], numFailed[w], retry[w], NULL, 0, <<>>)
    BY <1>3 DEF Worker, Chained
  <2>2. ASSUME NEW v \in Workers
        PROVE  Worker(next', local'[v], numLocal'[v], batch'[v],
                      failed'[v], numFailed'[v], retry'[v])
    BY <1>1, <1>2, <1>3, <2>1
  <2>3. QED
    BY <2>2, BatchesAre
<1>9. Apart'
  <2>1. \A v \in Workers : Held(v)' = Held(v)
    BY <1>6
  <2>2. ASSUME NEW v \in Workers
        PROVE  /\ IsInjective(batch'[v]) /\ IsInjective(retry'[v])
               /\ ToSet(batch'[v]) \cap ToSet(retry'[v]) = {}
    <3>1. CASE v = w
      BY <1>2, <1>5, <3>1 DEF Apart
    <3>2. CASE v # w
      BY <1>2, <3>2 DEF Apart
    <3>3. QED
      BY <3>1, <3>2
  <2>3. QED
    BY <1>1, <2>1, <2>2 DEF Apart
<1>10. BatchesAreOver'
  <2>1. failed[w] = NULL => retry[w] = <<>>
    <3>1. CASE numFailed[w] > 0
      <4>1. retry[w] \in Seq(ReadyTasks) /\ numFailed[w] = Len(retry[w]) /\ failed[w] = retry[w][1]
        BY <1>3, <3>1, Tasks DEF Chained
      <4>2. failed[w] \in ReadyTasks
        BY <3>1, <4>1
      <4>3. QED
        BY <4>2, CodecManagerAssumption
    <3>2. CASE ~(numFailed[w] > 0)
      <4>1. retry[w] \in Seq(ReadyTasks) /\ numFailed[w] = Len(retry[w])
        BY <1>3, Tasks DEF Chained
      <4>2. QED
        BY <3>2, <4>1
    <3>3. QED
      BY <3>1, <3>2
  <2>2. ASSUME NEW v \in Workers
        PROVE  /\ worker'[v] \notin {"coding", "retrying", "exited"} => batch'[v] = <<>>
               /\ worker'[v] # "coding" => retry'[v] = <<>>
    BY <1>2, <2>1 DEF BatchesAreOver
  <2>3. QED
    BY <2>2 DEF BatchesAreOver
<1>11. BatchesFit'
  BY <1>1, <1>2, CodecManagerAssumption DEF BatchesFit, TypeOK
<1>12. QED
  BY <1>7, <1>8, <1>9, <1>10, <1>11

----------------------------------------------------------------------------
(* The other steps *)

(* Clearing the list leaves the chains of the workers as they are.         *)
LEMMA ClearLists ==
  ASSUME TypeOK, BatchesAreLinked, Apart, BatchesAreOver, BatchesFit, ClearTasks
  PROVE  ListIsQueue' /\ BatchesAreLinked' /\ Apart' /\ BatchesAreOver' /\ BatchesFit'
<1>1. /\ first' = NULL /\ last' = NULL /\ size' = 0 /\ cached' = <<>> /\ queue' = <<>>
      /\ UNCHANGED <<next, local, numLocal, failed, numFailed, batch, retry, worker>>
  BY DEF ClearTasks, localVars
<1>2. ListIsQueue'
  <2>1. Len(<<>>) = 0 /\ BatchSize \in Nat
    BY CodecManagerAssumption
  <2>2. QED
    BY <1>1, <2>1 DEF ListIsQueue, Linked
<1>3. BatchesAreLinked'
  BY <1>1, BatchesAre
<1>4. Apart'
  <2>1. ToSet(<<>>) = {} /\ IsInjective(<<>>)
    BY OfNone
  <2>2. QED
    BY <1>1, <2>1 DEF Apart, Held
<1>5. BatchesAreOver' /\ BatchesFit'
  BY <1>1 DEF BatchesAreOver, BatchesFit
<1>6. QED
  BY <1>2, <1>3, <1>4, <1>5

(* The places between which a worker moves with its chains as they are.    *)
Moves ==
  \A v \in Workers :
    \/ worker'[v] = worker[v]
    \/ /\ worker[v] # "coding"
       /\ worker[v] = "retrying" => worker'[v] \in {"coding", "exited"}
       /\ worker[v] # "exited"

(* A worker that moves without touching its batch keeps the rule on        *)
(* batches that are over.                                                  *)
LEMMA MoveLists ==
  ASSUME ListIsQueue, BatchesAreLinked, Apart, BatchesAreOver, BatchesFit,
         UNCHANGED <<next, first, last, size, cached, queue>>,
         UNCHANGED <<local, numLocal, failed, numFailed, batch, retry>>,
         Moves
  PROVE  ListIsQueue' /\ BatchesAreLinked' /\ Apart' /\ BatchesAreOver' /\ BatchesFit'
<1>1. ListIsQueue' /\ BatchesAreLinked' /\ Apart' /\ BatchesFit'
  BY KeepLists
<1>2. BatchesAreOver'
  BY DEF BatchesAreOver, Moves
<1>3. QED
  BY <1>1, <1>2

(* A notification moves at most a waiting worker.                          *)
LEMMA NotifyMoves ==
  ASSUME NEW f \in [Workers -> Places], NEW g \in NotifyOne(f)
  PROVE  /\ g \in [Workers -> Places]
         /\ \A v \in Workers : g[v] = f[v] \/ (f[v] = "waiting" /\ g[v] = "notified")
<1>1. g = f \/ \E w \in Workers : f[w] = "waiting" /\ g = [f EXCEPT ![w] = "notified"]
  BY DEF NotifyOne
<1>2. CASE g = f
  BY <1>2
<1>3. CASE \E w \in Workers : f[w] = "waiting" /\ g = [f EXCEPT ![w] = "notified"]
  <2>1. PICK w \in Workers : f[w] = "waiting" /\ g = [f EXCEPT ![w] = "notified"]
    BY <1>3
  <2>2. QED
    BY <2>1 DEF Places
<1>4. QED
  BY <1>1, <1>2, <1>3

(* The steps that touch neither the list nor a batch.                      *)
Others ==
  \/ \E w \in Workers : LoopTop(w) \/ WorkerExit(w) \/ SpuriousWake(w) \/ NotifierReturned(w)
  \/ \E r \in Receivers : ReceivePacket(r) \/ BeginSchedule(r) \/ ScheduleRound(r)
  \/ SetNotRunning \/ Destroy
  \/ UNCHANGED vars

(* They move at most a worker.                                             *)
LEMMA OthersMove ==
  ASSUME TypeOK, Others
  PROVE  /\ UNCHANGED <<next, first, last, size, cached, queue>>
         /\ UNCHANGED <<local, numLocal, failed, numFailed, batch, retry>>
         /\ Moves
<1>0. worker \in [Workers -> Places]
  BY DEF TypeOK
<1>1. CASE \E w \in Workers : LoopTop(w)
  BY <1>0, <1>1 DEF LoopTop, Moves, listVars, localVars
<1>2. CASE \E w \in Workers : WorkerExit(w)
  BY <1>0, <1>2 DEF WorkerExit, Moves, listVars, localVars
<1>3. CASE \E w \in Workers : SpuriousWake(w)
  BY <1>0, <1>3 DEF SpuriousWake, Moves, listVars, localVars
<1>4. CASE \E w \in Workers : NotifierReturned(w)
  BY <1>4 DEF NotifierReturned, Moves, listVars, localVars
<1>5. CASE \E r \in Receivers : ReceivePacket(r)
  BY <1>5 DEF ReceivePacket, Moves, listVars, localVars
<1>6. CASE \E r \in Receivers : BeginSchedule(r)
  BY <1>6 DEF BeginSchedule, Moves, listVars, localVars
<1>7. CASE \E r \in Receivers : ScheduleRound(r)
  <2>1. /\ UNCHANGED <<next, first, last, size, cached, queue>>
        /\ UNCHANGED <<local, numLocal, failed, numFailed, batch, retry>>
    BY <1>7 DEF ScheduleRound, listVars, localVars
  <2>2. \/ worker' = worker
        \/ worker' \in NotifyOne(worker)
        \/ \E v \in Workers : /\ worker[v] = "unborn"
                              /\ worker' \in NotifyOne([worker EXCEPT ![v] = "spawned"])
    BY <1>7 DEF ScheduleRound
  <2>3. CASE worker' = worker
    BY <2>1, <2>3 DEF Moves
  <2>4. CASE worker' \in NotifyOne(worker)
    <3>1. \A v \in Workers : worker'[v] = worker[v] \/ worker[v] = "waiting"
      BY <1>0, <2>4, NotifyMoves
    <3>2. QED
      BY <2>1, <3>1 DEF Moves
  <2>5. CASE \E v \in Workers : /\ worker[v] = "unborn"
                                /\ worker' \in NotifyOne([worker EXCEPT ![v] = "spawned"])
    <3>1. PICK v \in Workers : /\ worker[v] = "unborn"
                               /\ worker' \in NotifyOne([worker EXCEPT ![v] = "spawned"])
      BY <2>5
    <3>2. PICK f \in [Workers -> Places] : f = [worker EXCEPT ![v] = "spawned"]
      BY <1>0 DEF Places
    <3>3. \A u \in Workers : worker'[u] = f[u] \/ f[u] = "waiting"
      BY <3>1, <3>2, NotifyMoves
    <3>4. \A u \in Workers : f[u] = worker[u] \/ u = v
      BY <1>0, <3>2
    <3>5. f[v] = "spawned"
      BY <1>0, <3>2
    <3>6. \A u \in Workers : worker'[u] = worker[u] \/ worker[u] \in {"waiting", "unborn"}
      BY <3>1, <3>3, <3>4, <3>5
    <3>7. QED
      BY <2>1, <3>6 DEF Moves
  <2>6. QED
    BY <2>2, <2>3, <2>4, <2>5
<1>8. CASE SetNotRunning
  BY <1>8 DEF SetNotRunning, Moves, listVars, localVars
<1>9. CASE Destroy
  BY <1>0, <1>9 DEF Destroy, Moves, listVars, localVars
<1>10. CASE UNCHANGED vars
  BY <1>10 DEF vars, Moves, listVars, poolVars, localVars
<1>11. QED
  BY <1>1, <1>2, <1>3, <1>4, <1>5, <1>6, <1>7, <1>8, <1>9, <1>10 DEF Others

(* A worker that enters, or comes back from the wait, takes a batch or     *)
(* moves.                                                                  *)
LEMMA EnterMoves ==
  ASSUME TypeOK, NEW w \in Workers, WorkerEnter(w) \/ WorkerWake(w)
  PROVE  /\ worker[w] \in {"entering first", "entering", "notified"}
         /\ \/ first # NULL /\ TakeBatch(w)
            \/ /\ UNCHANGED <<next, first, last, size, cached, queue>>
               /\ UNCHANGED <<local, numLocal, failed, numFailed, batch, retry>>
               /\ Moves
<1>0. worker \in [Workers -> Places]
  BY DEF TypeOK
<1>1. CASE WorkerEnter(w)
  <2>1. worker[w] \in {"entering first", "entering"}
    BY <1>1 DEF WorkerEnter
  <2>2. \/ first # NULL /\ TakeBatch(w)
        \/ /\ UNCHANGED <<next, first, last, size, cached, queue>>
           /\ UNCHANGED <<local, numLocal, failed, numFailed, batch, retry>>
           /\ \E pl \in Places : worker' = [worker EXCEPT ![w] = pl]
    BY <1>1 DEF WorkerEnter, listVars, localVars, Places
  <2>3. QED
    BY <1>0, <2>1, <2>2 DEF Moves
<1>2. CASE WorkerWake(w)
  <2>1. worker[w] = "notified"
    BY <1>2 DEF WorkerWake
  <2>2. \/ first # NULL /\ TakeBatch(w)
        \/ /\ UNCHANGED <<next, first, last, size, cached, queue>>
           /\ UNCHANGED <<local, numLocal, failed, numFailed, batch, retry>>
           /\ \E pl \in Places : worker' = [worker EXCEPT ![w] = pl]
    BY <1>2 DEF WorkerWake, listVars, localVars, Places
  <2>3. QED
    BY <1>0, <2>1, <2>2 DEF Moves
<1>3. QED
  BY <1>1, <1>2

(* The steps of the manager.                                               *)
LEMMA NextSteps ==
  ASSUME [Next]_vars
  PROVE  \/ Others
         \/ \E r \in Receivers, t \in ReadyTasks : EnqueueTask(r, t)
         \/ \E w \in Workers : WorkerEnter(w) \/ WorkerWake(w)
         \/ \E w \in Workers : RunSucceeds(w)
         \/ \E w \in Workers : RunFails(w)
         \/ \E w \in Workers : EndBatch(w)
         \/ ClearTasks
BY DEF Next, ReceiverStep, WorkerStep, Others

(* Every step keeps the chains in order.                                   *)
LEMMA NextLists ==
  ASSUME IInv, [Next]_vars
  PROVE  ListIsQueue' /\ BatchesAreLinked' /\ Apart' /\ BatchesAreOver' /\ BatchesFit'
<1>0. /\ TypeOK /\ ListIsQueue /\ BatchesAreLinked /\ Apart /\ BatchesAreOver /\ BatchesFit
  BY DEF IInv
<1> DEFINE Kept == ListIsQueue' /\ BatchesAreLinked' /\ Apart' /\ BatchesAreOver' /\ BatchesFit'
<1>1. CASE Others
  <2>1. /\ UNCHANGED <<next, first, last, size, cached, queue>>
        /\ UNCHANGED <<local, numLocal, failed, numFailed, batch, retry>>
        /\ Moves
    BY <1>0, <1>1, OthersMove
  <2>2. QED
    BY <1>0, <2>1, MoveLists
<1>2. ASSUME NEW r \in Receivers, NEW t \in ReadyTasks, EnqueueTask(r, t) PROVE Kept
  <2>1. ListIsQueue' /\ BatchesAreLinked' /\ Apart'
    BY <1>0, <1>2, EnqueueLists
  <2>2. BatchesAreOver' /\ BatchesFit'
    BY <1>0, <1>2 DEF EnqueueTask, localVars, BatchesAreOver, BatchesFit
  <2>3. QED
    BY <2>1, <2>2
<1>3. ASSUME NEW w \in Workers, WorkerEnter(w) \/ WorkerWake(w) PROVE Kept
  <2>1. worker[w] \in {"entering first", "entering", "notified"}
    BY <1>0, <1>3, EnterMoves
  <2>2. CASE first # NULL /\ TakeBatch(w)
    <3>1. worker[w] \notin {"coding", "retrying", "exited"}
      BY <2>1
    <3>2. QED
      BY <1>0, <2>2, <3>1, TakeLists
  <2>3. CASE /\ UNCHANGED <<next, first, last, size, cached, queue>>
             /\ UNCHANGED <<local, numLocal, failed, numFailed, batch, retry>>
             /\ Moves
    BY <1>0, <2>3, MoveLists
  <2>4. QED
    BY <1>0, <1>3, <2>2, <2>3, EnterMoves
<1>4. ASSUME NEW w \in Workers, RunSucceeds(w) PROVE Kept
  BY <1>0, <1>4, SucceedLists
<1>5. ASSUME NEW w \in Workers, RunFails(w) PROVE Kept
  BY <1>0, <1>5, FailLists
<1>6. ASSUME NEW w \in Workers, EndBatch(w) PROVE Kept
  BY <1>0, <1>6, EndLists
<1>7. CASE ClearTasks
  BY <1>0, <1>7, ClearLists
<1>8. QED
  BY <1>1, <1>2, <1>3, <1>4, <1>5, <1>6, <1>7, NextSteps
----------------------------------------------------------------------------
(* The counters *)

(* The number of workers of a set with one more, or with one less.         *)
LEMMA CountOne ==
  ASSUME NEW A \in SUBSET Workers, NEW w \in Workers
  PROVE  /\ Cardinality(A) \in Nat
         /\ w \notin A => Cardinality(A \cup {w}) = Cardinality(A) + 1
         /\ w \in A => Cardinality(A) >= 1 /\ Cardinality(A \ {w}) = Cardinality(A) - 1
<1>1. IsFiniteSet(A)
  BY CodecManagerAssumption, FS_Subset
<1>2. Cardinality(A) \in Nat
  BY <1>1, FS_CardinalityType
<1>3. w \notin A => Cardinality(A \cup {w}) = Cardinality(A) + 1
  BY <1>1, FS_AddElement
<1>4. w \in A => Cardinality(A \ {w}) = Cardinality(A) - 1
  BY <1>1, FS_RemoveElement
<1>5. w \in A => Cardinality(A) # 0
  BY <1>1, FS_EmptySet
<1>6. QED
  BY <1>2, <1>3, <1>4, <1>5

(* The sets that are counted, when one worker moves.                       *)
LEMMA MoveCounted ==
  ASSUME NEW w \in Workers, NEW pl, worker \in [Workers -> Places],
         worker' = [worker EXCEPT ![w] = pl]
  PROVE  /\ pl \in {"spawned", "entering first"} => Outside' = Outside \cup {w}
         /\ pl \notin {"spawned", "entering first"} => Outside' = Outside \ {w}
         /\ pl \in {"waiting", "notified"} => InWait' = InWait \cup {w}
         /\ pl \notin {"waiting", "notified"} => InWait' = InWait \ {w}
         /\ pl # "unborn" => Born' = Born \cup {w}
<1>1. \A v \in Workers : worker'[v] = IF v = w THEN pl ELSE worker[v]
  OBVIOUS
<1>2. QED
  BY <1>1 DEF Outside, InWait, Born

(* Steps that move no worker between the sets, and leave the counters.     *)
LEMMA SameCounted ==
  ASSUME Counted, UNCHANGED poolVars, running' => running,
         Outside' = Outside, InWait' = InWait, Born' = Born
  PROVE  Counted'
BY DEF Counted, poolVars

(* What is counted is a set of workers.                                    *)
LEMMA CountedSets ==
  /\ Outside \in SUBSET Workers /\ InWait \in SUBSET Workers /\ Born \in SUBSET Workers
  /\ \A w \in Workers : /\ w \in Outside <=> worker[w] \in {"spawned", "entering first"}
                        /\ w \in InWait <=> worker[w] \in {"waiting", "notified"}
                        /\ w \in Born <=> worker[w] # "unborn"
BY DEF Outside, InWait, Born

(* A notification keeps what is counted.                                   *)
LEMMA NotifyCounted ==
  ASSUME worker \in [Workers -> Places], worker' \in NotifyOne(worker)
  PROVE  Outside' = Outside /\ InWait' = InWait /\ Born' = Born
<1>1. \A v \in Workers : \/ worker'[v] = worker[v]
                         \/ (worker[v] = "waiting" /\ worker'[v] = "notified")
  BY NotifyMoves
<1>2. QED
  BY <1>1 DEF Outside, InWait, Born

(* A worker that is spawned is outside, and born.                          *)
LEMMA SpawnCounted ==
  ASSUME worker \in [Workers -> Places], NEW w \in Workers, worker[w] = "unborn",
         worker' \in NotifyOne([worker EXCEPT ![w] = "spawned"])
  PROVE  /\ Outside' = Outside \cup {w} /\ w \notin Outside
         /\ Born' = Born \cup {w} /\ w \notin Born
         /\ InWait' = InWait
<1>1. PICK f \in [Workers -> Places] : f = [worker EXCEPT ![w] = "spawned"]
  BY DEF Places
<1>2. worker' \in NotifyOne(f)
  BY <1>1
<1>3. \A v \in Workers : \/ worker'[v] = f[v]
                         \/ f[v] = "waiting" /\ worker'[v] = "notified"
  BY <1>2, NotifyMoves
<1>4. \A v \in Workers : f[v] = IF v = w THEN "spawned" ELSE worker[v]
  BY <1>1
<1>5. \A v \in Workers : \/ v = w /\ worker'[v] = "spawned"
                         \/ v # w /\ worker'[v] = worker[v]
                         \/ v # w /\ worker[v] = "waiting" /\ worker'[v] = "notified"
  BY <1>3, <1>4
<1>6. QED
  BY <1>5 DEF Outside, InWait, Born

(* A worker enters: it is counted as inside, and as waiting if it waits.   *)
LEMMA EnterCounted ==
  ASSUME TypeOK, Counted, NEW w \in Workers, WorkerEnter(w)
  PROVE  Counted' /\ uninit' \in Nat /\ waiting' \in Nat
<1>1. /\ worker \in [Workers -> Places] /\ uninit \in Nat /\ waiting \in Nat
      /\ running' = running /\ numWorkers' = numWorkers
  BY DEF TypeOK, WorkerEnter
<1>2. worker[w] \in {"entering first", "entering"}
  BY DEF WorkerEnter
<1>3. PICK pl : /\ worker' = [worker EXCEPT ![w] = pl]
                /\ \/ pl = "waiting" /\ waiting' = waiting + 1
                   \/ pl \in {"idle", "coding"} /\ waiting' = waiting
  BY DEF WorkerEnter, TakeBatch
<1>4. Outside' = Outside \ {w} /\ Born' = Born \cup {w}
  BY <1>1, <1>3, MoveCounted
<1>5. Born' = Born
  BY <1>2, <1>4, CountedSets
<1>6. /\ Cardinality(Outside) \in Nat /\ Cardinality(InWait) \in Nat
      /\ worker[w] = "entering first" =>
           Cardinality(Outside) >= 1 /\ Cardinality(Outside \ {w}) = Cardinality(Outside) - 1
      /\ worker[w] = "entering" => Outside \ {w} = Outside
  BY <1>2, CountedSets, CountOne
<1>7. uninit' = IF worker[w] = "entering first" THEN uninit - 1 ELSE uninit
  BY DEF WorkerEnter
<1>8. /\ uninit' \in Nat /\ uninit' >= Cardinality(Outside')
      /\ running' => uninit' = Cardinality(Outside')
  <2>1. uninit >= Cardinality(Outside) /\ (running => uninit = Cardinality(Outside))
    BY DEF Counted
  <2>2. CASE worker[w] = "entering first"
    <3>1. PICK c : c = Cardinality(Outside)
      OBVIOUS
    <3>2. c \in Nat /\ c >= 1 /\ Cardinality(Outside \ {w}) = c - 1
      BY <1>6, <2>2, <3>1
    <3>3. uninit \in Nat /\ uninit >= c /\ (running => uninit = c)
      BY <1>1, <2>1, <3>1
    <3>4. uninit' = uninit - 1 /\ running' = running
      BY <1>1, <1>7, <2>2
    <3>5. uninit' \in Nat /\ uninit' >= c - 1 /\ (running' => uninit' = c - 1)
      BY <3>2, <3>3, <3>4
    <3>6. Cardinality(Outside') = c - 1
      BY <1>4, <3>2
    <3>7. QED
      BY <3>5, <3>6
  <2>3. CASE worker[w] = "entering"
    <3>1. uninit' = uninit /\ Cardinality(Outside') = Cardinality(Outside)
      BY <1>4, <1>6, <1>7, <2>3
    <3>2. QED
      BY <1>1, <1>6, <2>1, <3>1
  <2>4. QED
    BY <1>2, <2>2, <2>3
<1>9. waiting' \in Nat /\ waiting' = Cardinality(InWait')
  <2>1. w \notin InWait
    BY <1>2, CountedSets
  <2>2. CASE pl = "waiting" /\ waiting' = waiting + 1
    <3>1. InWait' = InWait \cup {w}
      BY <1>1, <1>3, <2>2, MoveCounted
    <3>2. Cardinality(InWait \cup {w}) = Cardinality(InWait) + 1
      BY <2>1, CountedSets, CountOne
    <3>3. QED
      BY <1>1, <2>2, <3>1, <3>2 DEF Counted
  <2>3. CASE pl \in {"idle", "coding"} /\ waiting' = waiting
    <3>1. InWait' = InWait \ {w}
      BY <1>1, <1>3, <2>3, MoveCounted
    <3>2. QED
      BY <1>1, <2>1, <2>3, <3>1 DEF Counted
  <2>4. QED
    BY <1>3, <2>2, <2>3
<1>10. QED
  BY <1>1, <1>5, <1>8, <1>9 DEF Counted

(* A worker comes back from the wait: it is not counted as waiting any     *)
(* more, unless it goes back to wait.                                      *)
LEMMA WakeCounted ==
  ASSUME TypeOK, Counted, NEW w \in Workers, WorkerWake(w)
  PROVE  Counted' /\ waiting' \in Nat
<1>1. /\ worker \in [Workers -> Places] /\ waiting \in Nat
      /\ running' = running /\ numWorkers' = numWorkers /\ uninit' = uninit
  BY DEF TypeOK, WorkerWake
<1>2. worker[w] = "notified"
  BY DEF WorkerWake
<1>3. PICK pl : /\ worker' = [worker EXCEPT ![w] = pl]
                /\ \/ pl = "waiting" /\ waiting' = waiting
                   \/ pl \in {"idle", "coding"} /\ waiting' = waiting - 1
  BY DEF WorkerWake, TakeBatch
<1>4. Outside' = Outside \ {w} /\ Born' = Born \cup {w}
  BY <1>1, <1>3, MoveCounted
<1>5. Born' = Born /\ Outside' = Outside
  BY <1>2, <1>4, CountedSets
<1>6. waiting' \in Nat /\ waiting' = Cardinality(InWait')
  <2>1. w \in InWait
    BY <1>2, CountedSets
  <2>2. CASE pl = "waiting" /\ waiting' = waiting
    <3>1. InWait' = InWait \cup {w}
      BY <1>1, <1>3, <2>2, MoveCounted
    <3>2. QED
      BY <1>1, <2>1, <2>2, <3>1 DEF Counted
  <2>3. CASE pl \in {"idle", "coding"} /\ waiting' = waiting - 1
    <3>1. InWait' = InWait \ {w}
      BY <1>1, <1>3, <2>3, MoveCounted
    <3>2. /\ Cardinality(InWait) \in Nat /\ Cardinality(InWait) >= 1
          /\ Cardinality(InWait \ {w}) = Cardinality(InWait) - 1
      BY <2>1, CountedSets, CountOne
    <3>3. QED
      BY <1>1, <2>3, <3>1, <3>2 DEF Counted
  <2>4. QED
    BY <1>3, <2>2, <2>3
<1>7. QED
  BY <1>1, <1>5, <1>6 DEF Counted

(* Scheduling counts the worker it spawns.                                 *)
LEMMA ScheduleCounted ==
  ASSUME TypeOK, Counted, NEW r \in Receivers, ScheduleRound(r)
  PROVE  Counted'
<1>1. worker \in [Workers -> Places] /\ uninit \in Nat /\ numWorkers \in Nat
  BY DEF TypeOK
<1>2. running' = running
  BY DEF ScheduleRound
<1>3. CASE running /\ ScheduleCondition /\ CanSpawn
  <2>1. /\ uninit' = uninit + 1 /\ numWorkers' = numWorkers + 1 /\ waiting' = waiting
        /\ \E v \in Workers : /\ worker[v] = "unborn"
                              /\ worker' \in NotifyOne([worker EXCEPT ![v] = "spawned"])
    BY <1>3 DEF ScheduleRound
  <2>2. PICK w \in Workers : /\ worker[w] = "unborn"
                             /\ worker' \in NotifyOne([worker EXCEPT ![w] = "spawned"])
    BY <2>1
  <2>3. /\ Outside' = Outside \cup {w} /\ w \notin Outside
        /\ Born' = Born \cup {w} /\ w \notin Born /\ InWait' = InWait
    BY <1>1, <2>2, SpawnCounted
  <2>4. /\ Cardinality(Outside) \in Nat /\ Cardinality(Born) \in Nat
        /\ Cardinality(Outside \cup {w}) = Cardinality(Outside) + 1
        /\ Cardinality(Born \cup {w}) = Cardinality(Born) + 1
    BY <2>3, CountedSets, CountOne
  <2>5. QED
    BY <1>1, <1>2, <2>1, <2>3, <2>4 DEF Counted
<1>4. CASE running /\ ScheduleCondition /\ ~CanSpawn
  <2>1. UNCHANGED poolVars /\ worker' \in NotifyOne(worker)
    BY <1>4 DEF ScheduleRound
  <2>2. Outside' = Outside /\ InWait' = InWait /\ Born' = Born
    BY <1>1, <2>1, NotifyCounted
  <2>3. QED
    BY <1>2, <2>1, <2>2, SameCounted
<1>5. CASE ~(running /\ ScheduleCondition)
  <2>1. UNCHANGED poolVars /\ worker' = worker
    BY <1>5 DEF ScheduleRound
  <2>2. Outside' = Outside /\ InWait' = InWait /\ Born' = Born
    BY <2>1 DEF Outside, InWait, Born
  <2>3. QED
    BY <1>2, <2>1, <2>2, SameCounted
<1>6. QED
  BY <1>3, <1>4, <1>5

(* A worker that exits before it had the lock is not outside any more, and *)
(* is still counted so: the system is not running.                         *)
LEMMA ExitCounted ==
  ASSUME TypeOK, Counted, NEW w \in Workers, WorkerExit(w)
  PROVE  Counted'
<1>1. /\ worker \in [Workers -> Places] /\ uninit \in Nat
      /\ worker' = [worker EXCEPT ![w] = "exited"]
      /\ worker[w] \in {"spawned", "idle", "retrying"}
      /\ UNCHANGED <<uninit, waiting, numWorkers, running>> /\ ~running
  BY DEF TypeOK, WorkerExit, poolVars
<1>2. /\ Outside' = Outside \ {w} /\ InWait' = InWait \ {w} /\ Born' = Born \cup {w}
  <2>1. worker \in [Workers -> Places] /\ worker' = [worker EXCEPT ![w] = "exited"]
    BY <1>1
  <2>2. /\ "exited" \notin {"spawned", "entering first"} /\ "exited" # "unborn"
        /\ "exited" \notin {"waiting", "notified"}
    OBVIOUS
  <2>3. QED
    BY <2>1, <2>2, MoveCounted
<1>3. InWait' = InWait /\ Born' = Born
  BY <1>1, <1>2, CountedSets
<1>4. /\ Cardinality(Outside) \in Nat
      /\ \/ Outside \ {w} = Outside
         \/ Cardinality(Outside \ {w}) = Cardinality(Outside) - 1
  BY CountedSets, CountOne
<1>5. Cardinality(Outside \ {w}) <= Cardinality(Outside)
  BY <1>4
<1>6. Cardinality(Outside \ {w}) \in Nat
  <2>1. Outside \ {w} \in SUBSET Workers
    BY CountedSets
  <2>2. QED
    BY <2>1, CountOne
<1>7. uninit' >= Cardinality(Outside')
  <2>1. uninit >= Cardinality(Outside) /\ uninit' = uninit
    BY <1>1 DEF Counted
  <2>2. QED
    BY <1>1, <1>2, <1>4, <1>5, <1>6, <2>1
<1>8. waiting' = Cardinality(InWait') /\ numWorkers' = Cardinality(Born')
  BY <1>1, <1>3 DEF Counted
<1>9. QED
  BY <1>1, <1>7, <1>8 DEF Counted

(* Every step keeps the counters right.                                    *)
LEMMA NextCounted ==
  ASSUME IInv, [Next]_vars
  PROVE  Counted'
<1>0. TypeOK /\ Counted /\ worker \in [Workers -> Places]
  BY DEF IInv, TypeOK
<1>1. ASSUME UNCHANGED poolVars, UNCHANGED worker, running' => running PROVE Counted'
  <2>1. Outside' = Outside /\ InWait' = InWait /\ Born' = Born
    BY <1>1 DEF Outside, InWait, Born
  <2>2. QED
    BY <1>0, <1>1, <2>1, SameCounted
<1>2. ASSUME NEW w \in Workers, NEW pl, worker' = [worker EXCEPT ![w] = pl],
             UNCHANGED poolVars, UNCHANGED running,
             worker[w] # "unborn", pl # "unborn",
             worker[w] \in {"spawned", "entering first"} <=> pl \in {"spawned", "entering first"},
             worker[w] \in {"waiting", "notified"} <=> pl \in {"waiting", "notified"}
      PROVE  Counted'
  <2>1. Outside' = Outside /\ InWait' = InWait /\ Born' = Born
    BY <1>0, <1>2, MoveCounted, CountedSets
  <2>2. QED
    BY <1>0, <1>2, <2>1, SameCounted
<1>3. ASSUME NEW w \in Workers, LoopTop(w) PROVE Counted'
  BY <1>2, <1>3 DEF LoopTop
<1>4. ASSUME NEW w \in Workers, SpuriousWake(w) PROVE Counted'
  BY <1>2, <1>4 DEF SpuriousWake
<1>5. ASSUME NEW w \in Workers, EndBatch(w) PROVE Counted'
  BY <1>2, <1>5 DEF EndBatch
<1>6. ASSUME NEW w \in Workers, RunSucceeds(w) \/ RunFails(w) \/ NotifierReturned(w) PROVE Counted'
  BY <1>1, <1>6 DEF RunSucceeds, RunFails, NotifierReturned
<1>7. ASSUME NEW r \in Receivers,
             \/ ReceivePacket(r) \/ BeginSchedule(r)
             \/ \E t \in ReadyTasks : EnqueueTask(r, t)
      PROVE Counted'
  BY <1>1, <1>7 DEF ReceivePacket, BeginSchedule, EnqueueTask
<1>8. CASE SetNotRunning \/ ClearTasks
  BY <1>1, <1>8 DEF SetNotRunning, ClearTasks
<1>9. CASE Destroy
  <2>1. worker' = [w \in Workers |-> IF worker[w] = "waiting" THEN "notified" ELSE worker[w]]
    BY <1>9 DEF Destroy
  <2>2. Outside' = Outside /\ InWait' = InWait /\ Born' = Born
    BY <1>0, <2>1 DEF Outside, InWait, Born
  <2>3. UNCHANGED poolVars /\ running' = running
    BY <1>9 DEF Destroy
  <2>4. QED
    BY <1>0, <2>2, <2>3, SameCounted
<1>10. CASE UNCHANGED vars
  BY <1>1, <1>10 DEF vars
<1>11. QED
  BY <1>0, <1>3, <1>4, <1>5, <1>6, <1>7, <1>8, <1>9, <1>10,
     EnterCounted, WakeCounted, ScheduleCounted, ExitCounted
  DEF Next, ReceiverStep, WorkerStep
----------------------------------------------------------------------------
(* Types, and the inductive invariant *)

(* The types of what a batch is taken from.                                *)
LEMMA TakeTypes ==
  ASSUME TypeOK, ListIsQueue, NEW w \in Workers, TakeBatch(w), first # NULL
  PROVE  /\ first' \in Pointer /\ last' \in Pointer /\ size' \in Nat
         /\ cached' \in Seq(ReadyTasks) /\ queue' \in Seq(ReadyTasks)
         /\ local' \in [Workers -> Pointer] /\ numLocal' \in [Workers -> 0 .. BatchSize]
         /\ batch' \in [Workers -> Seq(ReadyTasks)]
<1>0. BatchSize \in Nat /\ BatchSize > 0
  BY CodecManagerAssumption
<1>1. PICK n \in 1 .. BatchSize :
        /\ n <= Len(queue)
        /\ batch' = [batch EXCEPT ![w] = SubSeq(queue, 1, n)]
        /\ queue' = SubSeq(queue, n + 1, Len(queue))
        /\ local' = [local EXCEPT ![w] = first]
        /\ numLocal' = [numLocal EXCEPT ![w] = n]
        /\ List(next, first', last', size', cached', queue')
  BY TakeSplits
<1>2. /\ queue \in Seq(ReadyTasks) /\ cached \in Seq(ReadyTasks) /\ size \in Nat
      /\ first \in Pointer /\ last \in Pointer /\ Len(queue) \in Nat
      /\ local \in [Workers -> Pointer] /\ numLocal \in [Workers -> 0 .. BatchSize]
      /\ batch \in [Workers -> Seq(ReadyTasks)]
  BY DEF TypeOK
<1>3. n \in 0 .. Len(queue)
  BY <1>0, <1>1, <1>2
<1>4. PICK a, b : a = SubSeq(queue, 1, n) /\ b = SubSeq(queue, n + 1, Len(queue))
  OBVIOUS
<1>5. a \in Seq(ReadyTasks) /\ b \in Seq(ReadyTasks)
  BY <1>2, <1>3, <1>4, OfSplit
<1>6. queue' \in Seq(ReadyTasks) /\ batch' \in [Workers -> Seq(ReadyTasks)]
  BY <1>1, <1>2, <1>4, <1>5
<1>7. local' \in [Workers -> Pointer] /\ numLocal' \in [Workers -> 0 .. BatchSize]
  <2>1. n \in 0 .. BatchSize
    BY <1>0
  <2>2. QED
    BY <1>1, <1>2, <2>1
<1>8. size' \in Nat
  <2>1. size' = Len(queue')
    BY <1>1 DEF List, Chained
  <2>2. QED
    BY <1>6, <2>1
<1>9. first' \in Pointer /\ last' \in Pointer /\ cached' \in Seq(ReadyTasks)
  <2>1. CASE size > BatchSize
    <3>1. size = Len(queue) /\ Recorded(cached, size, queue)
      BY ListIs DEF List, Chained
    <3>2. PICK r \in Seq(ReadyTasks) : \A i \in 1 .. size - BatchSize : r[i] = queue[BatchSize + i]
      <4>1. [i \in 1 .. size - BatchSize |-> queue[BatchSize + i]] \in Seq(ReadyTasks)
        BY <1>0, <1>2, <2>1, <3>1
      <4>2. QED
        BY <4>1
    <3>3. cached # <<>>
      BY <1>2, <2>1, <3>1, <3>2, RecordCut
    <3>4. Head(cached) \in ReadyTasks /\ Tail(cached) \in Seq(ReadyTasks)
      BY <1>2, <3>3, TailType
    <3>5. first' = Head(cached) /\ cached' = Tail(cached) /\ last' = last
      BY <2>1 DEF TakeBatch
    <3>6. QED
      BY <1>2, <3>4, <3>5 DEF Pointer
  <2>2. CASE ~(size > BatchSize)
    <3>1. first' = NULL /\ last' = NULL /\ cached' = cached
      BY <2>2 DEF TakeBatch
    <3>2. QED
      BY <1>2, <3>1 DEF Pointer
  <2>3. QED
    BY <2>1, <2>2
<1>10. QED
  BY <1>6, <1>7, <1>8, <1>9

(* The threads are where they can be.                                      *)
LEMMA PlacesType ==
  ASSUME TypeOK, [Next]_vars
  PROVE  /\ receiver' \in [Receivers -> {"polling", "feeding", "scheduling"}]
         /\ worker' \in [Workers -> Places]
         /\ running' \in BOOLEAN /\ stop' \in BOOLEAN /\ destroyed' \in BOOLEAN
         /\ notifiers' \in [Workers -> 0 .. NotifierSize]
<1>0. /\ receiver \in [Receivers -> {"polling", "feeding", "scheduling"}]
      /\ worker \in [Workers -> Places]
      /\ running \in BOOLEAN /\ stop \in BOOLEAN /\ destroyed \in BOOLEAN
      /\ notifiers \in [Workers -> 0 .. NotifierSize]
  BY DEF TypeOK
<1>1. receiver' \in [Receivers -> {"polling", "feeding", "scheduling"}]
  <2>1. \/ receiver' = receiver
        \/ \E r \in Receivers, pl \in {"polling", "feeding", "scheduling"} :
             receiver' = [receiver EXCEPT ![r] = pl]
    BY DEF Next, ReceiverStep, WorkerStep, ReceivePacket, EnqueueTask, BeginSchedule,
           ScheduleRound, LoopTop, WorkerEnter, WorkerWake, SpuriousWake, RunSucceeds, RunFails,
           EndBatch, WorkerExit, NotifierReturned, SetNotRunning, Destroy, ClearTasks, vars
  <2>2. QED
    BY <1>0, <2>1
<1>2. worker' \in [Workers -> Places]
  <2>1. ASSUME NEW r \in Receivers, ScheduleRound(r) PROVE worker' \in [Workers -> Places]
    <3>1. \/ worker' = worker
          \/ worker' \in NotifyOne(worker)
          \/ \E v \in Workers : worker' \in NotifyOne([worker EXCEPT ![v] = "spawned"])
      BY <2>1 DEF ScheduleRound
    <3>2. CASE worker' \in NotifyOne(worker)
      BY <1>0, <3>2, NotifyMoves
    <3>3. CASE \E v \in Workers : worker' \in NotifyOne([worker EXCEPT ![v] = "spawned"])
      <4>1. PICK v \in Workers : worker' \in NotifyOne([worker EXCEPT ![v] = "spawned"])
        BY <3>3
      <4>2. [worker EXCEPT ![v] = "spawned"] \in [Workers -> Places]
        BY <1>0 DEF Places
      <4>3. QED
        BY <4>1, <4>2, NotifyMoves
    <3>4. QED
      BY <1>0, <3>1, <3>2, <3>3
  <2>2. CASE Destroy
    BY <1>0, <2>2 DEF Destroy, Places
  <2>3. CASE \/ worker' = worker
             \/ \E w \in Workers, pl \in Places : worker' = [worker EXCEPT ![w] = pl]
    BY <1>0, <2>3
  <2>4. \/ \E r \in Receivers : ScheduleRound(r)
        \/ Destroy
        \/ worker' = worker
        \/ \E w \in Workers, pl \in Places : worker' = [worker EXCEPT ![w] = pl]
    <3>1. ASSUME NEW w \in Workers, WorkerStep(w) \/ SpuriousWake(w) \/ NotifierReturned(w)
          PROVE  \/ worker' = worker
                 \/ \E pl \in Places : worker' = [worker EXCEPT ![w] = pl]
      BY <3>1 DEF WorkerStep, LoopTop, WorkerEnter, WorkerWake, TakeBatch, SpuriousWake,
                  RunSucceeds, RunFails, EndBatch, WorkerExit, NotifierReturned, Places
    <3>2. ASSUME NEW r \in Receivers,
                 \/ ReceivePacket(r) \/ BeginSchedule(r)
                 \/ \E t \in ReadyTasks : EnqueueTask(r, t)
          PROVE worker' = worker
      BY <3>2 DEF ReceivePacket, BeginSchedule, EnqueueTask
    <3>3. CASE SetNotRunning \/ ClearTasks \/ UNCHANGED vars
      BY <3>3 DEF SetNotRunning, ClearTasks, vars
    <3>4. QED
      BY <3>1, <3>2, <3>3 DEF Next, ReceiverStep
  <2>5. QED
    BY <2>1, <2>2, <2>3, <2>4
<1>3. running' \in BOOLEAN /\ stop' \in BOOLEAN /\ destroyed' \in BOOLEAN
  BY <1>0 DEF Next, ReceiverStep, WorkerStep, ReceivePacket, EnqueueTask, BeginSchedule,
         ScheduleRound, LoopTop, WorkerEnter, WorkerWake, SpuriousWake, RunSucceeds, RunFails,
         EndBatch, WorkerExit, NotifierReturned, SetNotRunning, Destroy, ClearTasks, vars
<1>4. notifiers' \in [Workers -> 0 .. NotifierSize]
  <2>0. NotifierSize \in Nat
    BY CodecManagerAssumption
  <2>1. \/ notifiers' = notifiers
        \/ \E w \in Workers : \/ /\ notifiers[w] < NotifierSize
                                 /\ notifiers' = [notifiers EXCEPT ![w] = notifiers[w] + 1]
                              \/ /\ notifiers[w] > 0
                                 /\ notifiers' = [notifiers EXCEPT ![w] = notifiers[w] - 1]
                              \/ notifiers' = [notifiers EXCEPT ![w] = 0]
    BY DEF Next, ReceiverStep, WorkerStep, ReceivePacket, EnqueueTask, BeginSchedule,
           ScheduleRound, LoopTop, WorkerEnter, WorkerWake, SpuriousWake, RunSucceeds, RunFails,
           EndBatch, WorkerExit, NotifierReturned, SetNotRunning, Destroy, ClearTasks, vars
  <2>2. CASE notifiers' = notifiers
    BY <1>0, <2>2
  <2>3. CASE \E w \in Workers : /\ notifiers[w] < NotifierSize
                                /\ notifiers' = [notifiers EXCEPT ![w] = notifiers[w] + 1]
    BY <1>0, <2>0, <2>3
  <2>4. CASE \E w \in Workers : /\ notifiers[w] > 0
                                /\ notifiers' = [notifiers EXCEPT ![w] = notifiers[w] - 1]
    BY <1>0, <2>0, <2>4
  <2>5. CASE \E w \in Workers : notifiers' = [notifiers EXCEPT ![w] = 0]
    BY <1>0, <2>0, <2>5
  <2>6. QED
    BY <2>1, <2>2, <2>3, <2>4, <2>5
<1>5. QED
  BY <1>1, <1>2, <1>3, <1>4

(* The counters are numbers.                                               *)
LEMMA CountersType ==
  ASSUME IInv, [Next]_vars
  PROVE  uninit' \in Nat /\ waiting' \in Nat /\ numWorkers' \in Nat
<1>0. TypeOK /\ Counted /\ uninit \in Nat /\ waiting \in Nat /\ numWorkers \in Nat
  BY DEF IInv, TypeOK
<1>1. ASSUME NEW w \in Workers, WorkerEnter(w)
      PROVE  uninit' \in Nat /\ waiting' \in Nat /\ numWorkers' \in Nat
  BY <1>0, <1>1, EnterCounted DEF WorkerEnter
<1>2. ASSUME NEW w \in Workers, WorkerWake(w)
      PROVE  uninit' \in Nat /\ waiting' \in Nat /\ numWorkers' \in Nat
  BY <1>0, <1>2, WakeCounted DEF WorkerWake
<1>3. ASSUME NEW r \in Receivers, ScheduleRound(r)
      PROVE  uninit' \in Nat /\ waiting' \in Nat /\ numWorkers' \in Nat
  BY <1>0, <1>3 DEF ScheduleRound, poolVars
<1>4. \/ \E w \in Workers : WorkerEnter(w) \/ WorkerWake(w)
      \/ \E r \in Receivers : ScheduleRound(r)
      \/ UNCHANGED poolVars
  BY DEF Next, ReceiverStep, WorkerStep, ReceivePacket, EnqueueTask, BeginSchedule,
         LoopTop, SpuriousWake, RunSucceeds, RunFails,
         EndBatch, WorkerExit, NotifierReturned, SetNotRunning, Destroy, ClearTasks, vars
<1>5. QED
  BY <1>0, <1>1, <1>2, <1>3, <1>4 DEF poolVars

(* The links and pointers of the list are tasks or NULL.                   *)
LEMMA ListType ==
  ASSUME IInv, [Next]_vars
  PROVE  /\ next' \in [ReadyTasks -> Pointer]
         /\ first' \in Pointer /\ last' \in Pointer /\ size' \in Nat
         /\ cached' \in Seq(ReadyTasks) /\ queue' \in Seq(ReadyTasks)
         /\ local' \in [Workers -> Pointer] /\ failed' \in [Workers -> Pointer]
         /\ numLocal' \in [Workers -> 0 .. BatchSize]
         /\ numFailed' \in [Workers -> 0 .. BatchSize]
         /\ batch' \in [Workers -> Seq(ReadyTasks)] /\ retry' \in [Workers -> Seq(ReadyTasks)]
<1> DEFINE Goal ==
         /\ next' \in [ReadyTasks -> Pointer]
         /\ first' \in Pointer /\ last' \in Pointer /\ size' \in Nat
         /\ cached' \in Seq(ReadyTasks) /\ queue' \in Seq(ReadyTasks)
         /\ local' \in [Workers -> Pointer] /\ failed' \in [Workers -> Pointer]
         /\ numLocal' \in [Workers -> 0 .. BatchSize]
         /\ numFailed' \in [Workers -> 0 .. BatchSize]
         /\ batch' \in [Workers -> Seq(ReadyTasks)] /\ retry' \in [Workers -> Seq(ReadyTasks)]
<1>0. /\ TypeOK /\ ListIsQueue /\ BatchesAreLinked /\ Apart /\ BatchesAreOver /\ BatchesFit
      /\ BatchSize \in Nat
  BY CodecManagerAssumption DEF IInv
<1>1. /\ next \in [ReadyTasks -> Pointer]
      /\ first \in Pointer /\ last \in Pointer /\ size \in Nat
      /\ cached \in Seq(ReadyTasks) /\ queue \in Seq(ReadyTasks)
      /\ local \in [Workers -> Pointer] /\ failed \in [Workers -> Pointer]
      /\ numLocal \in [Workers -> 0 .. BatchSize]
      /\ numFailed \in [Workers -> 0 .. BatchSize]
      /\ batch \in [Workers -> Seq(ReadyTasks)] /\ retry \in [Workers -> Seq(ReadyTasks)]
      /\ NULL \in Pointer
  BY <1>0 DEF TypeOK, Pointer
<1>2. ASSUME UNCHANGED <<next, first, last, size, cached, queue>>,
             UNCHANGED <<local, numLocal, failed, numFailed, batch, retry>>
      PROVE  Goal
  BY <1>1, <1>2
<1>3. CASE Others
  <2>1. /\ UNCHANGED <<next, first, last, size, cached, queue>>
        /\ UNCHANGED <<local, numLocal, failed, numFailed, batch, retry>>
    BY <1>0, <1>3, OthersMove
  <2>2. QED
    BY <1>2, <2>1
<1>4. ASSUME NEW r \in Receivers, NEW t \in ReadyTasks, EnqueueTask(r, t) PROVE Goal
  <2>1. UNCHANGED <<local, numLocal, failed, numFailed, batch, retry>>
    BY <1>4 DEF EnqueueTask, localVars
  <2>2. t \in Pointer /\ (last = NULL \/ last \in ReadyTasks)
    BY <1>1 DEF Pointer
  <2>3. first' \in {first, t} /\ last' = t /\ size' = size + 1
    BY <1>4 DEF EnqueueTask
  <2>4. next' \in [ReadyTasks -> Pointer]
    BY <1>1, <1>4, <2>2 DEF EnqueueTask
  <2>5. queue' = Append(queue, t) /\ cached' \in {cached, Append(cached, t)}
    BY <1>4 DEF EnqueueTask
  <2>6. queue' \in Seq(ReadyTasks) /\ cached' \in Seq(ReadyTasks)
    <3>1. Append(queue, t) \in Seq(ReadyTasks) /\ Append(cached, t) \in Seq(ReadyTasks)
      BY <1>1, AppendProperties
    <3>2. QED
      BY <1>1, <2>5, <3>1, Zenon
  <2>7. QED
    BY <1>1, <2>1, <2>2, <2>3, <2>4, <2>6
<1>5. ASSUME NEW w \in Workers, WorkerEnter(w) \/ WorkerWake(w) PROVE Goal
  <2>1. CASE first # NULL /\ TakeBatch(w)
    <3>1. /\ first' \in Pointer /\ last' \in Pointer /\ size' \in Nat
          /\ cached' \in Seq(ReadyTasks) /\ queue' \in Seq(ReadyTasks)
          /\ local' \in [Workers -> Pointer] /\ numLocal' \in [Workers -> 0 .. BatchSize]
          /\ batch' \in [Workers -> Seq(ReadyTasks)]
      BY <1>0, <2>1, TakeTypes
    <3>2. UNCHANGED <<next, failed, numFailed, retry>>
      BY <2>1 DEF TakeBatch
    <3>3. QED
      BY <1>1, <3>1, <3>2
  <2>2. CASE /\ UNCHANGED <<next, first, last, size, cached, queue>>
             /\ UNCHANGED <<local, numLocal, failed, numFailed, batch, retry>>
    BY <1>2, <2>2
  <2>3. QED
    BY <1>0, <1>5, <2>1, <2>2, EnterMoves
<1>6. ASSUME NEW w \in Workers, RunSucceeds(w) PROVE Goal
  <2>1. /\ local' = [local EXCEPT ![w] = next[local[w]]]
        /\ next' = [next EXCEPT ![local[w]] = NULL]
        /\ numLocal' = [numLocal EXCEPT ![w] = numLocal[w] - 1]
        /\ batch' = [batch EXCEPT ![w] = Tail(batch[w])]
        /\ UNCHANGED <<first, last, size, cached, queue, failed, numFailed, retry>>
        /\ numLocal[w] > 0
    BY <1>6 DEF RunSucceeds
  <2>2. local[w] \in ReadyTasks /\ Tail(batch[w]) \in Seq(ReadyTasks)
    BY <1>0, <2>1, RunHead
  <2>3. next[local[w]] \in Pointer /\ numLocal[w] - 1 \in 0 .. BatchSize
    BY <1>0, <1>1, <2>1, <2>2
  <2>4. /\ local' \in [Workers -> Pointer] /\ next' \in [ReadyTasks -> Pointer]
        /\ numLocal' \in [Workers -> 0 .. BatchSize] /\ batch' \in [Workers -> Seq(ReadyTasks)]
    BY <1>1, <2>1, <2>2, <2>3
  <2>5. QED
    BY <1>1, <2>1, <2>4
<1>7. ASSUME NEW w \in Workers, RunFails(w) PROVE Goal
  <2>1. /\ local' = [local EXCEPT ![w] = next[local[w]]]
        /\ next' = [next EXCEPT ![local[w]] = failed[w]]
        /\ failed' = [failed EXCEPT ![w] = local[w]]
        /\ numFailed' = [numFailed EXCEPT ![w] = numFailed[w] + 1]
        /\ numLocal' = [numLocal EXCEPT ![w] = numLocal[w] - 1]
        /\ batch' = [batch EXCEPT ![w] = Tail(batch[w])]
        /\ retry' = [retry EXCEPT ![w] = <<Head(batch[w])>> \o retry[w]]
        /\ UNCHANGED <<first, last, size, cached, queue>>
        /\ numLocal[w] > 0
    BY <1>7 DEF RunFails
  <2>2. /\ local[w] \in ReadyTasks /\ Tail(batch[w]) \in Seq(ReadyTasks)
        /\ local[w] = Head(batch[w])
    BY <1>0, <2>1, RunHead
  <2>3. /\ next[local[w]] \in Pointer /\ failed[w] \in Pointer /\ local[w] \in Pointer
        /\ numLocal[w] - 1 \in 0 .. BatchSize
    BY <1>0, <1>1, <2>1, <2>2 DEF Pointer
  <2>4. numFailed[w] + 1 \in 0 .. BatchSize
    <3>1. numLocal[w] + numFailed[w] <= BatchSize
      BY <1>0 DEF BatchesFit
    <3>2. QED
      BY <1>0, <1>1, <2>1, <3>1
  <2>5. <<Head(batch[w])>> \o retry[w] \in Seq(ReadyTasks)
    <3>1. retry[w] \in Seq(ReadyTasks)
      BY <1>1
    <3>2. Head(batch[w]) \in ReadyTasks
      BY <2>2
    <3>3. QED
      BY <3>1, <3>2, OfCons
  <2>6. /\ local' \in [Workers -> Pointer] /\ next' \in [ReadyTasks -> Pointer]
        /\ failed' \in [Workers -> Pointer] /\ numFailed' \in [Workers -> 0 .. BatchSize]
        /\ numLocal' \in [Workers -> 0 .. BatchSize]
    BY <1>1, <2>1, <2>3, <2>4
  <2>7. batch' \in [Workers -> Seq(ReadyTasks)] /\ retry' \in [Workers -> Seq(ReadyTasks)]
    BY <1>1, <2>1, <2>2, <2>5
  <2>8. QED
    BY <1>1, <2>1, <2>6, <2>7
<1>8. ASSUME NEW w \in Workers, EndBatch(w) PROVE Goal
  <2>1. /\ local' = [local EXCEPT ![w] = failed[w]]
        /\ numLocal' = [numLocal EXCEPT ![w] = numFailed[w]]
        /\ failed' = [failed EXCEPT ![w] = NULL]
        /\ numFailed' = [numFailed EXCEPT ![w] = 0]
        /\ batch' = [batch EXCEPT ![w] = retry[w]]
        /\ retry' = [retry EXCEPT ![w] = <<>>]
        /\ UNCHANGED <<next, first, last, size, cached, queue>>
    BY <1>8 DEF EndBatch, listVars
  <2>2. /\ failed[w] \in Pointer /\ numFailed[w] \in 0 .. BatchSize /\ 0 \in 0 .. BatchSize
        /\ retry[w] \in Seq(ReadyTasks) /\ <<>> \in Seq(ReadyTasks)
    BY <1>0, <1>1
  <2>3. QED
    BY <1>1, <2>1, <2>2
<1>9. CASE ClearTasks
  <2>1. /\ first' = NULL /\ last' = NULL /\ size' = 0 /\ cached' = <<>> /\ queue' = <<>>
        /\ UNCHANGED <<next, local, numLocal, failed, numFailed, batch, retry>>
    BY <1>9 DEF ClearTasks, localVars
  <2>2. <<>> \in Seq(ReadyTasks) /\ 0 \in Nat
    OBVIOUS
  <2>3. QED
    BY <1>1, <2>1, <2>2
<1>10. QED
  BY <1>3, <1>4, <1>5, <1>6, <1>7, <1>8, <1>9, NextSteps

(* Once the list is cleared, no worker is in its loop.                     *)
LEMMA NextJoined ==
  ASSUME IInv, [Next]_vars
  PROVE  Joined'
<1>0. /\ destroyed => stop /\ \A w \in Workers : worker[w] \in {"unborn", "exited"}
      /\ worker \in [Workers -> Places]
  BY DEF IInv, TypeOK, Joined
<1>1. ASSUME UNCHANGED <<worker, stop, destroyed>> PROVE Joined'
  BY <1>0, <1>1 DEF Joined
<1>2. ASSUME NEW w \in Workers, worker[w] \notin {"unborn", "exited"},
             UNCHANGED <<stop, destroyed>>
      PROVE  Joined'
  BY <1>0, <1>2 DEF Joined
<1>3. ASSUME NEW w \in Workers, WorkerStep(w) \/ SpuriousWake(w) PROVE Joined'
  <2>1. worker[w] \notin {"unborn", "exited"} /\ UNCHANGED <<stop, destroyed>>
    BY <1>3 DEF WorkerStep, LoopTop, WorkerEnter, WorkerWake, SpuriousWake,
                RunSucceeds, RunFails, EndBatch, WorkerExit
  <2>2. QED
    BY <1>2, <2>1
<1>4. ASSUME NEW w \in Workers, NotifierReturned(w) PROVE Joined'
  BY <1>1, <1>4 DEF NotifierReturned
<1>5. ASSUME NEW r \in Receivers,
             \/ ReceivePacket(r) \/ BeginSchedule(r)
             \/ \E t \in ReadyTasks : EnqueueTask(r, t)
      PROVE  Joined'
  BY <1>1, <1>5 DEF ReceivePacket, BeginSchedule, EnqueueTask
<1>6. ASSUME NEW r \in Receivers, ScheduleRound(r) PROVE Joined'
  <2>1. ~destroyed /\ UNCHANGED <<stop, destroyed>>
    BY <1>6 DEF ScheduleRound
  <2>2. QED
    BY <2>1 DEF Joined
<1>7. CASE SetNotRunning \/ UNCHANGED vars
  BY <1>1, <1>7 DEF SetNotRunning, vars
<1>8. CASE Destroy
  <2>1. ~stop /\ UNCHANGED destroyed
    BY <1>8 DEF Destroy
  <2>2. QED
    BY <1>0, <2>1 DEF Joined
<1>9. CASE ClearTasks
  <2>1. stop /\ UNCHANGED <<stop, worker>>
        /\ \A w \in Workers : worker[w] \in {"unborn", "exited"}
    BY <1>9 DEF ClearTasks
  <2>2. QED
    BY <2>1 DEF Joined
<1>10. QED
  BY <1>3, <1>4, <1>5, <1>6, <1>7, <1>8, <1>9 DEF Next, ReceiverStep

(* Every step keeps the invariant.                                         *)
LEMMA NextIInv ==
  ASSUME IInv, [Next]_vars
  PROVE  IInv'
<1>1. TypeOK
  BY DEF IInv
<1>2. TypeOK'
  BY <1>1, ListType, PlacesType, CountersType DEF TypeOK, Pointer, Places
<1>3. QED
  BY <1>2, NextLists, NextCounted, NextJoined DEF IInv

(* The invariant holds initially.                                          *)
LEMMA InitIInv ==
  ASSUME Init
  PROVE  IInv
<1>0. BatchSize \in Nat /\ NotifierSize \in Nat /\ Len(<<>>) = 0
  BY CodecManagerAssumption
<1>1. /\ next = [t \in ReadyTasks |-> NULL]
      /\ first = NULL /\ last = NULL /\ size = 0 /\ cached = <<>> /\ queue = <<>>
      /\ receiver = [r \in Receivers |-> "polling"]
      /\ worker = [w \in Workers |-> "unborn"]
      /\ uninit = 0 /\ waiting = 0 /\ numWorkers = 0
      /\ local = [w \in Workers |-> NULL] /\ numLocal = [w \in Workers |-> 0]
      /\ failed = [w \in Workers |-> NULL] /\ numFailed = [w \in Workers |-> 0]
      /\ batch = [w \in Workers |-> <<>>] /\ retry = [w \in Workers |-> <<>>]
      /\ notifiers = [w \in Workers |-> 0]
      /\ running = TRUE /\ stop = FALSE /\ destroyed = FALSE
  BY DEF Init
<1>2. TypeOK
  <2>1. <<>> \in Seq(ReadyTasks) /\ NULL \in Pointer
    BY DEF Pointer
  <2>2. /\ next \in [ReadyTasks -> Pointer]
        /\ local \in [Workers -> Pointer] /\ failed \in [Workers -> Pointer]
        /\ batch \in [Workers -> Seq(ReadyTasks)] /\ retry \in [Workers -> Seq(ReadyTasks)]
    BY <1>1, <2>1
  <2>3. /\ numLocal \in [Workers -> 0 .. BatchSize] /\ numFailed \in [Workers -> 0 .. BatchSize]
        /\ notifiers \in [Workers -> 0 .. NotifierSize]
    BY <1>0, <1>1
  <2>4. /\ receiver \in [Receivers -> {"polling", "feeding", "scheduling"}]
        /\ worker \in [Workers -> Places]
    BY <1>1 DEF Places
  <2>5. QED
    BY <1>1, <2>1, <2>2, <2>3, <2>4 DEF TypeOK
<1>3. ListIsQueue
  BY <1>0, <1>1 DEF ListIsQueue, Linked
<1>4. BatchesAreLinked
  BY <1>0, <1>1 DEF BatchesAreLinked, Linked
<1>5. Apart
  <2>1. IsInjective(<<>>) /\ ToSet(<<>>) = {}
    BY OfNone
  <2>2. QED
    BY <1>1, <2>1 DEF Apart, Held
<1>6. BatchesAreOver /\ BatchesFit
  BY <1>0, <1>1 DEF BatchesAreOver, BatchesFit
<1>7. Counted
  <2>1. Outside = {} /\ InWait = {} /\ Born = {}
    BY <1>1 DEF Outside, InWait, Born
  <2>2. Cardinality({}) = 0
    BY FS_EmptySet
  <2>3. QED
    BY <1>1, <2>1, <2>2 DEF Counted
<1>8. Joined
  BY <1>1 DEF Joined
<1>9. QED
  BY <1>2, <1>3, <1>4, <1>5, <1>6, <1>7, <1>8 DEF IInv

----------------------------------------------------------------------------
(* The invariants of the specification *)

(* The strengthened invariant holds in every reachable state.              *)
THEOREM Invariance == Spec => []IInv
<1>1. Init => IInv
  BY InitIInv
<1>2. IInv /\ [Next]_vars => IInv'
  BY NextIInv
<1>3. QED
  BY <1>1, <1>2, PTL DEF Spec

(* The variables of the manager keep their types, and a worker never has   *)
(* more tasks in hand than a batch.                                        *)
THEOREM TypeCorrect == Spec => []TypeOK
<1>1. IInv => TypeOK
  BY DEF IInv
<1>2. QED
  BY <1>1, Invariance, PTL

(* enqueueTask and the cuts of the workers keep the linked list, its ends, *)
(* its size and the recorded pointers in step.                             *)
THEOREM ListCorrect == Spec => []ListIsQueue
<1>1. IInv => ListIsQueue
  BY DEF IInv
<1>2. QED
  BY <1>1, Invariance, PTL

(* Following _next_task num_local_tasks times from local_tasks visits      *)
(* exactly the tasks of the batch that are still to run, and the same from *)
(* local_failed_tasks the failed ones.                                     *)
THEOREM BatchesCorrect == Spec => []BatchesAreLinked
<1>1. IInv => BatchesAreLinked
  BY DEF IInv
<1>2. QED
  BY <1>1, Invariance, PTL

(* While the system runs, the three thread counters count the threads.     *)
THEOREM CountersCorrect == Spec => []CountersCountThreads
<1>1. IInv => CountersCountThreads
  BY DEF IInv, Counted, CountersCountThreads, Outside, InWait, Born
<1>2. QED
  BY <1>1, Invariance, PTL

----------------------------------------------------------------------------
(* Refinement: read off the pointers, the manager is a queue of batches. *)

(* The chain of links is the sequence it stands for.                       *)
LEMMA ChainIs ==
  ASSUME NEW p, NEW n, NEW s \in Seq(ReadyTasks), Linked(p, n, s)
  PROVE  Chain(p, n) = s
<1> DEFINE Is(f) == f = [i \in 1 .. n |->
                           IF i = 1 THEN p
                           ELSE IF f[i - 1] \in ReadyTasks THEN next[f[i - 1]] ELSE NULL]
<1>1. /\ n = Len(s) /\ n \in Nat
      /\ n > 0 => p = s[1]
      /\ \A i \in 1 .. n - 1 : next[s[i]] = s[i + 1]
      /\ \A i \in 1 .. n : s[i] \in ReadyTasks
      /\ s = [i \in 1 .. n |-> s[i]]
  BY DEF Linked
<1>2. Chain(p, n) = CHOOSE f : Is(f)
  BY DEF Chain
<1>3. Is(s)
  <2>1. ASSUME NEW i \in 1 .. n
        PROVE  s[i] = IF i = 1 THEN p
                      ELSE IF s[i - 1] \in ReadyTasks THEN next[s[i - 1]] ELSE NULL
    <3>1. CASE i = 1
      BY <1>1, <3>1
    <3>2. CASE i # 1
      <4>1. i - 1 \in 1 .. n - 1 /\ i - 1 \in 1 .. n /\ i - 1 + 1 = i
        BY <1>1, <3>2
      <4>2. next[s[i - 1]] = s[i] /\ s[i - 1] \in ReadyTasks
        BY <1>1, <4>1
      <4>3. QED
        BY <3>2, <4>2
    <3>3. QED
      BY <3>1, <3>2
  <2>2. QED
    BY <1>1, <2>1
<1>4. \A f : Is(f) => /\ f = [i \in 1 .. n |-> f[i]]
                      /\ \A i \in 1 .. n :
                           f[i] = IF i = 1 THEN p
                                  ELSE IF f[i - 1] \in ReadyTasks THEN next[f[i - 1]] ELSE NULL
  <2>1. SUFFICES ASSUME NEW f, Is(f)
                 PROVE  /\ f = [i \in 1 .. n |-> f[i]]
                        /\ \A i \in 1 .. n :
                             f[i] = IF i = 1 THEN p
                                    ELSE IF f[i - 1] \in ReadyTasks THEN next[f[i - 1]] ELSE NULL
    OBVIOUS
  <2>2. QED
    BY <2>1
<1> HIDE DEF Is
<1>5. Is(CHOOSE f : Is(f))
  BY <1>3
<1>6. ASSUME NEW f, Is(f) PROVE f = s
  <2> DEFINE T == {i \in Nat : i \in 1 .. n => f[i] = s[i]}
  <2>1. 0 \in T
    OBVIOUS
  <2>2. ASSUME NEW i \in T PROVE i + 1 \in T
    <3>1. SUFFICES ASSUME i + 1 \in 1 .. n PROVE f[i + 1] = s[i + 1]
      OBVIOUS
    <3>2. /\ i + 1 - 1 = i
          /\ i + 1 # 1 => i \in 1 .. n - 1 /\ i \in 1 .. n
      BY <1>1, <3>1
    <3>3. CASE i + 1 = 1
      BY <1>1, <1>4, <1>6, <3>1, <3>3
    <3>4. CASE i + 1 # 1
      <4>1. f[i] = s[i] /\ s[i] \in ReadyTasks /\ next[s[i]] = s[i + 1]
        BY <1>1, <3>2, <3>4
      <4>2. f[i + 1] = IF i + 1 = 1 THEN p
                       ELSE IF f[i + 1 - 1] \in ReadyTasks THEN next[f[i + 1 - 1]] ELSE NULL
        BY <1>4, <1>6, <3>1
      <4>3. QED
        BY <3>2, <3>4, <4>1, <4>2
    <3>5. QED
      BY <3>3, <3>4
  <2> HIDE DEF T
  <2>3. T \in SUBSET Nat
    BY DEF T
  <2>4. T = Nat
    BY <2>1, <2>2, <2>3, Induction
  <2>5. \A i \in 1 .. n : f[i] = s[i]
    BY <1>1, <2>4 DEF T
  <2>6. f = [i \in 1 .. n |-> f[i]]
    BY <1>4, <1>6
  <2>7. QED
    BY <1>1, <2>5, <2>6
<1>7. QED
  BY <1>2, <1>5, <1>6

(* The tasks the workers have taken and not deleted.                       *)
Coding == UNION {Held(w) : w \in Workers}

\* What the pointers and counts say is what the histories record.
Abstracted == Chain(first, size) = queue /\ Started = Coding

(* The chains are the histories.                                           *)
LEMMA ChainsAre == IInv => Abstracted
<1> SUFFICES ASSUME IInv PROVE Abstracted
  OBVIOUS
<1>1. TypeOK /\ ListIsQueue /\ BatchesAreLinked
  BY DEF IInv
<1>2. Chain(first, size) = queue
  BY <1>1, Tasks, ChainIs DEF ListIsQueue
<1>3. ASSUME NEW w \in Workers
      PROVE  ToSet(Chain(local[w], numLocal[w])) \cup ToSet(Chain(failed[w], numFailed[w]))
               = Held(w)
  <2>1. Chain(local[w], numLocal[w]) = batch[w]
    BY <1>1, Tasks, ChainIs DEF BatchesAreLinked
  <2>2. Chain(failed[w], numFailed[w]) = retry[w]
    BY <1>1, Tasks, ChainIs DEF BatchesAreLinked
  <2>3. QED
    BY <2>1, <2>2 DEF Held
<1>4. Started = Coding
  BY <1>3 DEF Started, Coding
<1>5. QED
  BY <1>2, <1>4 DEF Abstracted

(* What is coded, when the tasks of one worker change.                     *)
LEMMA CodingOf ==
  ASSUME NEW w \in Workers, \A v \in Workers \ {w} : Held(v)' = Held(v)
  PROVE  /\ \A x : x \in Coding <=> \E v \in Workers : x \in Held(v)
         /\ \A x : x \in Coding' <=> x \in Held(w)' \/ \E v \in Workers \ {w} : x \in Held(v)
<1>1. \A x : x \in Coding <=> \E v \in Workers : x \in Held(v)
  BY DEF Coding
<1>2. \A x : x \in Coding' <=> \E v \in Workers : x \in Held(v)'
  BY DEF Coding
<1>3. QED
  BY <1>1, <1>2

(* A task that is appended is submitted.                                   *)
LEMMA StepSubmit ==
  ASSUME Abstracted, Abstracted', NEW r \in Receivers, NEW t \in ReadyTasks, EnqueueTask(r, t)
  PROVE  BQ!Submit(t)
<1>1. /\ t \in Free /\ queue' = Append(queue, t)
      /\ UNCHANGED <<batch, retry>>
  BY DEF EnqueueTask, localVars
<1>2. Coding' = Coding
  BY <1>1 DEF Coding, Held
<1>3. t \notin ToSet(queue) \cup Coding
  BY <1>1 DEF Free, Coding
<1>4. /\ Chain(first, size) = queue /\ Chain(first, size)' = queue'
      /\ Started = Coding /\ Started' = Coding'
  BY DEF Abstracted
<1>5. /\ t \notin ToSet(Chain(first, size)) \cup Started
      /\ Chain(first, size)' = Append(Chain(first, size), t)
      /\ UNCHANGED Started
  BY <1>1, <1>2, <1>3, <1>4, Zenon
<1>6. ~destroyed /\ UNCHANGED <<stop, destroyed>>
  BY DEF EnqueueTask
<1>7. QED
  BY <1>5, <1>6 DEF BQ!Submit, BQ!ToSet, ToSet

(* The tasks of a batch that is cut off are started together.              *)
LEMMA StepStart ==
  ASSUME TypeOK, ListIsQueue, BatchesAreOver, Abstracted, Abstracted',
         NEW w \in Workers, worker[w] \notin {"coding", "retrying", "exited"},
         TakeBatch(w), first # NULL, ~destroyed, UNCHANGED <<stop, destroyed>>
  PROVE  \E n \in 1 .. BatchSize : BQ!Start(n)
<1>1. PICK n \in 1 .. BatchSize :
        /\ n <= Len(queue)
        /\ batch' = [batch EXCEPT ![w] = SubSeq(queue, 1, n)]
        /\ queue' = SubSeq(queue, n + 1, Len(queue))
        /\ UNCHANGED <<next, failed, numFailed, retry>>
  BY TakeSplits
<1>2. PICK a : a = SubSeq(queue, 1, n)
  OBVIOUS
<1>3. batch[w] = <<>> /\ retry[w] = <<>> /\ batch \in [Workers -> Seq(ReadyTasks)]
  BY DEF BatchesAreOver, TypeOK
<1>4. ToSet(<<>>) = {}
  BY OfNone
<1>5. Held(w) = {}
  BY <1>3, <1>4 DEF Held
<1>6. batch'[w] = a /\ retry'[w] = <<>> /\ \A v \in Workers \ {w} : batch'[v] = batch[v]
  BY <1>1, <1>2, <1>3
<1>7. Held(w)' = ToSet(a) /\ \A v \in Workers \ {w} : Held(v)' = Held(v)
  BY <1>1, <1>4, <1>6 DEF Held
<1>8. Coding' = Coding \cup ToSet(a)
  <2>1. /\ \A x : x \in Coding <=> \E v \in Workers : x \in Held(v)
        /\ \A x : x \in Coding' <=> x \in Held(w)' \/ \E v \in Workers \ {w} : x \in Held(v)
    BY <1>7, CodingOf
  <2>2. QED
    BY <1>5, <1>7, <2>1
<1>9. /\ Chain(first, size) = queue /\ Chain(first, size)' = queue'
      /\ Started = Coding /\ Started' = Coding'
  BY DEF Abstracted
<1>10. /\ n <= Len(Chain(first, size))
       /\ Chain(first, size)' = SubSeq(Chain(first, size), n + 1, Len(Chain(first, size)))
       /\ Started' = Started \cup ToSet(SubSeq(Chain(first, size), 1, n))
  BY <1>1, <1>2, <1>8, <1>9, Zenon
<1>11. BQ!Start(n)
  BY <1>10 DEF BQ!Start, BQ!ToSet, ToSet
<1>12. QED
  BY <1>11

(* A task that is coded and deleted is finished.                           *)
LEMMA StepFinish ==
  ASSUME TypeOK, BatchesAreLinked, Apart, Abstracted, Abstracted',
         NEW w \in Workers, RunSucceeds(w), ~destroyed
  PROVE  local[w] \in ReadyTasks /\ BQ!Finish(local[w])
<1>1. /\ batch' = [batch EXCEPT ![w] = Tail(batch[w])] /\ numLocal[w] > 0
      /\ UNCHANGED <<queue, retry>>
  BY DEF RunSucceeds
<1>2. PICK h, b : h = local[w] /\ b = Tail(batch[w])
  OBVIOUS
<1>3. /\ h \in ReadyTasks
      /\ ToSet(batch[w]) = {h} \cup ToSet(b)
      /\ h \notin ToSet(b) /\ h \notin ToSet(retry[w])
      /\ \A v \in Workers \ {w} : h \notin Held(v)
  BY <1>1, <1>2, RunHead
<1>4. batch \in [Workers -> Seq(ReadyTasks)]
  BY DEF TypeOK
<1>5. batch'[w] = b /\ \A v \in Workers \ {w} : batch'[v] = batch[v]
  BY <1>1, <1>2, <1>4
<1>6. Held(w)' = Held(w) \ {h} /\ h \in Held(w) /\ \A v \in Workers \ {w} : Held(v)' = Held(v)
  BY <1>1, <1>3, <1>5 DEF Held
<1>7. /\ \A x : x \in Coding <=> \E v \in Workers : x \in Held(v)
      /\ \A x : x \in Coding' <=> x \in Held(w)' \/ \E v \in Workers \ {w} : x \in Held(v)
  BY <1>6, CodingOf
<1>8. h \in Coding /\ Coding' = Coding \ {h}
  BY <1>3, <1>6, <1>7
<1>9. /\ Chain(first, size) = queue /\ Chain(first, size)' = queue'
      /\ Started = Coding /\ Started' = Coding'
  BY DEF Abstracted
<1>10. /\ h \in Started /\ Started' = Started \ {h}
       /\ UNCHANGED Chain(first, size)
  BY <1>1, <1>8, <1>9, Zenon
<1>11. UNCHANGED <<stop, destroyed>>
  BY DEF RunSucceeds
<1>12. QED
  BY <1>2, <1>3, <1>10, <1>11 DEF BQ!Finish

(* Steps that leave what is queued and what is coded alone.                *)
LEMMA StepStutter ==
  ASSUME Abstracted, Abstracted', UNCHANGED <<queue, Coding, stop, destroyed>>
  PROVE  UNCHANGED BQ!vars
<1>1. UNCHANGED Chain(first, size) /\ UNCHANGED Started
  BY DEF Abstracted
<1>2. QED
  BY <1>1 DEF BQ!vars

(* A task that fails, and the end of a batch, only move tasks from one     *)
(* chain of the worker to the other.                                       *)
LEMMA StepKeepsTasks ==
  ASSUME TypeOK, BatchesAreLinked, Apart, NEW w \in Workers, RunFails(w) \/ EndBatch(w)
  PROVE  UNCHANGED <<queue, Coding, stop, destroyed>>
<1>0. batch \in [Workers -> Seq(ReadyTasks)] /\ retry \in [Workers -> Seq(ReadyTasks)]
  BY DEF TypeOK
<1>1. CASE RunFails(w)
  <2>1. /\ batch' = [batch EXCEPT ![w] = Tail(batch[w])] /\ numLocal[w] > 0
        /\ retry' = [retry EXCEPT ![w] = <<Head(batch[w])>> \o retry[w]]
        /\ UNCHANGED queue
    BY <1>1 DEF RunFails
  <2>2. PICK h, b, c : h = local[w] /\ b = Tail(batch[w]) /\ c = <<Head(batch[w])>> \o retry[w]
    OBVIOUS
  <2>3. /\ h \in ReadyTasks /\ h = Head(batch[w])
        /\ ToSet(batch[w]) = {h} \cup ToSet(b)
    BY <2>1, <2>2, RunHead
  <2>4. ToSet(c) = {h} \cup ToSet(retry[w])
    BY <1>0, <2>2, <2>3, OfCons
  <2>5. /\ batch'[w] = b /\ retry'[w] = c
        /\ \A v \in Workers \ {w} : batch'[v] = batch[v] /\ retry'[v] = retry[v]
    BY <1>0, <2>1, <2>2
  <2>6. Held(w)' = Held(w) /\ \A v \in Workers \ {w} : Held(v)' = Held(v)
    BY <2>3, <2>4, <2>5 DEF Held
  <2>7. UNCHANGED <<stop, destroyed>>
    BY <1>1 DEF RunFails
  <2>8. QED
    BY <2>1, <2>6, <2>7 DEF Coding
<1>2. CASE EndBatch(w)
  <2>1. /\ batch' = [batch EXCEPT ![w] = retry[w]] /\ numLocal[w] = 0
        /\ retry' = [retry EXCEPT ![w] = <<>>]
        /\ UNCHANGED queue
    BY <1>2 DEF EndBatch, listVars
  <2>2. Len(batch[w]) = 0
    BY <2>1, BatchesAre DEF Worker, Chained
  <2>3. batch[w] = <<>> /\ ToSet(<<>>) = {}
    BY <1>0, <2>2, NonEmpty, OfNone
  <2>4. /\ batch'[w] = retry[w] /\ retry'[w] = <<>>
        /\ \A v \in Workers \ {w} : batch'[v] = batch[v] /\ retry'[v] = retry[v]
    BY <1>0, <2>1
  <2>5. Held(w)' = Held(w) /\ \A v \in Workers \ {w} : Held(v)' = Held(v)
    BY <2>3, <2>4 DEF Held
  <2>6. UNCHANGED <<stop, destroyed>>
    BY <1>2 DEF EndBatch
  <2>7. QED
    BY <2>1, <2>5, <2>6 DEF Coding
<1>3. QED
  BY <1>1, <1>2

(* Every step of the manager is one of the batch queue, or leaves it alone.*)
LEMMA StepBQ == IInv /\ Abstracted /\ Abstracted' /\ [Next]_vars => [BQ!Next]_(BQ!vars)
<1> SUFFICES ASSUME IInv, Abstracted, Abstracted', [Next]_vars PROVE [BQ!Next]_(BQ!vars)
  OBVIOUS
<1>0. /\ TypeOK /\ ListIsQueue /\ BatchesAreLinked /\ Apart /\ BatchesAreOver
      /\ \A w \in Workers : worker[w] \notin {"unborn", "exited"} => ~destroyed
  BY DEF IInv, Joined
<1>1. CASE Others
  <2>1. UNCHANGED <<queue, batch, retry>>
    BY <1>0, <1>1, OthersMove
  <2>2. UNCHANGED <<queue, Coding>>
    BY <2>1 DEF Coding, Held
  <2>3. CASE Destroy
    <3>1. ~destroyed /\ ~stop /\ stop' /\ UNCHANGED destroyed
      BY <1>0, <2>3 DEF Destroy, IInv, Joined
    <3>2. UNCHANGED Chain(first, size) /\ UNCHANGED Started
      BY <2>2 DEF Abstracted
    <3>3. BQ!Stop
      BY <3>1, <3>2 DEF BQ!Stop
    <3>4. QED
      BY <3>3 DEF BQ!Next
  <2>4. CASE UNCHANGED <<stop, destroyed>>
    BY <2>2, <2>4, StepStutter
  <2>5. Destroy \/ UNCHANGED <<stop, destroyed>>
    BY <1>1 DEF Others, LoopTop, WorkerExit, SpuriousWake, NotifierReturned, ReceivePacket,
                BeginSchedule, ScheduleRound, SetNotRunning, vars
  <2>6. QED
    BY <2>3, <2>4, <2>5
<1>2. ASSUME NEW r \in Receivers, NEW t \in ReadyTasks, EnqueueTask(r, t) PROVE BQ!Next
  BY <1>2, StepSubmit DEF BQ!Next
<1>3. ASSUME NEW w \in Workers, WorkerEnter(w) \/ WorkerWake(w)
      PROVE  BQ!Next \/ UNCHANGED BQ!vars
  <2>0. UNCHANGED <<stop, destroyed>>
    BY <1>3 DEF WorkerEnter, WorkerWake
  <2>1. worker[w] \in {"entering first", "entering", "notified"}
    BY <1>0, <1>3, EnterMoves
  <2>2. CASE first # NULL /\ TakeBatch(w)
    <3>1. worker[w] \notin {"coding", "retrying", "exited"}
      BY <2>1
    <3>2. \E n \in 1 .. BatchSize : BQ!Start(n)
      BY <1>0, <2>0, <2>1, <2>2, <3>1, StepStart
    <3>3. QED
      BY <3>2 DEF BQ!Next
  <2>3. CASE /\ UNCHANGED <<next, first, last, size, cached, queue>>
             /\ UNCHANGED <<local, numLocal, failed, numFailed, batch, retry>>
    <3>1. UNCHANGED <<queue, Coding>>
      BY <2>3 DEF Coding, Held
    <3>2. QED
      BY <2>0, <3>1, StepStutter
  <2>4. QED
    BY <1>0, <1>3, <2>2, <2>3, EnterMoves
<1>4. ASSUME NEW w \in Workers, RunSucceeds(w) PROVE BQ!Next
  <2>1. ~destroyed
    BY <1>0, <1>4 DEF RunSucceeds
  <2>2. QED
    BY <1>0, <1>4, <2>1, StepFinish DEF BQ!Next
<1>5. ASSUME NEW w \in Workers, RunFails(w) \/ EndBatch(w) PROVE UNCHANGED BQ!vars
  BY <1>0, <1>5, StepKeepsTasks, StepStutter
<1>6. CASE ClearTasks
  <2>1. queue' = <<>> /\ UNCHANGED <<batch, retry>>
    BY <1>6 DEF ClearTasks, localVars
  <2>2. Coding' = Coding
    BY <2>1 DEF Coding, Held
  <2>3. Chain(first, size)' = <<>> /\ UNCHANGED Started
    BY <2>1, <2>2 DEF Abstracted
  <2>4. stop /\ ~destroyed /\ destroyed'
    BY <1>6 DEF ClearTasks
  <2>5. BQ!Close
    BY <2>3, <2>4 DEF BQ!Close
  <2>6. QED
    BY <2>5 DEF BQ!Next
<1>7. QED
  BY <1>1, <1>2, <1>3, <1>4, <1>5, <1>6, NextSteps

(* Read off the pointers and counts, the manager implements the batch      *)
(* queue: no task is started twice or out of order, and none leaves the    *)
(* list without being started until _stop is set and every worker has been *)
(* joined; what is dropped then nobody starts or finishes any more.        *)
THEOREM Refinement == Spec => ImplementsBatchQueue
<1>1. Init /\ Abstracted => BQ!Init
  <2>1. ToSet(<<>>) = {}
    BY OfNone
  <2>2. Init => queue = <<>> /\ Coding = {} /\ ~stop /\ ~destroyed
    BY <2>1 DEF Init, Coding, Held
  <2>3. QED
    BY <2>2 DEF Abstracted, BQ!Init
<1>2. QED
  BY <1>1, ChainsAre, StepBQ, Invariance, PTL DEF Spec, BQ!Spec, ImplementsBatchQueue

=============================================================================
