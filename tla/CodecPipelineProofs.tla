------------------------ MODULE CodecPipelineProofs ------------------------
(***************************************************************************)
(* The reference counts of packets are right and bounded, and no worker    *)
(* reads a packet that has been given back, for any number of paths,       *)
(* codecs, outputs and packets, with and without store and forward.        *)
(***************************************************************************)
EXTENDS CodecPipeline, FiniteSetTheorems, TLAPS

(* The types of the variables, without the bounds on counters and counts. *)
Types ==
  /\ storeAndForward \in BOOLEAN
  /\ at \in [Paths -> {"waiting", "offering", "inserting"}]
  /\ offered \in [Paths -> 0 .. Len(CodecList)]
  /\ serial \in [Paths -> Nat]
  /\ count \in [Paths \X Serials -> Nat]
  /\ live \subseteq Paths \X Serials
  /\ received \in [Tasks -> SUBSET Paths]
  /\ stage \in [Tasks -> {"open", "ready", "coding", "done"}]
  /\ row \in [Tasks -> Nat] /\ unsent \in [Tasks -> Nat]
  /\ buffered \subseteq Outputs
  /\ sentUpTo \in [Senders -> Nat]
  /\ releasing \in [Outputs -> Seq(Paths \X Serials)]

(* A receive thread that is not waiting has a packet of a coded path. *)
Offering ==
  \A p \in Paths :
    /\ at[p] # "waiting" => p \notin Forwarding /\ serial[p] \in Serials
    /\ at[p] = "inserting" =>
         offered[p] \in 1 .. Len(CodecList) /\ p \in InputSet(CodecList[offered[p]])

(* A task has inputs of its codec only, of packets that have come and, of the packet
   being offered, only in the codecs it has been offered to. *)
InputsHaveCome ==
  \A p \in Paths, c \in Codecs, n \in Serials : p \in received[<<c, n>>] =>
    /\ p \in InputSet(c) /\ n <= serial[p]
    /\ n = serial[p] /\ at[p] # "waiting" =>
         \A k \in 1 .. Len(CodecList) : CodecList[k] = c =>
           k <= offered[p] /\ (at[p] = "inserting" => k # offered[p])

(* A task is open as long as it lacks an input. *)
OpenIsIncomplete ==
  \A c \in Codecs, n \in Serials :
    stage[<<c, n>>] = "open" <=> received[<<c, n>>] # InputSet(c)

(* What is being released are inputs of one task, which is over. *)
InputsOnce(q, c, n) ==
  /\ \A i, j \in 1 .. Len(q) : i # j => q[i] # q[j]
  /\ \A i \in 1 .. Len(q) : q[i] \in InputSet(c) \X {n}

ReleasesOfOneTask ==
  \A c \in Codecs, n \in Serials : \A i \in 1 .. Rows[c] :
    /\ InputsOnce(releasing[<<<<c, i>>, n>>], c, n)
    /\ releasing[<<<<c, i>>, n>>] # <<>> => stage[<<c, n>>] = "done"

(* The outputs of a task that have neither been sent nor stored. *)
Left(c, n) ==
  {i \in 1 .. Rows[c] : IF storeAndForward THEN row[<<c, n>>] <= i ELSE sentUpTo[<<c, i>>] < n}

(* Which outputs of a task there are: those of the rows that have been made. *)
TaskOutputs(c, n) ==
  /\ stage[<<c, n>>] = "coding" => unsent[<<c, n>>] = Cardinality(Left(c, n)) /\ row[<<c, n>>] >= 1
  /\ stage[<<c, n>>] = "done" => Left(c, n) = {} /\ row[<<c, n>>] > Rows[c]
  /\ \A i \in 1 .. Rows[c] :
       /\ n <= sentUpTo[<<c, i>>] =>
            stage[<<c, n>>] \in {"coding", "done"} /\ i < row[<<c, n>>]
       /\ ~storeAndForward /\ <<<<c, i>>, n>> \in buffered =>
            /\ stage[<<c, n>>] = "coding" /\ i < row[<<c, n>>]
            /\ sentUpTo[<<c, i>>] < n
       /\ storeAndForward /\ stage[<<c, n>>] \in {"coding", "done"} /\ i < row[<<c, n>>] =>
            <<<<c, i>>, n>> \in buffered

OutputsOfTasks == \A c \in Codecs, n \in Serials : TaskOutputs(c, n)

(* The count of a packet, and what it is made up of. *)
Counted ==
  \A x \in Paths \X Serials :
    /\ IsFiniteSet(TasksWith(x)) /\ IsFiniteSet(ReleasersOf(x))
    /\ count[x] = Needed(x)
    /\ x \in live <=> count[x] > 0

(* The outputs of tasks that are over have been sent, or stored. *)
Gone ==
  \A t \in Tasks : stage[t] = "done" =>
    \A i \in 1 .. Rows[t[1]] :
      IF storeAndForward THEN <<<<t[1], i>>, t[2]>> \in buffered
                         ELSE sentUpTo[<<t[1], i>>] >= t[2]

IInv ==
  /\ Types /\ Offering /\ InputsHaveCome /\ OpenIsIncomplete
  /\ ReleasesOfOneTask /\ OutputsOfTasks /\ Counted

----------------------------------------------------------------------------
LEMMA Grown ==
  ASSUME NEW S, IsFiniteSet(S), NEW x, x \notin S
  PROVE  /\ IsFiniteSet(S \cup {x}) /\ Cardinality(S) \in Nat
         /\ Cardinality(S \cup {x}) = Cardinality(S) + 1
BY FS_AddElement, FS_CardinalityType

LEMMA Shrunk ==
  ASSUME NEW S, IsFiniteSet(S), NEW x \in S
  PROVE  /\ IsFiniteSet(S \ {x}) /\ Cardinality(S) \in Nat /\ Cardinality(S) >= 1
         /\ Cardinality(S \ {x}) = Cardinality(S) - 1
<1>1. /\ IsFiniteSet(S \ {x}) /\ Cardinality(S) \in Nat
      /\ Cardinality(S \ {x}) = Cardinality(S) - 1
  BY FS_RemoveElement, FS_CardinalityType
<1>2. Cardinality(S \ {x}) \in Nat
  BY <1>1, FS_CardinalityType
<1> QED
  BY <1>1, <1>2

(* The elements of a sequence. *)
LEMMA InToSet ==
  ASSUME NEW S, NEW q \in Seq(S), NEW x
  PROVE  x \in ToSet(q) <=> \E i \in 1 .. Len(q) : q[i] = x
<1>1. DOMAIN q = 1 .. Len(q)
  OBVIOUS
<1> QED
  BY <1>1 DEF ToSet

(* A list without its head. *)
LEMMA TailOnce ==
  ASSUME NEW S, NEW t \in Seq(S), t # <<>>,
         \A i, j \in 1 .. Len(t) : i # j => t[i] # t[j]
  PROVE  /\ Tail(t) \in Seq(S) /\ Head(t) \in ToSet(t) /\ Head(t) \in S
         /\ \A i, j \in 1 .. Len(Tail(t)) : i # j => Tail(t)[i] # Tail(t)[j]
         /\ \A i \in 1 .. Len(Tail(t)) : \E j \in 1 .. Len(t) : Tail(t)[i] = t[j]
         /\ \A x : x \in ToSet(Tail(t)) <=> x \in ToSet(t) /\ x # Head(t)
<1>1. /\ Tail(t) \in Seq(S) /\ Len(t) \in Nat /\ Len(t) > 0 /\ Len(Tail(t)) = Len(t) - 1
      /\ \A i \in 1 .. Len(Tail(t)) : Tail(t)[i] = t[i + 1]
      /\ Head(t) = t[1] /\ Head(t) \in S
  OBVIOUS
<1>2. \A i, j \in 1 .. Len(Tail(t)) : i # j => Tail(t)[i] # Tail(t)[j]
  BY <1>1
<1>3. \A i \in 1 .. Len(Tail(t)) : i + 1 \in 1 .. Len(t) /\ Tail(t)[i] = t[i + 1]
  BY <1>1
<1> DEFINE u == Tail(t)
<1>4. u \in Seq(S)
  BY <1>1
<1> HIDE DEF u
<1>5. \A x : x \in ToSet(u) <=> \E i \in 1 .. Len(u) : u[i] = x
  BY <1>4, InToSet
<1>6. \A x : x \in ToSet(t) <=> \E i \in 1 .. Len(t) : t[i] = x
  BY InToSet
<1>7. ASSUME NEW x, x \in ToSet(Tail(t))
      PROVE  x \in ToSet(t) /\ x # Head(t)
  <2>1. PICK i \in 1 .. Len(Tail(t)) : Tail(t)[i] = x
    BY <1>7, <1>5 DEF u
  <2>2. i + 1 \in 1 .. Len(t) /\ 1 \in 1 .. Len(t) /\ i + 1 # 1 /\ t[i + 1] = x
    BY <1>1, <2>1
  <2>3. x # t[1]
    BY <2>2
  <2> QED
    BY <2>2, <2>3, <1>1, <1>6
<1>8. ASSUME NEW x, x \in ToSet(t), x # Head(t)
      PROVE  x \in ToSet(Tail(t))
  <2>1. PICK i \in 1 .. Len(t) : t[i] = x
    BY <1>8, <1>6
  <2>2. i - 1 \in 1 .. Len(Tail(t)) /\ (i - 1) + 1 = i
    BY <1>1, <1>8, <2>1
  <2>3. Tail(t)[i - 1] = x
    BY <2>1, <2>2, <1>1
  <2> QED
    BY <2>2, <2>3, <1>5 DEF u
<1>9. Head(t) \in ToSet(t)
  BY <1>1, <1>6
<1> QED
  BY <1>1, <1>2, <1>3, <1>7, <1>8, <1>9

(* Sequences as functions. *)
LEMMA FunctionSeq ==
  ASSUME NEW S, NEW n \in Nat, NEW x \in [1 .. n -> S]
  PROVE  x \in Seq(S) /\ Len(x) = n
OBVIOUS

(* The inputs of a task. *)
LEMMA InputsOfTask ==
  ASSUME CodecPipelineAssumption, NEW c \in Codecs, NEW n \in Serials
  PROVE  /\ InputsOf(<<c, n>>) \in Seq(Paths \X Serials)
         /\ \A i, j \in 1 .. Len(InputsOf(<<c, n>>)) :
              i # j => InputsOf(<<c, n>>)[i] # InputsOf(<<c, n>>)[j]
         /\ \A i \in 1 .. Len(InputsOf(<<c, n>>)) : InputsOf(<<c, n>>)[i] \in InputSet(c) \X {n}
         /\ \A p, m : <<p, m>> \in ToSet(InputsOf(<<c, n>>)) <=> p \in InputSet(c) /\ m = n
<1> DEFINE q == InputPaths[c]
           f == InputsOf(<<c, n>>)
<1>1. q \in Seq(Paths) /\ Len(q) \in Nat /\ DOMAIN q = 1 .. Len(q)
  BY DEF CodecPipelineAssumption
<1>2. \A i, j \in 1 .. Len(q) : i # j => q[i] # q[j]
  BY <1>1 DEF CodecPipelineAssumption, IsInjective
<1>3. f = [i \in 1 .. Len(q) |-> <<q[i], n>>]
  BY DEF InputsOf
<1>4. InputSet(c) = {q[i] : i \in 1 .. Len(q)}
  BY <1>1 DEF InputSet, ToSet
<1> HIDE DEF q, f
<1>5. f \in Seq(Paths \X Serials) /\ Len(f) = Len(q)
  <2>1. f \in [1 .. Len(q) -> Paths \X Serials]
    BY <1>1, <1>3
  <2> QED
    BY <1>1, <2>1, FunctionSeq
<1>6. \A i \in 1 .. Len(q) : f[i] = <<q[i], n>> /\ q[i] \in InputSet(c)
  BY <1>3, <1>4
<1>7. ASSUME NEW p, NEW m
      PROVE  <<p, m>> \in ToSet(f) <=> p \in InputSet(c) /\ m = n
  <2>1. <<p, m>> \in ToSet(f) <=> \E i \in 1 .. Len(q) : f[i] = <<p, m>>
    BY <1>5, InToSet
  <2>2. \A i \in 1 .. Len(q) : f[i] = <<p, m>> <=> q[i] = p /\ m = n
    BY <1>6
  <2>3. p \in InputSet(c) <=> \E i \in 1 .. Len(q) : q[i] = p
    BY <1>4
  <2> QED
    BY <2>1, <2>2, <2>3, Zenon
<1>8. \A i, j \in 1 .. Len(f) : i # j => f[i] # f[j]
  BY <1>2, <1>5, <1>6
<1>9. \A i \in 1 .. Len(f) : f[i] \in InputSet(c) \X {n}
  BY <1>5, <1>6
<1> QED
  BY <1>5, <1>7, <1>8, <1>9 DEF f

(* Senders and outputs. *)
LEMMA OutputPairs ==
  /\ \A c \in Codecs : \A i \in 1 .. Rows[c] : <<c, i>> \in Senders
  /\ \A s \in Senders : \E c \in Codecs : \E i \in 1 .. Rows[c] : s = <<c, i>>
BY DEF Senders

(* Serial numbers start at 1. *)
LEMMA SerialType ==
  ASSUME CodecPipelineAssumption
  PROVE  \A n \in Serials : n \in Nat /\ n >= 1
BY DEF CodecPipelineAssumption, Serials

LEMMA SomeInput ==
  ASSUME CodecPipelineAssumption, NEW c \in Codecs
  PROVE  InputSet(c) # {} /\ InputSet(c) \subseteq Paths \ Forwarding
<1> DEFINE q == InputPaths[c]
<1>1. q \in Seq(Paths \ Forwarding) /\ q # <<>>
  BY DEF CodecPipelineAssumption
<1>2. \A x : x \in ToSet(q) <=> \E i \in 1 .. Len(q) : q[i] = x
  BY <1>1, InToSet
<1> HIDE DEF q
<1>3. 1 \in 1 .. Len(q) /\ \A i \in 1 .. Len(q) : q[i] \in Paths \ Forwarding
  BY <1>1
<1>4. q[1] \in ToSet(q) /\ ToSet(q) \subseteq Paths \ Forwarding
  BY <1>2, <1>3
<1> QED
  BY <1>4 DEF InputSet, q

LEMMA InitInv ==
  ASSUME CodecPipelineAssumption, Init
  PROVE  IInv
<1>1. Types
  <2>1. Len(CodecList) \in Nat /\ <<>> \in Seq(Paths \X Serials)
    BY DEF CodecPipelineAssumption
  <2> QED
    BY <2>1 DEF Init, Types
<1>2. Offering /\ InputsHaveCome /\ ReleasesOfOneTask
  <2>1. Offering /\ InputsHaveCome
    BY DEF Init, Offering, InputsHaveCome, Tasks
  <2>2. ReleasesOfOneTask
    BY OutputPairs DEF Init, ReleasesOfOneTask, InputsOnce, Outputs
  <2> QED
    BY <2>1, <2>2
<1>3. OpenIsIncomplete
  BY SomeInput DEF Init, OpenIsIncomplete, Tasks
<1>4. OutputsOfTasks
  <2> SUFFICES ASSUME NEW c \in Codecs, NEW n \in Serials, NEW i \in 1 .. Rows[c]
               PROVE  /\ stage[<<c, n>>] = "open" /\ ~(n <= sentUpTo[<<c, i>>])
                      /\ <<<<c, i>>, n>> \notin buffered
    BY DEF Init, OutputsOfTasks, TaskOutputs, Tasks
  <2>1. <<c, i>> \in Senders /\ n \in Nat /\ n >= 1
    BY OutputPairs, SerialType
  <2> QED
    BY <2>1 DEF Init, Tasks
<1>5. Counted
  <2> SUFFICES ASSUME NEW x \in Paths \X Serials
               PROVE  TasksWith(x) = {} /\ ReleasersOf(x) = {} /\ Holds(x) = 0
                      /\ count[x] = 0 /\ x \notin live
    <3>1. IsFiniteSet({}) /\ Cardinality({}) = 0
      BY FS_EmptySet
    <3>2. 0 = 0 + 0 + 0 /\ ~(0 > 0)
      OBVIOUS
    <3> QED
      BY <3>1, <3>2, Zenon DEF Counted, Needed
  <2>1. x[1] \in Paths /\ x[2] \in Serials /\ x[2] # 0
    BY SerialType
  <2>2. Holds(x) = 0 /\ count[x] = 0 /\ x \notin live
    BY <2>1 DEF Init, Holds
  <2>3. TasksWith(x) = {}
    BY <2>1 DEF Init, TasksWith, Tasks
  <2>4. ReleasersOf(x) = {}
    BY DEF Init, ReleasersOf, ToSet
  <2> QED
    BY <2>2, <2>3, <2>4
<1> QED
  BY <1>1, <1>2, <1>3, <1>4, <1>5 DEF IInv

----------------------------------------------------------------------------
(* Counts stay right if nothing changes that they count. *)
LEMMA SameCounted ==
  ASSUME Counted, UNCHANGED <<count, live>>,
         \A x \in Paths \X Serials :
           /\ Holds(x)' = Holds(x)
           /\ TasksWith(x)' = TasksWith(x) /\ ReleasersOf(x)' = ReleasersOf(x)
  PROVE  Counted'
BY DEF Counted, Needed

(* Numbers of needs. *)
LEMMA NeededType ==
  ASSUME Types, Counted, NEW x \in Paths \X Serials
  PROVE  /\ Holds(x) \in 0 .. 2 /\ Cardinality(TasksWith(x)) \in Nat
         /\ Cardinality(ReleasersOf(x)) \in Nat
         /\ count[x] = Holds(x) + Cardinality(TasksWith(x)) + Cardinality(ReleasersOf(x))
<1>1. Holds(x) \in 0 .. 2
  BY DEF Types, Holds
<1> QED
  BY <1>1, FS_CardinalityType DEF Counted, Needed

(* Giving back one count of a packet that has some. *)
LEMMA Released ==
  ASSUME Types, Counted, NEW p \in Paths, NEW n \in Serials, count[<<p, n>>] >= 1, Release(p, n)
  PROVE  /\ count' \in [Paths \X Serials -> Nat] /\ live' \subseteq Paths \X Serials
         /\ count'[<<p, n>>] = count[<<p, n>>] - 1
         /\ <<p, n>> \in live' <=> count'[<<p, n>>] > 0
         /\ \A x \in Paths \X Serials : x # <<p, n>> =>
              count'[x] = count[x] /\ (x \in live' <=> x \in live)
<1> DEFINE y == <<p, n>>
<1>1. y \in Paths \X Serials
  OBVIOUS
<1>2. /\ count' = [count EXCEPT ![y] = @ - 1]
      /\ count[y] = 1 => live' = live \ {y}
      /\ count[y] # 1 => live' = live
  BY DEF Release
<1> HIDE DEF y
<1>3. count \in [Paths \X Serials -> Nat] /\ live \subseteq Paths \X Serials
      /\ count[y] \in Nat /\ count[y] >= 1 /\ y \in live
  BY <1>1 DEF Types, Counted, y
<1>4. count'[y] = count[y] - 1 /\ count[y] - 1 \in Nat
  BY <1>1, <1>2, <1>3
<1>5. count' \in [Paths \X Serials -> Nat]
  BY <1>2, <1>3, <1>4
<1>6. \A x \in Paths \X Serials : x # y => count'[x] = count[x] /\ (x \in live' <=> x \in live)
  BY <1>1, <1>2, <1>3
<1>7. live' \subseteq Paths \X Serials /\ (y \in live' <=> count'[y] > 0)
  BY <1>2, <1>3, <1>4
<1> QED
  BY <1>4, <1>5, <1>6, <1>7 DEF y

(* The first numbers. *)
LEMMA UpTo ==
  ASSUME NEW r \in Nat
  PROVE  IsFiniteSet(1 .. r) /\ Cardinality(1 .. r) = r
BY FS_Interval

(* What TaskOutputs says of one row. *)
LEMMA RowOutput ==
  ASSUME NEW c \in Codecs, NEW n \in Serials, TaskOutputs(c, n), NEW i \in 1 .. Rows[c]
  PROVE  /\ n <= sentUpTo[<<c, i>>] => stage[<<c, n>>] \in {"coding", "done"} /\ i < row[<<c, n>>]
         /\ ~storeAndForward /\ <<<<c, i>>, n>> \in buffered =>
              /\ stage[<<c, n>>] = "coding" /\ i < row[<<c, n>>]
              /\ sentUpTo[<<c, i>>] < n
         /\ storeAndForward /\ stage[<<c, n>>] \in {"coding", "done"} /\ i < row[<<c, n>>] =>
              <<<<c, i>>, n>> \in buffered
BY Zenon DEF TaskOutputs

LEMMA NotAfter == \A a, b \in Nat : ~(a <= b) <=> b < a
OBVIOUS

LEMMA Later == \A a, b \in Nat : a < b => a < b + 1
OBVIOUS

(* A task none of whose outputs, and nothing of which, changes. *)
LEMMA SameOutputs ==
  ASSUME NEW c \in Codecs, NEW n \in Serials, TaskOutputs(c, n),
         storeAndForward' = storeAndForward,
         stage'[<<c, n>>] = stage[<<c, n>>], row'[<<c, n>>] = row[<<c, n>>],
         unsent'[<<c, n>>] = unsent[<<c, n>>],
         \A i \in 1 .. Rows[c] :
           /\ n <= sentUpTo'[<<c, i>>] <=> n <= sentUpTo[<<c, i>>]
           /\ sentUpTo'[<<c, i>>] < n <=> sentUpTo[<<c, i>>] < n
           /\ <<<<c, i>>, n>> \in buffered' <=> <<<<c, i>>, n>> \in buffered
  PROVE  TaskOutputs(c, n)'
<1>1. Left(c, n)' = Left(c, n)
  BY DEF Left
<1> QED
  BY <1>1 DEF TaskOutputs

(* Steps of workers before an output is made, and of what is not counted. *)
LEMMA QuietInv ==
  ASSUME CodecPipelineAssumption, IInv,
         (\E p \in Paths : ForwardSent(p)) \/ (\E t \in Tasks : StartCoding(t) \/ CodeRow(t))
           \/ UNCHANGED vars
  PROVE  IInv'
<1>1. /\ UNCHANGED <<storeAndForward, at, offered, serial, count, live, received, releasing, sentUpTo>>
      /\ Offering /\ InputsHaveCome
  BY DEF ForwardSent, StartCoding, CodeRow, vars, recvVars, taskVars, sendVars, IInv
<1>2. \/ UNCHANGED <<stage, row, unsent, buffered>>
      \/ \E c \in Codecs, n \in Serials : StartCoding(<<c, n>>) \/ CodeRow(<<c, n>>)
  <2>1. ASSUME NEW t \in Tasks, StartCoding(t) \/ CodeRow(t)
        PROVE  \E c \in Codecs, n \in Serials : StartCoding(<<c, n>>) \/ CodeRow(<<c, n>>)
    <3>1. PICK c \in Codecs, n \in Serials : t = <<c, n>>
      BY DEF Tasks
    <3> QED
      BY <2>1, <3>1
  <2>2. ASSUME (\E p \in Paths : ForwardSent(p)) \/ UNCHANGED vars
        PROVE  UNCHANGED <<stage, row, unsent, buffered>>
    BY <2>2 DEF ForwardSent, vars, taskVars, sendVars
  <2> QED
    BY <2>1, <2>2
<1>3. CASE UNCHANGED <<stage, row, unsent, buffered>>
  <2>1. Types'
    BY <1>1, <1>3 DEF IInv, Types
  <2>2. Offering' /\ InputsHaveCome' /\ OpenIsIncomplete'
    BY <1>1, <1>3 DEF IInv, Offering, InputsHaveCome, OpenIsIncomplete
  <2>3. ReleasesOfOneTask'
    BY <1>1, <1>3 DEF IInv, ReleasesOfOneTask
  <2>4. OutputsOfTasks'
    BY <1>1, <1>3, SameOutputs DEF IInv, OutputsOfTasks
  <2>5. Counted'
    BY <1>1, <1>3, SameCounted DEF IInv, Holds, TasksWith, ReleasersOf
  <2> QED
    BY <2>1, <2>2, <2>3, <2>4, <2>5 DEF IInv
<1>4. ASSUME NEW c \in Codecs, NEW n \in Serials, StartCoding(<<c, n>>) \/ CodeRow(<<c, n>>)
      PROVE  IInv'
  <2>1. /\ stage' \in [Tasks -> {"open", "ready", "coding", "done"}]
        /\ row' \in [Tasks -> Nat] /\ unsent' \in [Tasks -> Nat] /\ buffered' \subseteq Outputs
        /\ \A t \in Tasks : stage'[t] = "open" <=> stage[t] = "open"
        /\ \A t \in Tasks : stage'[t] = "done" <=> stage[t] = "done"
    <3>1. CASE StartCoding(<<c, n>>)
      BY <3>1 DEF StartCoding, InitialUnsent, IInv, Types, Tasks, sendVars, CodecPipelineAssumption
    <3>2. CASE CodeRow(<<c, n>>)
      <4>1. row[<<c, n>>] \in 1 .. Rows[c]
        BY <3>2 DEF CodeRow, IInv, Types, Tasks, OutputsOfTasks, TaskOutputs, CodecPipelineAssumption
      <4>2. <<<<c, row[<<c, n>>]>>, n>> \in Outputs
        BY <4>1, OutputPairs DEF Outputs
      <4>3. /\ buffered' = buffered \cup {<<<<c, row[<<c, n>>]>>, n>>}
            /\ row' = [row EXCEPT ![<<c, n>>] = @ + 1] /\ stage' = stage /\ unsent' = unsent
        BY <3>2 DEF CodeRow
      <4>4. row' \in [Tasks -> Nat]
        BY <4>3 DEF IInv, Types, Tasks
      <4> QED
        BY <4>2, <4>3, <4>4 DEF IInv, Types
    <3> QED
      BY <1>4, <3>1, <3>2
  <2>2. Types'
    BY <1>1, <2>1 DEF IInv, Types
  <2>3. Offering' /\ InputsHaveCome' /\ OpenIsIncomplete'
    BY <1>1, <2>1 DEF IInv, Offering, InputsHaveCome, OpenIsIncomplete, Tasks
  <2>4. ReleasesOfOneTask'
    BY <1>1, <2>1 DEF IInv, ReleasesOfOneTask, Tasks
  <2>5. OutputsOfTasks'
    <3> DEFINE t == <<c, n>>
    <3>1. TaskOutputs(c, n) /\ t \in Tasks /\ Rows[c] \in Nat /\ n \in Nat /\ row[t] \in Nat
          /\ \A i \in 1 .. Rows[c] : sentUpTo[<<c, i>>] \in Nat
      BY OutputPairs, SerialType DEF IInv, OutputsOfTasks, Types, Tasks, CodecPipelineAssumption
    <3>2. CASE StartCoding(t)
      <4>1. /\ stage[t] = "ready" /\ stage' = [stage EXCEPT ![t] = "coding"]
            /\ row' = [row EXCEPT ![t] = 1] /\ unsent' = [unsent EXCEPT ![t] = Rows[c]]
            /\ buffered' = buffered
        BY <3>2 DEF StartCoding, InitialUnsent, sendVars
      <4>2. /\ stage'[t] = "coding" /\ row'[t] = 1 /\ unsent'[t] = Rows[c]
        BY <3>1, <4>1 DEF IInv, Types
      <4>3. \A i \in 1 .. Rows[c] : ~(n <= sentUpTo[<<c, i>>]) /\ sentUpTo[<<c, i>>] < n
        <5>1. \A i \in 1 .. Rows[c] : ~(n <= sentUpTo[<<c, i>>])
          BY <3>1, <4>1, RowOutput
        <5> QED
          BY <5>1, <3>1, NotAfter
      <4>4. Left(c, n)' = 1 .. Rows[c]
        BY <1>1, <4>2, <4>3 DEF Left
      <4>5. Cardinality(1 .. Rows[c]) = Rows[c]
        BY <3>1, UpTo
      <4>6. TaskOutputs(c, n)'
        <5>1. \A i \in 1 .. Rows[c] : <<<<c, i>>, n>> \in buffered => storeAndForward
          BY <3>1, <4>1, RowOutput
        <5>2. row'[t] >= 1 /\ \A i \in 1 .. Rows[c] : ~(i < row'[t])
          BY <4>2
        <5> QED
          BY <1>1, <4>1, <4>2, <4>3, <4>4, <4>5, <5>1, <5>2, Zenon DEF TaskOutputs
      <4>7. ASSUME NEW d \in Codecs, NEW m \in Serials, <<d, m>> # t
            PROVE  TaskOutputs(d, m)'
        <5>1. /\ stage'[<<d, m>>] = stage[<<d, m>>] /\ row'[<<d, m>>] = row[<<d, m>>]
              /\ unsent'[<<d, m>>] = unsent[<<d, m>>]
          BY <4>1, <4>7 DEF IInv, Types, Tasks
        <5> QED
          BY <1>1, <4>1, <5>1, SameOutputs DEF IInv, OutputsOfTasks
      <4> QED
        BY <4>6, <4>7 DEF OutputsOfTasks
    <3>3. CASE CodeRow(t)
      <4>1. /\ buffered' = buffered \cup {<<<<c, row[t]>>, n>>}
            /\ row' = [row EXCEPT ![t] = @ + 1] /\ stage' = stage /\ unsent' = unsent
            /\ ~storeAndForward /\ stage[t] = "coding" /\ row[t] <= Rows[c]
        BY <3>3 DEF CodeRow
      <4>2. row'[t] = row[t] + 1 /\ row[t] >= 1
        BY <3>1, <4>1 DEF IInv, Types, TaskOutputs
      <4>3. Left(c, n)' = Left(c, n)
        BY <1>1, <4>1 DEF Left
      <4>4. TaskOutputs(c, n)'
        <5>1. ASSUME NEW i \in 1 .. Rows[c], n <= sentUpTo[<<c, i>>]
              PROVE  i < row'[t]
          <6>1. i < row[t]
            BY <3>1, <5>1, RowOutput
          <6>2. i \in Nat
            BY <3>1
          <6> QED
            BY <6>1, <6>2, <3>1, <4>2, Later
        <5>2. ASSUME NEW i \in 1 .. Rows[c], <<<<c, i>>, n>> \in buffered'
              PROVE  i < row'[t] /\ sentUpTo[<<c, i>>] < n
          <6>1. CASE i = row[t]
            <7>1. ~(i < row[t]) /\ i < row'[t]
              BY <6>1, <3>1, <4>2
            <7>2. ~(n <= sentUpTo[<<c, i>>])
              BY <7>1, <3>1, RowOutput
            <7> QED
              BY <7>1, <7>2, <3>1, NotAfter
          <6>2. CASE i # row[t]
            <7>1. <<<<c, i>>, n>> \in buffered
              BY <5>2, <6>2, <4>1
            <7>2. i < row[t] /\ sentUpTo[<<c, i>>] < n /\ i \in Nat
              BY <7>1, <3>1, <4>1, RowOutput
            <7> QED
              BY <7>2, <3>1, <4>2, Later
          <6> QED
            BY <6>1, <6>2
        <5> QED
          <6>1. row'[t] >= 1 /\ unsent[t] = Cardinality(Left(c, n))
            BY <3>1, <4>1, <4>2 DEF TaskOutputs
          <6> QED
            BY <1>1, <4>1, <4>3, <5>1, <5>2, <6>1, Zenon DEF TaskOutputs
      <4>5. ASSUME NEW d \in Codecs, NEW m \in Serials, <<d, m>> # t
            PROVE  TaskOutputs(d, m)'
        <5>1. row'[<<d, m>>] = row[<<d, m>>]
          BY <4>1, <4>5 DEF IInv, Types, Tasks
        <5>2. \A i \in 1 .. Rows[d] : <<<<d, i>>, m>> \in buffered' <=> <<<<d, i>>, m>> \in buffered
          BY <4>1, <4>5
        <5> QED
          BY <1>1, <4>1, <5>1, <5>2, SameOutputs DEF IInv, OutputsOfTasks
      <4> QED
        BY <4>4, <4>5 DEF OutputsOfTasks
    <3> QED
      BY <1>4, <3>2, <3>3
  <2>6. Counted'
    <3>1. \A x \in Paths \X Serials : TasksWith(x)' = TasksWith(x)
      BY <1>1, <2>1 DEF TasksWith, Tasks
    <3> QED
      BY <1>1, <3>1, SameCounted DEF IInv, Holds, ReleasersOf
  <2> QED
    BY <2>2, <2>3, <2>4, <2>5, <2>6 DEF IInv
<1> QED
  BY <1>2, <1>3, <1>4

(* Who is to release a packet finished a task that had it. *)
LEMMA ReleasersTask ==
  ASSUME Types, ReleasesOfOneTask, OpenIsIncomplete, NEW p, NEW m, NEW o \in ReleasersOf(<<p, m>>)
  PROVE  \E c \in Codecs : \E i \in 1 .. Rows[c] :
           /\ o = <<<<c, i>>, m>> /\ stage[<<c, m>>] = "done"
           /\ p \in InputSet(c) /\ p \in received[<<c, m>>]
<1>1. o \in Outputs /\ <<p, m>> \in ToSet(releasing[o])
  BY DEF ReleasersOf
<1>2. PICK c \in Codecs : \E i \in 1 .. Rows[c] : \E n \in Serials : o = <<<<c, i>>, n>>
  BY <1>1, OutputPairs DEF Outputs
<1>3. PICK i \in 1 .. Rows[c], n \in Serials : o = <<<<c, i>>, n>>
  BY <1>2
<1> DEFINE q == releasing[o]
<1>4. q \in Seq(Paths \X Serials)
  BY <1>1 DEF Types
<1>5. InputsOnce(q, c, n) /\ (q # <<>> => stage[<<c, n>>] = "done")
  BY <1>3, Zenon DEF ReleasesOfOneTask
<1>6. <<p, m>> \in ToSet(q)
  BY <1>1
<1> HIDE DEF q
<1>7. PICK j \in 1 .. Len(q) : q[j] = <<p, m>>
  BY <1>4, <1>6, InToSet
<1>8. q # <<>>
  BY <1>4, <1>7
<1>9. <<p, m>> \in InputSet(c) \X {n}
  BY <1>5, <1>7 DEF InputsOnce
<1>10. p \in InputSet(c) /\ m = n /\ stage[<<c, n>>] = "done"
  BY <1>5, <1>8, <1>9
<1>11. received[<<c, n>>] = InputSet(c)
  BY <1>10 DEF OpenIsIncomplete
<1> QED
  BY <1>3, <1>10, <1>11

(* Setting a count. *)
LEMMA SetCount ==
  ASSUME Types, NEW y \in Paths \X Serials, NEW k \in Nat, count' = [count EXCEPT ![y] = k]
  PROVE  /\ count' \in [Paths \X Serials -> Nat] /\ count'[y] = k
         /\ \A x \in Paths \X Serials : x # y => count'[x] = count[x]
BY DEF Types

(* What a receive thread counts for. *)
LEMMA HoldsOf ==
  ASSUME Types, NEW p \in Paths, NEW m
  PROVE  /\ serial[p] # m => Holds(<<p, m>>) = 0
         /\ serial[p] = m /\ at[p] = "waiting" => Holds(<<p, m>>) = 0
         /\ serial[p] = m /\ at[p] = "offering" => Holds(<<p, m>>) = 1
         /\ serial[p] = m /\ at[p] = "inserting" => Holds(<<p, m>>) = 2
         /\ serial'[p] # m => Holds(<<p, m>>)' = 0
         /\ serial'[p] = m /\ at'[p] = "waiting" => Holds(<<p, m>>)' = 0
         /\ serial'[p] = m /\ at'[p] = "offering" => Holds(<<p, m>>)' = 1
         /\ serial'[p] = m /\ at'[p] = "inserting" => Holds(<<p, m>>)' = 2
         /\ serial'[p] = serial[p] /\ at'[p] = at[p] => Holds(<<p, m>>)' = Holds(<<p, m>>)
<1>1. <<p, m>>[1] = p /\ <<p, m>>[2] = m
  OBVIOUS
<1>2. /\ serial[p] # m => Holds(<<p, m>>) = 0
      /\ serial[p] = m /\ at[p] = "waiting" => Holds(<<p, m>>) = 0
      /\ serial[p] = m /\ at[p] = "offering" => Holds(<<p, m>>) = 1
      /\ serial[p] = m /\ at[p] = "inserting" => Holds(<<p, m>>) = 2
  BY <1>1 DEF Holds
<1>3. /\ serial'[p] # m => Holds(<<p, m>>)' = 0
      /\ serial'[p] = m /\ at'[p] = "waiting" => Holds(<<p, m>>)' = 0
      /\ serial'[p] = m /\ at'[p] = "offering" => Holds(<<p, m>>)' = 1
      /\ serial'[p] = m /\ at'[p] = "inserting" => Holds(<<p, m>>)' = 2
  BY <1>1 DEF Holds
<1>4. at[p] \in {"waiting", "offering", "inserting"}
  BY DEF Types
<1> QED
  BY <1>2, <1>3, <1>4

(* A receive thread that goes on with its packet holds no other. *)
LEMMA OtherHolds ==
  ASSUME Types, NEW p \in Paths, NEW n \in Serials, n = serial[p], serial' = serial,
         \A q \in Paths : q # p => at'[q] = at[q],
         NEW x \in Paths \X Serials, x # <<p, n>>
  PROVE  Holds(x)' = Holds(x)
<1>1. PICK q \in Paths, m \in Serials : x = <<q, m>>
  OBVIOUS
<1>2. Holds(<<q, m>>)' = Holds(<<q, m>>)
  <2>1. CASE q = p
    <3>1. serial[p] # m /\ serial'[p] # m
      BY <1>1, <2>1
    <3> QED
      BY <2>1, <3>1, HoldsOf
  <2>2. CASE q # p
    BY <2>2, HoldsOf
  <2> QED
    BY <2>1, <2>2
<1> QED
  BY <1>1, <1>2

(* Nobody needs a packet that has not come. *)
LEMMA NotYetLive ==
  ASSUME CodecPipelineAssumption, IInv, NEW p \in Paths, NEW n \in Serials, serial[p] < n
  PROVE  TasksWith(<<p, n>>) = {} /\ ReleasersOf(<<p, n>>) = {} /\ <<p, n>> \notin live
<1>1. serial[p] \in Nat /\ n \in Nat /\ ~(n <= serial[p]) /\ serial[p] # n
  BY SerialType DEF IInv, Types
<1>2. \A c \in Codecs : p \notin received[<<c, n>>]
  BY <1>1 DEF IInv, InputsHaveCome
<1>3. TasksWith(<<p, n>>) = {}
  BY <1>2 DEF TasksWith
<1>4. ReleasersOf(<<p, n>>) = {}
  BY <1>2, ReleasersTask DEF IInv
<1>5. Holds(<<p, n>>) = 0
  BY <1>1, HoldsOf DEF IInv
<1>6. Cardinality({}) = 0 /\ 0 + 0 + 0 = 0 /\ ~(0 > 0)
  BY FS_EmptySet
<1>7. count[<<p, n>>] = 0
  BY <1>3, <1>4, <1>5, <1>6 DEF IInv, Counted, Needed
<1>8. <<p, n>> \notin live
  BY <1>6, <1>7 DEF IInv, Counted
<1> QED
  BY <1>3, <1>4, <1>8

(* A new packet of a path: nobody has heard of it yet. *)
LEMMA ReceiveInv ==
  ASSUME CodecPipelineAssumption, IInv, NEW p \in Paths, Receive(p)
  PROVE  IInv'
<1>1. PICK n \in Serials :
         /\ at[p] = "waiting" /\ serial[p] \in Nat /\ n \in Nat /\ n = serial[p] + 1
         /\ serial' = [serial EXCEPT ![p] = n]
  <2>1. serial[p] \in Nat /\ MaxSerial[p] \in Nat /\ serial[p] < MaxSerial[p]
    BY DEF Receive, IInv, Types, CodecPipelineAssumption
  <2>2. serial[p] + 1 \in 1 .. MaxSerial[p]
    BY <2>1
  <2>3. serial[p] + 1 \in Serials
    BY <2>2 DEF Serials
  <2>4. serial' = [serial EXCEPT ![p] = serial[p] + 1] /\ at[p] = "waiting"
    BY DEF Receive
  <2>5. serial[p] + 1 \in Nat
    BY <2>1
  <2> QED
    BY <2>1, <2>3, <2>4, <2>5, Zenon
<1>2. /\ at[p] = "waiting" /\ serial[p] \in Nat /\ n \in Nat /\ serial[p] < n
      /\ serial'[p] = n
      /\ \A q \in Paths : q # p => serial'[q] = serial[q]
      /\ UNCHANGED <<storeAndForward, taskVars, sendVars>>
  BY <1>1 DEF Receive, IInv, Types
<1>3. \/ p \in Forwarding /\ UNCHANGED <<at, offered, count, live>>
      \/ /\ p \notin Forwarding
         /\ at' = [at EXCEPT ![p] = "offering"]
         /\ offered' = [offered EXCEPT ![p] = 0]
         /\ count' = [count EXCEPT ![<<p, n>>] = 1]
         /\ live' = live \cup {<<p, n>>}
  BY <1>2, <1>1 DEF Receive, Hold
<1>4. Types'
  <2>1. Len(CodecList) \in Nat
    BY DEF CodecPipelineAssumption
  <2>2. serial' \in [Paths -> Nat]
    BY <1>1 DEF IInv, Types
  <2>3. /\ at' \in [Paths -> {"waiting", "offering", "inserting"}]
        /\ offered' \in [Paths -> 0 .. Len(CodecList)]
    <3>1. 0 \in 0 .. Len(CodecList)
      BY <2>1
    <3>2. /\ at' = at \/ at' = [at EXCEPT ![p] = "offering"]
          /\ offered' = offered \/ offered' = [offered EXCEPT ![p] = 0]
      BY <1>3
    <3> QED
      BY <3>1, <3>2 DEF IInv, Types
  <2>4. count' \in [Paths \X Serials -> Nat] /\ live' \subseteq Paths \X Serials
    <3>1. <<p, n>> \in Paths \X Serials
      BY <1>2
    <3>2. live' = live \/ live' = live \cup {<<p, n>>}
      BY <1>3
    <3>3. CASE count' = count
      BY <3>1, <3>2, <3>3 DEF IInv, Types
    <3>4. CASE count' = [count EXCEPT ![<<p, n>>] = 1]
      <4>1. 1 \in Nat
        OBVIOUS
      <4>2. count' \in [Paths \X Serials -> Nat]
        BY <3>1, <3>4, <4>1, SetCount DEF IInv
      <4> QED
        BY <3>1, <3>2, <4>2 DEF IInv, Types
    <3> QED
      BY <1>3, <3>3, <3>4
  <2> QED
    BY <1>2, <2>2, <2>3, <2>4 DEF IInv, Types, taskVars, sendVars
<1>5. /\ \A q \in Paths : q # p => at'[q] = at[q] /\ offered'[q] = offered[q]
      /\ at'[p] \in {"waiting", "offering"}
      /\ at'[p] = "offering" => p \notin Forwarding
  BY <1>2, <1>3 DEF IInv, Types
<1>6. Offering'
  BY <1>2, <1>5 DEF IInv, Offering
<1>7. InputsHaveCome'
  <2> SUFFICES ASSUME NEW q \in Paths, NEW c \in Codecs, NEW m \in Serials, q \in received[<<c, m>>]
               PROVE  /\ q \in InputSet(c) /\ m <= serial'[q]
                      /\ m = serial'[q] /\ at'[q] # "waiting" =>
                           \A k \in 1 .. Len(CodecList) : CodecList[k] = c =>
                             k <= offered'[q] /\ (at'[q] = "inserting" => k # offered'[q])
    BY <1>2 DEF InputsHaveCome, taskVars
  <2>1. q \in InputSet(c) /\ m <= serial[q]
    BY DEF IInv, InputsHaveCome
  <2>2. CASE q = p
    <3>1. m <= n /\ m # n
      <4>1. m \in Nat /\ m <= serial[p]
        BY <2>1, <2>2, SerialType
      <4> QED
        BY <4>1, <1>2
    <3> QED
      BY <2>1, <2>2, <3>1, <1>2
  <2>3. CASE q # p
    BY <2>3, <1>2, <1>5 DEF IInv, InputsHaveCome
  <2> QED
    BY <2>2, <2>3
<1>8. OpenIsIncomplete' /\ ReleasesOfOneTask'
  BY <1>2 DEF IInv, OpenIsIncomplete, ReleasesOfOneTask, taskVars, sendVars
<1>9. OutputsOfTasks'
  BY <1>2, SameOutputs DEF IInv, OutputsOfTasks, taskVars, sendVars
<1>10. Counted'
  <2>1. \A x \in Paths \X Serials :
          TasksWith(x)' = TasksWith(x) /\ ReleasersOf(x)' = ReleasersOf(x)
    BY <1>2 DEF TasksWith, ReleasersOf, taskVars, sendVars
  <2>2. ASSUME NEW x \in Paths \X Serials, x # <<p, n>>
        PROVE  Holds(x)' = Holds(x)
    <3>1. PICK q \in Paths, m \in Serials : x = <<q, m>>
      OBVIOUS
    <3>2. CASE q = p
      <4>1. m # n
        BY <2>2, <3>1, <3>2
      <4>2. Holds(<<p, m>>)' = 0
        BY <4>1, <1>2, HoldsOf DEF IInv
      <4>3. Holds(<<p, m>>) = 0
        BY <1>2, HoldsOf DEF IInv
      <4> QED
        BY <3>1, <3>2, <4>2, <4>3
    <3>3. CASE q # p
      BY <3>1, <3>3, <1>2, <1>5, HoldsOf DEF IInv
    <3> QED
      BY <3>2, <3>3
  <2>3. CASE UNCHANGED <<at, offered, count, live>>
    <3>1. Holds(<<p, n>>)' = Holds(<<p, n>>)
      <4>1. serial[p] # n /\ at'[p] = "waiting"
        BY <1>2, <2>3
      <4> QED
        BY <4>1, <1>2, HoldsOf DEF IInv
    <3>2. \A x \in Paths \X Serials : Holds(x)' = Holds(x)
      BY <2>2, <3>1
    <3> QED
      BY <2>1, <2>3, <3>2, SameCounted DEF IInv
  <2>4. CASE /\ at' = [at EXCEPT ![p] = "offering"]
             /\ count' = [count EXCEPT ![<<p, n>>] = 1]
             /\ live' = live \cup {<<p, n>>}
    <3>1. ASSUME NEW x \in Paths \X Serials, x # <<p, n>>
          PROVE  count'[x] = count[x] /\ (x \in live' <=> x \in live)
      BY <2>4, <3>1 DEF IInv, Types
    <3>2. /\ Holds(<<p, n>>)' = 1 /\ count'[<<p, n>>] = 1 /\ <<p, n>> \in live'
      <4>1. at'[p] = "offering"
        BY <2>4 DEF IInv, Types
      <4>2. Holds(<<p, n>>)' = 1
        BY <1>2, <4>1, HoldsOf DEF IInv
      <4>3. <<p, n>> \in Paths \X Serials
        BY <1>2
      <4>4. count'[<<p, n>>] = 1
        BY <2>4, <4>3, SetCount DEF IInv
      <4> QED
        BY <2>4, <4>2, <4>4
    <3>4. TasksWith(<<p, n>>) = {} /\ ReleasersOf(<<p, n>>) = {}
      BY <1>2, NotYetLive
    <3>6. IsFiniteSet({}) /\ Cardinality({}) = 0 /\ 1 = 1 + 0 + 0 /\ 1 > 0
      BY FS_EmptySet
    <3>7. ASSUME NEW x \in Paths \X Serials
          PROVE  /\ IsFiniteSet(TasksWith(x)') /\ IsFiniteSet(ReleasersOf(x)')
                 /\ count'[x] = Needed(x)'
                 /\ x \in live' <=> count'[x] > 0
      <4>1. CASE x = <<p, n>>
        <5>1. TasksWith(x)' = {} /\ ReleasersOf(x)' = {}
          BY <4>1, <2>1, <3>4
        <5>2. Needed(x)' = Holds(x)' + Cardinality(TasksWith(x)') + Cardinality(ReleasersOf(x)')
          BY DEF Needed
        <5>3. IsFiniteSet(TasksWith(x)') /\ IsFiniteSet(ReleasersOf(x)')
          BY <5>1, <3>6
        <5>4. Holds(x)' = 1 /\ count'[x] = 1 /\ x \in live'
          BY <4>1, <3>2
        <5>5. Cardinality(TasksWith(x)') = 0 /\ Cardinality(ReleasersOf(x)') = 0
          BY <5>1, <3>6
        <5>6. Needed(x)' = 1
          BY <5>2, <5>4, <5>5, <3>6
        <5> QED
          BY <5>3, <5>4, <5>6
      <4>2. CASE x # <<p, n>>
        BY <4>2, <2>1, <2>2, <3>1, Zenon DEF Needed, Counted, IInv
      <4> QED
        BY <4>1, <4>2
    <3> QED
      BY <3>7 DEF Counted
  <2> QED
    BY <1>3, <2>3, <2>4
<1> QED
  BY <1>4, <1>6, <1>7, <1>8, <1>9, <1>10 DEF IInv

(* A step that changes who needs one packet. *)
LEMMA OneCounted ==
  ASSUME Counted, NEW y \in Paths \X Serials,
         \A x \in Paths \X Serials : x # y =>
           /\ count'[x] = count[x] /\ (x \in live' <=> x \in live)
           /\ Holds(x)' = Holds(x)
           /\ TasksWith(x)' = TasksWith(x) /\ ReleasersOf(x)' = ReleasersOf(x),
         IsFiniteSet(TasksWith(y)'), IsFiniteSet(ReleasersOf(y)'),
         count'[y] = Holds(y)' + Cardinality(TasksWith(y)') + Cardinality(ReleasersOf(y)'),
         y \in live' <=> count'[y] > 0
  PROVE  Counted'
<1> SUFFICES ASSUME NEW x \in Paths \X Serials
             PROVE  /\ IsFiniteSet(TasksWith(x)') /\ IsFiniteSet(ReleasersOf(x)')
                    /\ count'[x] = Holds(x)' + Cardinality(TasksWith(x)') + Cardinality(ReleasersOf(x)')
                    /\ x \in live' <=> count'[x] > 0
  BY Zenon DEF Counted, Needed
<1>1. CASE x = y
  BY <1>1
<1>2. CASE x # y
  BY <1>2, Zenon DEF Counted, Needed
<1> QED
  BY <1>1, <1>2

(* The next codec takes the packet that is offered. *)
LEMMA CountTaskInv ==
  ASSUME CodecPipelineAssumption, IInv, NEW p \in Paths, CountTask(p)
  PROVE  IInv'
<1>1. /\ at[p] = "offering" /\ at' = [at EXCEPT ![p] = "inserting"]
      /\ UNCHANGED <<storeAndForward, serial, live, received, stage, row, unsent>>
      /\ UNCHANGED <<buffered, sentUpTo, releasing>>
  BY DEF CountTask, taskVars, sendVars
<1>2. PICK k \in 1 .. Len(CodecList) :
        /\ offered[p] < k /\ p \in InputSet(CodecList[k])
        /\ offered' = [offered EXCEPT ![p] = k]
  <2>1. offered[p] \in Nat /\ Len(CodecList) \in Nat
    BY DEF IInv, Types, CodecPipelineAssumption
  <2>2. PICK k \in Ahead(p) : offered' = [offered EXCEPT ![p] = k]
    BY DEF CountTask
  <2>3. k \in 1 .. Len(CodecList) /\ offered[p] < k /\ p \in InputSet(CodecList[k])
    BY <2>1 DEF Ahead
  <2> QED
    BY <2>2, <2>3
<1>3. PICK n \in Serials : n = serial[p] /\ p \notin Forwarding
  BY <1>1 DEF IInv, Offering
<1>4. /\ <<p, n>> \in Paths \X Serials /\ count[<<p, n>>] \in Nat /\ count[<<p, n>>] + 1 \in Nat
      /\ count' = [count EXCEPT ![<<p, n>>] = count[<<p, n>>] + 1]
  <2>1. <<p, n>> \in Paths \X Serials
    OBVIOUS
  <2>2. count[<<p, n>>] \in Nat
    BY <2>1 DEF IInv, Types
  <2> QED
    BY <1>3, <2>1, <2>2 DEF CountTask
<1>5. /\ at'[p] = "inserting" /\ offered'[p] = k /\ serial'[p] = n
      /\ \A q \in Paths : q # p => at'[q] = at[q] /\ offered'[q] = offered[q]
  BY <1>1, <1>2, <1>3 DEF IInv, Types
<1>6. Types'
  <2>1. /\ at' \in [Paths -> {"waiting", "offering", "inserting"}]
        /\ offered' \in [Paths -> 0 .. Len(CodecList)]
    BY <1>1, <1>2 DEF IInv, Types
  <2>2. count' \in [Paths \X Serials -> Nat]
    BY <1>4, SetCount DEF IInv
  <2> QED
    BY <1>1, <2>1, <2>2 DEF IInv, Types
<1>7. Offering'
  BY <1>1, <1>2, <1>3, <1>5 DEF IInv, Offering
<1>8. InputsHaveCome'
  <2> SUFFICES ASSUME NEW q \in Paths, NEW c \in Codecs, NEW m \in Serials, q \in received[<<c, m>>],
                      m = serial[q], at'[q] # "waiting",
                      NEW j \in 1 .. Len(CodecList), CodecList[j] = c
               PROVE  j <= offered'[q] /\ (at'[q] = "inserting" => j # offered'[q])
    BY <1>1 DEF IInv, InputsHaveCome
  <2>1. CASE q = p
    <3>1. j <= offered[p] /\ offered[p] \in Nat
      BY <1>1, <2>1 DEF IInv, InputsHaveCome, Types
    <3> QED
      BY <1>2, <1>5, <2>1, <3>1
  <2>2. CASE q # p
    BY <1>5, <2>2 DEF IInv, InputsHaveCome
  <2> QED
    BY <2>1, <2>2
<1>9. OpenIsIncomplete' /\ ReleasesOfOneTask'
  BY <1>1 DEF IInv, OpenIsIncomplete, ReleasesOfOneTask
<1>10. OutputsOfTasks'
  BY <1>1, SameOutputs DEF IInv, OutputsOfTasks
<1>11. Counted'
  <2> DEFINE y == <<p, n>>
  <2>1. \A x \in Paths \X Serials :
          TasksWith(x)' = TasksWith(x) /\ ReleasersOf(x)' = ReleasersOf(x)
    BY <1>1 DEF TasksWith, ReleasersOf
  <2>2. Holds(y) = 1 /\ Holds(y)' = 2
    BY <1>1, <1>3, <1>5, HoldsOf DEF IInv
  <2>3. ASSUME NEW x \in Paths \X Serials, x # y
        PROVE  count'[x] = count[x] /\ Holds(x)' = Holds(x) /\ (x \in live' <=> x \in live)
    <3>1. Holds(x)' = Holds(x)
      BY <1>1, <1>3, <1>5, <2>3, OtherHolds DEF IInv
    <3>2. count'[x] = count[x]
      BY <1>4, <2>3, SetCount DEF IInv
    <3> QED
      BY <1>1, <3>1, <3>2
  <2>4. /\ IsFiniteSet(TasksWith(y)') /\ IsFiniteSet(ReleasersOf(y)')
        /\ count'[y] = Holds(y)' + Cardinality(TasksWith(y)') + Cardinality(ReleasersOf(y)')
        /\ y \in live' <=> count'[y] > 0
    <3>1. count'[y] = count[y] + 1
      BY <1>4, SetCount DEF IInv
    <3>2. /\ Cardinality(TasksWith(y)) \in Nat /\ Cardinality(ReleasersOf(y)) \in Nat
          /\ count[y] = Holds(y) + Cardinality(TasksWith(y)) + Cardinality(ReleasersOf(y))
          /\ IsFiniteSet(TasksWith(y)) /\ IsFiniteSet(ReleasersOf(y))
          /\ y \in live <=> count[y] > 0
      BY <1>4, NeededType DEF IInv, Counted
    <3>3. TasksWith(y)' = TasksWith(y) /\ ReleasersOf(y)' = ReleasersOf(y)
      BY <1>4, <2>1
    <3>4. count[y] > 0 /\ count'[y] > 0
      BY <2>2, <3>1, <3>2
    <3>5. y \in live'
      BY <1>1, <3>2, <3>4
    <3>6. count'[y] = Holds(y)' + Cardinality(TasksWith(y)) + Cardinality(ReleasersOf(y))
      BY <2>2, <3>1, <3>2
    <3> QED
      BY <3>2, <3>3, <3>4, <3>5, <3>6
  <2> QED
    BY <1>4, <2>1, <2>3, <2>4, OneCounted DEF IInv
<1> QED
  BY <1>6, <1>7, <1>8, <1>9, <1>10, <1>11 DEF IInv

(* The packet joins the task it has been counted for. *)
LEMMA InsertInputInv ==
  ASSUME CodecPipelineAssumption, IInv, NEW p \in Paths, InsertInput(p)
  PROVE  IInv'
<1>1. /\ at[p] = "inserting" /\ at' = [at EXCEPT ![p] = "offering"]
      /\ UNCHANGED <<storeAndForward, offered, serial, count, live, row, unsent>>
      /\ UNCHANGED <<buffered, sentUpTo, releasing>>
  BY DEF InsertInput, sendVars
<1>2. PICK k \in 1 .. Len(CodecList), c \in Codecs, n \in Serials :
        k = offered[p] /\ c = CodecList[k] /\ n = serial[p] /\ p \in InputSet(c)
  <2>1. offered[p] \in 1 .. Len(CodecList) /\ p \in InputSet(CodecList[offered[p]])
        /\ serial[p] \in Serials
    BY <1>1 DEF IInv, Offering
  <2>2. CodecList[offered[p]] \in Codecs
    BY <2>1 DEF CodecPipelineAssumption
  <2> QED
    BY <2>1, <2>2
<1> DEFINE t == <<c, n>>
           y == <<p, n>>
<1>3. t \in Tasks /\ y \in Paths \X Serials
  BY DEF Tasks
<1>4. /\ received' = [received EXCEPT ![t] = @ \cup {p}]
      /\ stage' = [stage EXCEPT ![t] = IF received'[t] = InputSet(c) THEN "ready" ELSE @]
  BY <1>2 DEF InsertInput
<1>5. p \notin received[t] /\ stage[t] = "open"
  <2>1. p \notin received[t]
    BY <1>1, <1>2 DEF IInv, InputsHaveCome
  <2> QED
    BY <1>2, <2>1 DEF IInv, OpenIsIncomplete
<1> HIDE DEF t, y
<1>6. /\ received' \in [Tasks -> SUBSET Paths]
      /\ stage' \in [Tasks -> {"open", "ready", "coding", "done"}]
      /\ received'[t] = received[t] \cup {p}
      /\ stage'[t] = IF received'[t] = InputSet(c) THEN "ready" ELSE "open"
      /\ \A u \in Tasks : u # t => received'[u] = received[u] /\ stage'[u] = stage[u]
  <2>1. /\ received \in [Tasks -> SUBSET Paths]
        /\ stage \in [Tasks -> {"open", "ready", "coding", "done"}]
    BY DEF IInv, Types
  <2>2. /\ received' \in [Tasks -> SUBSET Paths]
        /\ received'[t] = received[t] \cup {p}
        /\ \A u \in Tasks : u # t => received'[u] = received[u]
    BY <1>3, <1>4, <2>1
  <2>3. /\ stage' \in [Tasks -> {"open", "ready", "coding", "done"}]
        /\ stage'[t] = IF received'[t] = InputSet(c) THEN "ready" ELSE "open"
        /\ \A u \in Tasks : u # t => stage'[u] = stage[u]
    BY <1>3, <1>4, <1>5, <2>1
  <2> QED
    BY <2>2, <2>3
<1>7. at'[p] = "offering" /\ \A q \in Paths : q # p => at'[q] = at[q]
  BY <1>1 DEF IInv, Types
<1>8. Types'
  <2>1. at' \in [Paths -> {"waiting", "offering", "inserting"}]
    BY <1>1 DEF IInv, Types
  <2> QED
    BY <1>1, <1>6, <2>1 DEF IInv, Types
<1>9. Offering'
  BY <1>1, <1>7 DEF IInv, Offering
<1>10. InputsHaveCome'
  <2> SUFFICES ASSUME NEW q \in Paths, NEW d \in Codecs, NEW m \in Serials, q \in received'[<<d, m>>]
               PROVE  /\ q \in InputSet(d) /\ m <= serial[q]
                      /\ m = serial[q] /\ at'[q] # "waiting" =>
                           \A j \in 1 .. Len(CodecList) : CodecList[j] = d =>
                             j <= offered[q] /\ (at'[q] = "inserting" => j # offered[q])
    BY <1>1 DEF InputsHaveCome
  <2>1. CASE q \in received[<<d, m>>]
    <3>1. at'[q] # "waiting" => at[q] # "waiting"
      BY <1>1, <1>7
    <3>2. at'[q] = "inserting" => at[q] = "inserting"
      BY <1>1, <1>7
    <3> QED
      BY <2>1, <3>1, <3>2 DEF IInv, InputsHaveCome
  <2>2. CASE q \notin received[<<d, m>>]
    <3>1. <<d, m>> = t /\ q = p
      BY <1>6, <2>2 DEF Tasks
    <3>2. d = c /\ m = n /\ q = p
      BY <3>1 DEF t
    <3>3. n <= serial[p]
      BY <1>2 DEF IInv, Types
    <3>4. ASSUME NEW j \in 1 .. Len(CodecList), CodecList[j] = c
          PROVE  j <= offered[p]
      <4>1. j = k
        BY <1>2, <3>4 DEF CodecPipelineAssumption, IsInjective
      <4> QED
        BY <1>2, <4>1
    <3> QED
      BY <1>2, <1>7, <3>2, <3>3, <3>4
  <2> QED
    BY <2>1, <2>2
<1>11. OpenIsIncomplete'
  <2> SUFFICES ASSUME NEW d \in Codecs, NEW m \in Serials
               PROVE  stage'[<<d, m>>] = "open" <=> received'[<<d, m>>] # InputSet(d)
    BY DEF OpenIsIncomplete
  <2>1. CASE <<d, m>> = t
    BY <1>6, <2>1 DEF t
  <2>2. CASE <<d, m>> # t
    BY <1>6, <2>2 DEF IInv, OpenIsIncomplete, Tasks
  <2> QED
    BY <2>1, <2>2
<1>12. \A u \in Tasks : stage'[u] = "done" <=> stage[u] = "done"
  BY <1>5, <1>6
<1>13. ReleasesOfOneTask'
  BY <1>1, <1>12 DEF IInv, ReleasesOfOneTask, Tasks
<1>14. OutputsOfTasks'
  <2>1. TaskOutputs(c, n)'
    <3>1. TaskOutputs(c, n)
      BY DEF IInv, OutputsOfTasks
    <3>2. \A i \in 1 .. Rows[c] :
            /\ ~(n <= sentUpTo[<<c, i>>])
            /\ <<<<c, i>>, n>> \in buffered => storeAndForward
      BY <1>5, <3>1, RowOutput DEF t
    <3>3. stage'[<<c, n>>] # "coding" /\ stage'[<<c, n>>] # "done"
      BY <1>6 DEF t
    <3> QED
      BY <1>1, <3>2, <3>3, Zenon DEF TaskOutputs
  <2>2. ASSUME NEW d \in Codecs, NEW m \in Serials, <<d, m>> # t
        PROVE  TaskOutputs(d, m)'
    <3>1. stage'[<<d, m>>] = stage[<<d, m>>]
      BY <1>6, <2>2 DEF Tasks
    <3> QED
      BY <1>1, <3>1, SameOutputs DEF IInv, OutputsOfTasks
  <2> QED
    BY <2>1, <2>2 DEF OutputsOfTasks, t
<1>15. Counted'
  <2>1. ReleasersOf(y)' = ReleasersOf(y)
    BY <1>1 DEF ReleasersOf
  <2>2. Holds(y) = 2 /\ Holds(y)' = 1
    BY <1>1, <1>2, <1>7, HoldsOf DEF IInv, y
  <2>3. c \notin TasksWith(y) /\ TasksWith(y)' = TasksWith(y) \cup {c}
    <3>1. c \notin TasksWith(<<p, n>>)
      BY <1>5 DEF TasksWith, t
    <3>2. ASSUME NEW d \in Codecs
          PROVE  /\ p \in received'[<<d, n>>] /\ stage'[<<d, n>>] # "done" <=>
                      (p \in received[<<d, n>>] /\ stage[<<d, n>>] # "done") \/ d = c
      <4>1. CASE d = c
        BY <1>3, <1>5, <1>6, <1>12, <4>1 DEF t
      <4>2. CASE d # c
        <5>1. <<d, n>> # t /\ <<d, n>> \in Tasks
          BY <4>2 DEF t, Tasks
        <5> QED
          BY <1>6, <4>2, <5>1
      <4> QED
        BY <4>1, <4>2
    <3>3. TasksWith(<<p, n>>)' = TasksWith(<<p, n>>) \cup {c}
      BY <3>2 DEF TasksWith
    <3> QED
      BY <3>1, <3>3 DEF y
  <2>4. ASSUME NEW x \in Paths \X Serials, x # y
        PROVE  /\ count'[x] = count[x] /\ Holds(x)' = Holds(x) /\ (x \in live' <=> x \in live)
               /\ TasksWith(x)' = TasksWith(x) /\ ReleasersOf(x)' = ReleasersOf(x)
    <3>1. Holds(x)' = Holds(x)
      BY <1>1, <1>2, <1>7, <2>4, OtherHolds DEF IInv, y
    <3>2. PICK q \in Paths, m \in Serials : x = <<q, m>>
      OBVIOUS
    <3>3. ASSUME NEW d \in Codecs
          PROVE  q \in received'[<<d, m>>] <=> q \in received[<<d, m>>]
      <4>1. <<d, m>> \in Tasks
        BY DEF Tasks
      <4>2. CASE <<d, m>> = t
        <5>1. q # p
          BY <2>4, <3>2, <4>2 DEF t, y
        <5> QED
          BY <1>6, <4>2, <5>1
      <4>3. CASE <<d, m>> # t
        BY <1>6, <4>1, <4>3
      <4> QED
        BY <4>2, <4>3
    <3>4. TasksWith(<<q, m>>)' = TasksWith(<<q, m>>)
      BY <1>12, <3>3 DEF TasksWith, Tasks
    <3>5. ReleasersOf(x)' = ReleasersOf(x)
      BY <1>1 DEF ReleasersOf
    <3> QED
      BY <1>1, <3>1, <3>2, <3>4, <3>5
  <2>5. /\ IsFiniteSet(TasksWith(y)') /\ IsFiniteSet(ReleasersOf(y)')
        /\ count'[y] = Holds(y)' + Cardinality(TasksWith(y)') + Cardinality(ReleasersOf(y)')
        /\ y \in live' <=> count'[y] > 0
    <3>1. /\ Cardinality(TasksWith(y)) \in Nat /\ Cardinality(ReleasersOf(y)) \in Nat
          /\ count[y] = Holds(y) + Cardinality(TasksWith(y)) + Cardinality(ReleasersOf(y))
          /\ IsFiniteSet(TasksWith(y)) /\ IsFiniteSet(ReleasersOf(y))
          /\ y \in live <=> count[y] > 0
      BY <1>3, NeededType DEF IInv, Counted
    <3>2. /\ IsFiniteSet(TasksWith(y)')
          /\ Cardinality(TasksWith(y)') = Cardinality(TasksWith(y)) + 1
      BY <2>3, <3>1, Grown
    <3>3. count[y] = Holds(y)' + (Cardinality(TasksWith(y)) + 1) + Cardinality(ReleasersOf(y))
      BY <2>2, <3>1
    <3> QED
      BY <1>1, <2>1, <3>1, <3>2, <3>3
  <2> QED
    BY <1>3, <2>4, <2>5, OneCounted DEF IInv
<1> QED
  BY <1>8, <1>9, <1>10, <1>11, <1>13, <1>14, <1>15 DEF IInv

(* All codecs have been offered the packet. *)
LEMMA DropHoldInv ==
  ASSUME CodecPipelineAssumption, IInv, NEW p \in Paths, DropHold(p)
  PROVE  IInv'
<1>1. /\ at[p] = "offering" /\ at' = [at EXCEPT ![p] = "waiting"]
      /\ UNCHANGED <<storeAndForward, offered, serial, received, stage, row, unsent>>
      /\ UNCHANGED <<buffered, sentUpTo, releasing>>
  BY DEF DropHold, taskVars, sendVars
<1>2. PICK n \in Serials : n = serial[p] /\ Release(p, n)
  BY <1>1 DEF IInv, Offering, DropHold
<1> DEFINE y == <<p, n>>
<1>3. y \in Paths \X Serials
  OBVIOUS
<1>4. at'[p] = "waiting" /\ \A q \in Paths : q # p => at'[q] = at[q]
  BY <1>1 DEF IInv, Types
<1>5. Holds(y) = 1 /\ Holds(y)' = 0
  BY <1>1, <1>2, <1>4, HoldsOf DEF IInv
<1> HIDE DEF y
<1>6. /\ Cardinality(TasksWith(y)) \in Nat /\ Cardinality(ReleasersOf(y)) \in Nat
      /\ count[y] = Holds(y) + Cardinality(TasksWith(y)) + Cardinality(ReleasersOf(y))
  BY <1>3, NeededType DEF IInv
<1>7. count[y] >= 1
  BY <1>5, <1>6
<1>8. /\ count' \in [Paths \X Serials -> Nat] /\ live' \subseteq Paths \X Serials
      /\ count'[y] = count[y] - 1
      /\ y \in live' <=> count'[y] > 0
      /\ \A x \in Paths \X Serials : x # y =>
           count'[x] = count[x] /\ (x \in live' <=> x \in live)
  BY <1>2, <1>7, Released DEF IInv, y
<1>9. Types'
  <2>1. at' \in [Paths -> {"waiting", "offering", "inserting"}]
    BY <1>1 DEF IInv, Types
  <2> QED
    BY <1>1, <1>8, <2>1 DEF IInv, Types
<1>10. Offering' /\ InputsHaveCome'
  <2>1. Offering'
    BY <1>1, <1>4 DEF IInv, Offering
  <2>2. \A q \in Paths : /\ at'[q] # "waiting" => at[q] # "waiting"
                         /\ at'[q] = "inserting" => at[q] = "inserting"
    BY <1>1, <1>4
  <2>3. InputsHaveCome'
    BY <1>1, <2>2 DEF IInv, InputsHaveCome
  <2> QED
    BY <2>1, <2>3
<1>11. OpenIsIncomplete' /\ ReleasesOfOneTask'
  BY <1>1 DEF IInv, OpenIsIncomplete, ReleasesOfOneTask
<1>12. OutputsOfTasks'
  BY <1>1, SameOutputs DEF IInv, OutputsOfTasks
<1>13. Counted'
  <2>1. \A x \in Paths \X Serials :
          TasksWith(x)' = TasksWith(x) /\ ReleasersOf(x)' = ReleasersOf(x)
    BY <1>1 DEF TasksWith, ReleasersOf
  <2>2. \A x \in Paths \X Serials : x # y => Holds(x)' = Holds(x)
    BY <1>1, <1>2, <1>4, OtherHolds DEF IInv, y
  <2>3. /\ IsFiniteSet(TasksWith(y)') /\ IsFiniteSet(ReleasersOf(y)')
        /\ count'[y] = Holds(y)' + Cardinality(TasksWith(y)') + Cardinality(ReleasersOf(y)')
    <3>1. IsFiniteSet(TasksWith(y)) /\ IsFiniteSet(ReleasersOf(y))
      BY <1>3 DEF IInv, Counted
    <3>2. count'[y] = Holds(y)' + Cardinality(TasksWith(y)) + Cardinality(ReleasersOf(y))
      BY <1>5, <1>6, <1>8
    <3> QED
      BY <1>3, <2>1, <3>1, <3>2
  <2> QED
    BY <1>3, <1>8, <2>1, <2>2, <2>3, OneCounted DEF IInv
<1> QED
  BY <1>9, <1>10, <1>11, <1>12, <1>13 DEF IInv

(* An input of a task that is over is released. *)
LEMMA ReleaseRecvInv ==
  ASSUME CodecPipelineAssumption, IInv, NEW o \in Outputs, ReleaseRecv(o)
  PROVE  IInv'
<1>1. PICK c \in Codecs : \E i \in 1 .. Rows[c] : \E n \in Serials : o = <<<<c, i>>, n>>
  BY OutputPairs DEF Outputs
<1>2. PICK i \in 1 .. Rows[c], n \in Serials : o = <<<<c, i>>, n>>
  BY <1>1
<1>3. PICK q \in Seq(Paths \X Serials) : q = releasing[o]
  BY DEF IInv, Types
<1>4. /\ q \in Seq(Paths \X Serials) /\ q # <<>>
      /\ Release(Head(q)[1], Head(q)[2]) /\ releasing' = [releasing EXCEPT ![o] = Tail(q)]
      /\ UNCHANGED <<storeAndForward, at, offered, serial, received, stage, row, unsent>>
      /\ UNCHANGED <<buffered, sentUpTo>>
  BY <1>3 DEF ReleaseRecv, recvVars, taskVars
<1>5. InputsOnce(q, c, n) /\ stage[<<c, n>>] = "done"
  BY <1>2, <1>4, <1>3, Zenon DEF IInv, ReleasesOfOneTask
<1>6. \A k, j \in 1 .. Len(q) : k # j => q[k] # q[j]
  BY <1>5 DEF InputsOnce
<1>7. /\ Tail(q) \in Seq(Paths \X Serials) /\ Head(q) \in ToSet(q) /\ Head(q) \in Paths \X Serials
      /\ \A k, j \in 1 .. Len(Tail(q)) : k # j => Tail(q)[k] # Tail(q)[j]
      /\ \A k \in 1 .. Len(Tail(q)) : \E j \in 1 .. Len(q) : Tail(q)[k] = q[j]
      /\ \A x : x \in ToSet(Tail(q)) <=> x \in ToSet(q) /\ x # Head(q)
  BY <1>4, <1>6, TailOnce
<1>8. InputsOnce(Tail(q), c, n)
  BY <1>5, <1>7 DEF InputsOnce
<1>9. PICK y \in Paths \X Serials : y = Head(q)
  BY <1>7
<1>10. /\ releasing'[o] = Tail(q) /\ releasing' \in [Outputs -> Seq(Paths \X Serials)]
      /\ \A r \in Outputs : r # o => releasing'[r] = releasing[r]
  BY <1>4, <1>7 DEF IInv, Types
<1>11. ASSUME NEW x \in Paths \X Serials, NEW r \in Outputs
       PROVE  x \in ToSet(releasing'[r]) <=> x \in ToSet(releasing[r]) /\ ~(r = o /\ x = y)
  <2>1. CASE r = o
    BY <1>7, <1>9, <1>10, <1>3, <2>1
  <2>2. CASE r # o
    BY <1>10, <2>2
  <2> QED
    BY <2>1, <2>2
<1>12. y \in ToSet(releasing[o])
  BY <1>7, <1>9, <1>3
<1>13. o \in ReleasersOf(y) /\ ReleasersOf(y)' = ReleasersOf(y) \ {o}
  BY <1>11, <1>12 DEF ReleasersOf
<1>14. \A x \in Paths \X Serials : x # y => ReleasersOf(x)' = ReleasersOf(x)
  BY <1>11 DEF ReleasersOf
<1>15. /\ IsFiniteSet(TasksWith(y)) /\ IsFiniteSet(ReleasersOf(y))
       /\ Holds(y) \in 0 .. 2 /\ Cardinality(TasksWith(y)) \in Nat /\ Cardinality(ReleasersOf(y)) \in Nat
       /\ count[y] = Holds(y) + Cardinality(TasksWith(y)) + Cardinality(ReleasersOf(y))
  BY NeededType DEF IInv, Counted
<1>16. /\ IsFiniteSet(ReleasersOf(y)') /\ Cardinality(ReleasersOf(y)) >= 1
       /\ Cardinality(ReleasersOf(y)') = Cardinality(ReleasersOf(y)) - 1
  <2>1. /\ IsFiniteSet(ReleasersOf(y) \ {o}) /\ Cardinality(ReleasersOf(y)) >= 1
        /\ Cardinality(ReleasersOf(y) \ {o}) = Cardinality(ReleasersOf(y)) - 1
    BY <1>13, <1>15, Shrunk
  <2> QED
    BY <1>13, <2>1
<1>17. count[y] >= 1
  BY <1>15, <1>16
<1>18. PICK p \in Paths, k \in Serials : y = <<p, k>> /\ Release(p, k)
  BY <1>4, <1>9
<1>19. /\ count' \in [Paths \X Serials -> Nat] /\ live' \subseteq Paths \X Serials
       /\ count'[y] = count[y] - 1
       /\ y \in live' <=> count'[y] > 0
       /\ \A x \in Paths \X Serials : x # y =>
            count'[x] = count[x] /\ (x \in live' <=> x \in live)
  BY <1>17, <1>18, Released DEF IInv
<1>20. Types'
  BY <1>4, <1>10, <1>19 DEF IInv, Types
<1>21. Offering' /\ InputsHaveCome' /\ OpenIsIncomplete'
  BY <1>4 DEF IInv, Offering, InputsHaveCome, OpenIsIncomplete
<1>22. ReleasesOfOneTask'
  <2> SUFFICES ASSUME NEW d \in Codecs, NEW m \in Serials, NEW j \in 1 .. Rows[d]
               PROVE  /\ InputsOnce(releasing'[<<<<d, j>>, m>>], d, m)
                      /\ releasing'[<<<<d, j>>, m>>] # <<>> => stage[<<d, m>>] = "done"
    <3>1. stage' = stage
      BY <1>4
    <3> QED
      BY <3>1 DEF ReleasesOfOneTask
  <2>1. CASE <<<<d, j>>, m>> = o
    <3>1. d = c /\ m = n
      BY <1>2, <2>1
    <3> QED
      BY <1>5, <1>8, <1>10, <2>1, <3>1
  <2>2. CASE <<<<d, j>>, m>> # o
    <3>1. <<<<d, j>>, m>> \in Outputs
      BY OutputPairs DEF Outputs
    <3> QED
      BY <1>10, <2>2, <3>1 DEF IInv, ReleasesOfOneTask
  <2> QED
    BY <2>1, <2>2
<1>23. OutputsOfTasks'
  BY <1>4, SameOutputs DEF IInv, OutputsOfTasks
<1>24. Counted'
  <2>1. \A x \in Paths \X Serials : TasksWith(x)' = TasksWith(x) /\ Holds(x)' = Holds(x)
    BY <1>4 DEF TasksWith, Holds
  <2>2. count'[y] = Holds(y)' + Cardinality(TasksWith(y)') + Cardinality(ReleasersOf(y)')
    <3>1. count'[y] = Holds(y) + Cardinality(TasksWith(y)) + Cardinality(ReleasersOf(y)')
      BY <1>15, <1>16, <1>19
    <3> QED
      BY <2>1, <3>1
  <2>3. IsFiniteSet(TasksWith(y)')
    BY <1>15, <2>1
  <2> QED
    BY <1>14, <1>16, <1>19, <2>1, <2>2, <2>3, OneCounted DEF IInv
<1> QED
  BY <1>20, <1>21, <1>22, <1>23, <1>24 DEF IInv

LEMMA Moved == \A h, a, b \in Nat : h + a + b = h + (a - 1) + (b + 1)
OBVIOUS

LEMMA OnlyOne ==
  ASSUME NEW S, IsFiniteSet(S), NEW i \in S, Cardinality(S) = 1
  PROVE  S \ {i} = {}
<1>1. IsFiniteSet(S \ {i}) /\ Cardinality(S \ {i}) = 0
  BY Shrunk
<1> QED
  BY <1>1, FS_EmptySet

(* When the last output of a task leaves, the thread that lets it go takes the task's
   place among those who need its inputs. *)
LEMMA LeaveInv ==
  ASSUME CodecPipelineAssumption, IInv,
         NEW c \in Codecs, NEW i \in 1 .. Rows[c], NEW n \in Serials,
         stage[<<c, n>>] = "coding", Leave(<<<<c, i>>, n>>, <<c, n>>),
         UNCHANGED <<storeAndForward, at, serial, received, count, live>>
  PROVE  /\ stage' \in [Tasks -> {"open", "ready", "coding", "done"}]
         /\ unsent' \in [Tasks -> Nat]
         /\ releasing' \in [Outputs -> Seq(Paths \X Serials)]
         /\ OpenIsIncomplete' /\ ReleasesOfOneTask' /\ Counted'
         /\ stage'[<<c, n>>] = IF unsent[<<c, n>>] = 1 THEN "done" ELSE "coding"
         /\ unsent[<<c, n>>] \in Nat
         /\ unsent[<<c, n>>] >= 1 => unsent'[<<c, n>>] = unsent[<<c, n>>] - 1
         /\ \A u \in Tasks : u # <<c, n>> => stage'[u] = stage[u] /\ unsent'[u] = unsent[u]
<1> DEFINE t == <<c, n>>
           o == <<<<c, i>>, n>>
<1>1. t \in Tasks /\ o \in Outputs
  BY OutputPairs DEF Tasks, Outputs
<1>2. /\ unsent' = [unsent EXCEPT ![t] = IF @ > 0 THEN @ - 1 ELSE 0]
      /\ unsent[t] = 1 => /\ stage' = [stage EXCEPT ![t] = "done"]
                          /\ releasing' = [releasing EXCEPT ![o] = InputsOf(t)]
      /\ unsent[t] # 1 => stage' = stage /\ releasing' = releasing
  BY DEF Leave, IsLast
<1>3. releasing[o] = <<>> /\ stage[t] = "coding" /\ received[t] = InputSet(c)
  <2>1. releasing[o] = <<>>
    BY DEF IInv, ReleasesOfOneTask
  <2> QED
    BY <2>1 DEF IInv, OpenIsIncomplete
<1>4. /\ InputsOf(t) \in Seq(Paths \X Serials) /\ InputsOnce(InputsOf(t), c, n)
      /\ \A p, m : <<p, m>> \in ToSet(InputsOf(t)) <=> p \in InputSet(c) /\ m = n
  <2>1. /\ InputsOf(<<c, n>>) \in Seq(Paths \X Serials)
        /\ \A k, j \in 1 .. Len(InputsOf(<<c, n>>)) :
             k # j => InputsOf(<<c, n>>)[k] # InputsOf(<<c, n>>)[j]
        /\ \A k \in 1 .. Len(InputsOf(<<c, n>>)) : InputsOf(<<c, n>>)[k] \in InputSet(c) \X {n}
        /\ \A p, m : <<p, m>> \in ToSet(InputsOf(<<c, n>>)) <=> p \in InputSet(c) /\ m = n
    BY InputsOfTask
  <2> QED
    BY <2>1, Zenon DEF InputsOnce
<1> HIDE DEF t, o
<1>5. /\ unsent \in [Tasks -> Nat] /\ stage \in [Tasks -> {"open", "ready", "coding", "done"}]
      /\ releasing \in [Outputs -> Seq(Paths \X Serials)]
  BY DEF IInv, Types
<1>6. /\ unsent' \in [Tasks -> Nat] /\ unsent[t] \in Nat
      /\ unsent[t] >= 1 => unsent'[t] = unsent[t] - 1
      /\ \A u \in Tasks : u # t => unsent'[u] = unsent[u]
  <2>1. PICK k \in Nat : k = IF unsent[t] > 0 THEN unsent[t] - 1 ELSE 0
    BY <1>1, <1>5
  <2>2. unsent' = [unsent EXCEPT ![t] = k]
    BY <1>1, <1>2, <1>5, <2>1
  <2>3. unsent' \in [Tasks -> Nat] /\ unsent'[t] = k /\ \A u \in Tasks : u # t => unsent'[u] = unsent[u]
    BY <1>1, <1>5, <2>2
  <2> QED
    BY <1>1, <1>5, <2>1, <2>3
<1>7. /\ stage' \in [Tasks -> {"open", "ready", "coding", "done"}]
      /\ stage'[t] = IF unsent[t] = 1 THEN "done" ELSE "coding"
      /\ \A u \in Tasks : u # t => stage'[u] = stage[u]
  <2>1. CASE unsent[t] = 1
    BY <1>1, <1>2, <1>5, <2>1
  <2>2. CASE unsent[t] # 1
    BY <1>1, <1>2, <1>3, <1>5, <2>2
  <2> QED
    BY <2>1, <2>2
<1>8. /\ releasing' \in [Outputs -> Seq(Paths \X Serials)]
      /\ releasing'[o] = IF unsent[t] = 1 THEN InputsOf(t) ELSE <<>>
      /\ \A r \in Outputs : r # o => releasing'[r] = releasing[r]
  <2>1. CASE unsent[t] = 1
    BY <1>1, <1>2, <1>4, <1>5, <2>1
  <2>2. CASE unsent[t] # 1
    BY <1>1, <1>2, <1>3, <1>5, <2>2
  <2> QED
    BY <2>1, <2>2
<1>9. OpenIsIncomplete'
  <2>1. \A u \in Tasks : stage'[u] = "open" <=> stage[u] = "open"
    BY <1>3, <1>7
  <2> QED
    BY <2>1 DEF IInv, OpenIsIncomplete, Tasks
<1>10. ReleasesOfOneTask'
  <2> SUFFICES ASSUME NEW d \in Codecs, NEW m \in Serials, NEW j \in 1 .. Rows[d]
               PROVE  /\ InputsOnce(releasing'[<<<<d, j>>, m>>], d, m)
                      /\ releasing'[<<<<d, j>>, m>>] # <<>> => stage'[<<d, m>>] = "done"
    BY DEF ReleasesOfOneTask
  <2>1. <<d, m>> \in Tasks /\ <<<<d, j>>, m>> \in Outputs
    BY OutputPairs DEF Tasks, Outputs
  <2>2. InputsOnce(releasing[<<<<d, j>>, m>>], d, m)
        /\ (releasing[<<<<d, j>>, m>>] # <<>> => stage[<<d, m>>] = "done")
    BY DEF IInv, ReleasesOfOneTask
  <2>3. CASE <<<<d, j>>, m>> = o
    <3>1. <<d, m>> = t /\ d = c /\ m = n
      BY <2>3 DEF o, t
    <3>2. CASE unsent[t] = 1
      BY <1>4, <1>7, <1>8, <2>3, <3>1, <3>2
    <3>3. CASE unsent[t] # 1
      <4>1. releasing'[<<<<d, j>>, m>>] = releasing[<<<<d, j>>, m>>]
        BY <1>3, <1>8, <2>3, <3>3
      <4> QED
        BY <1>3, <2>2, <2>3, <4>1
    <3> QED
      BY <3>2, <3>3
  <2>4. CASE <<<<d, j>>, m>> # o
    <3>1. stage[<<d, m>>] = "done" => stage'[<<d, m>>] = "done"
      BY <1>3, <1>7, <2>1
    <3> QED
      BY <1>8, <2>1, <2>2, <2>4, <3>1
  <2> QED
    BY <2>3, <2>4
<1>11. Counted'
  <2> SUFFICES ASSUME NEW p \in Paths, NEW m \in Serials, NEW x, x = <<p, m>>
               PROVE  /\ IsFiniteSet(TasksWith(x)') /\ IsFiniteSet(ReleasersOf(x)')
                      /\ count'[x] = Needed(x)'
                      /\ x \in live' <=> count'[x] > 0
    BY DEF Counted
  <2>1. /\ IsFiniteSet(TasksWith(x)) /\ IsFiniteSet(ReleasersOf(x))
        /\ Holds(x) \in 0 .. 2 /\ Cardinality(TasksWith(x)) \in Nat
        /\ Cardinality(ReleasersOf(x)) \in Nat
        /\ count[x] = Holds(x) + Cardinality(TasksWith(x)) + Cardinality(ReleasersOf(x))
        /\ x \in live <=> count[x] > 0
    <3>1. x \in Paths \X Serials
      OBVIOUS
    <3> QED
      BY <3>1, NeededType DEF IInv, Counted
  <2>2. Holds(x)' = Holds(x)
    BY DEF Holds
  <2>3. CASE unsent[t] = 1 /\ p \in InputSet(c) /\ m = n
    <3>1. c \in TasksWith(<<p, n>>)
      BY <1>3, <2>3 DEF TasksWith, t
    <3>2. TasksWith(<<p, n>>)' = TasksWith(<<p, n>>) \ {c}
      <4>1. ASSUME NEW d \in Codecs
            PROVE  stage'[<<d, n>>] # "done" <=> stage[<<d, n>>] # "done" /\ d # c
        <5>1. CASE d = c
          BY <1>7, <2>3, <5>1 DEF t
        <5>2. CASE d # c
          <6>1. <<d, n>> \in Tasks /\ <<d, n>> # t
            BY <5>2 DEF Tasks, t
          <6> QED
            BY <1>7, <5>2, <6>1
        <5> QED
          BY <5>1, <5>2
      <4> QED
        BY <4>1 DEF TasksWith
    <3>3. ASSUME NEW r \in Outputs
          PROVE  x \in ToSet(releasing'[r]) <=> x \in ToSet(releasing[r]) \/ r = o
      <4>1. CASE r = o
        BY <1>4, <1>8, <2>3, <4>1
      <4>2. CASE r # o
        BY <1>8, <4>2
      <4> QED
        BY <4>1, <4>2
    <3>4. o \notin ReleasersOf(x)
      BY <1>3 DEF ReleasersOf, ToSet
    <3>5. ReleasersOf(x)' = ReleasersOf(x) \cup {o}
      BY <1>1, <3>3 DEF ReleasersOf
    <3>6. /\ IsFiniteSet(ReleasersOf(x)')
          /\ Cardinality(ReleasersOf(x)') = Cardinality(ReleasersOf(x)) + 1
      <4>1. /\ IsFiniteSet(ReleasersOf(x) \cup {o})
            /\ Cardinality(ReleasersOf(x) \cup {o}) = Cardinality(ReleasersOf(x)) + 1
        BY <2>1, <3>4, Grown
      <4> QED
        BY <3>5, <4>1
    <3>7. /\ IsFiniteSet(TasksWith(x)')
          /\ Cardinality(TasksWith(x)') = Cardinality(TasksWith(x)) - 1
      <4>1. x = <<p, n>>
        BY <2>3
      <4>2. c \in TasksWith(x) /\ TasksWith(x)' = TasksWith(x) \ {c}
        BY <3>1, <3>2, <4>1
      <4>3. /\ IsFiniteSet(TasksWith(x) \ {c})
            /\ Cardinality(TasksWith(x) \ {c}) = Cardinality(TasksWith(x)) - 1
        BY <2>1, <4>2, Shrunk
      <4> QED
        BY <4>2, <4>3
    <3>8. count'[x] = Needed(x)'
      <4>1. count'[x] = Holds(x) + (Cardinality(TasksWith(x)) - 1) + (Cardinality(ReleasersOf(x)) + 1)
        <5>1. count'[x] = count[x]
          OBVIOUS
        <5>2. Holds(x) \in Nat
          BY <2>1
        <5> QED
          BY <2>1, <5>1, <5>2, Moved
      <4> QED
        BY <2>2, <3>6, <3>7, <4>1 DEF Needed
    <3> QED
      BY <2>1, <3>6, <3>7, <3>8
  <2>4. CASE ~(unsent[t] = 1 /\ p \in InputSet(c) /\ m = n)
    <3>1. TasksWith(<<p, m>>)' = TasksWith(<<p, m>>)
      <4>1. ASSUME NEW d \in Codecs, p \in received[<<d, m>>]
            PROVE  stage'[<<d, m>>] # "done" <=> stage[<<d, m>>] # "done"
        <5>1. CASE <<d, m>> = t
          <6>1. p \in InputSet(c) /\ m = n
            BY <1>3, <4>1, <5>1 DEF t
          <6> QED
            BY <1>3, <1>7, <2>4, <5>1, <6>1
        <5>2. CASE <<d, m>> # t
          BY <1>7, <5>2 DEF Tasks
        <5> QED
          BY <5>1, <5>2
      <4> QED
        BY <4>1 DEF TasksWith
    <3>2. ASSUME NEW r \in Outputs
          PROVE  x \in ToSet(releasing'[r]) <=> x \in ToSet(releasing[r])
      <4>1. CASE r = o /\ unsent[t] = 1
        <5>1. x \notin ToSet(InputsOf(t))
          BY <1>4, <2>4, <4>1
        <5>2. x \notin ToSet(<<>>)
          BY DEF ToSet
        <5> QED
          BY <1>3, <1>8, <4>1, <5>1, <5>2
      <4>2. CASE r = o /\ unsent[t] # 1
        BY <1>3, <1>8, <4>2
      <4>3. CASE r # o
        BY <1>8, <4>3
      <4> QED
        BY <4>1, <4>2, <4>3
    <3>3. ReleasersOf(x)' = ReleasersOf(x)
      BY <3>2 DEF ReleasersOf
    <3>4. TasksWith(x)' = TasksWith(x)
      BY <3>1
    <3> QED
      BY <2>1, <2>2, <3>3, <3>4 DEF Needed
  <2> QED
    BY <2>3, <2>4
<1> QED
  BY <1>6, <1>7, <1>8, <1>9, <1>10, <1>11 DEF t

(* The outputs of a task that are left are finitely many. *)
LEMMA LeftFinite ==
  ASSUME CodecPipelineAssumption, NEW c \in Codecs, NEW n
  PROVE  IsFiniteSet(Left(c, n)) /\ Cardinality(Left(c, n)) \in Nat
<1>1. Rows[c] \in Nat
  BY DEF CodecPipelineAssumption
<1>2. IsFiniteSet(1 .. Rows[c]) /\ Left(c, n) \subseteq 1 .. Rows[c]
  BY <1>1, UpTo DEF Left
<1> QED
  BY <1>2, FS_Subset, FS_CardinalityType

(* A worker stores the next output. *)
LEMMA StoreRowInv ==
  ASSUME CodecPipelineAssumption, IInv, NEW c \in Codecs, NEW n \in Serials, StoreRow(<<c, n>>)
  PROVE  IInv'
<1> DEFINE t == <<c, n>>
<1>1. PICK i \in Nat : i = row[t]
  BY DEF IInv, Types, Tasks
<1>2. /\ storeAndForward /\ stage[t] = "coding" /\ i <= Rows[c]
      /\ row' = [row EXCEPT ![t] = i + 1]
      /\ buffered' = buffered \cup {<<<<c, i>>, n>>}
      /\ Leave(<<<<c, i>>, n>>, t)
  BY <1>1 DEF StoreRow
<1>3. UNCHANGED <<storeAndForward, at, offered, serial, count, live, received, sentUpTo>>
  BY DEF StoreRow, recvVars
<1>4. TaskOutputs(c, n) /\ t \in Tasks /\ Rows[c] \in Nat
  BY DEF IInv, OutputsOfTasks, Tasks, CodecPipelineAssumption
<1>5. i \in 1 .. Rows[c] /\ unsent[t] = Cardinality(Left(c, n))
  BY <1>1, <1>2, <1>4 DEF TaskOutputs
<1>6. /\ stage' \in [Tasks -> {"open", "ready", "coding", "done"}]
      /\ unsent' \in [Tasks -> Nat]
      /\ releasing' \in [Outputs -> Seq(Paths \X Serials)]
      /\ OpenIsIncomplete' /\ ReleasesOfOneTask' /\ Counted'
      /\ stage'[t] = IF unsent[t] = 1 THEN "done" ELSE "coding"
      /\ unsent[t] \in Nat
      /\ unsent[t] >= 1 => unsent'[t] = unsent[t] - 1
      /\ \A u \in Tasks : u # t => stage'[u] = stage[u] /\ unsent'[u] = unsent[u]
  BY <1>2, <1>3, <1>5, LeaveInv
<1>7. row' \in [Tasks -> Nat] /\ row'[t] = i + 1 /\ \A u \in Tasks : u # t => row'[u] = row[u]
  BY <1>1, <1>2, <1>4 DEF IInv, Types
<1>8. Types'
  <2>1. <<<<c, i>>, n>> \in Outputs
    BY <1>5, OutputPairs DEF Outputs
  <2> QED
    BY <1>2, <1>3, <1>6, <1>7, <2>1 DEF IInv, Types
<1>9. Offering' /\ InputsHaveCome'
  BY <1>3 DEF IInv, Offering, InputsHaveCome
<1>10. OutputsOfTasks'
  <2>1. TaskOutputs(c, n)'
    <3>1. i \in Left(c, n)
      BY <1>1, <1>2, <1>5 DEF Left
    <3>2. Left(c, n)' = Left(c, n) \ {i}
      <4>1. \A j \in 1 .. Rows[c] : i + 1 <= j <=> i <= j /\ j # i
        BY <1>1
      <4>2. Left(c, n) = {j \in 1 .. Rows[c] : i <= j}
        BY <1>1, <1>2 DEF Left
      <4>3. Left(c, n)' = {j \in 1 .. Rows[c] : i + 1 <= j}
        BY <1>2, <1>3, <1>7 DEF Left
      <4> QED
        BY <4>1, <4>2, <4>3
    <3>3. /\ Cardinality(Left(c, n)) >= 1
          /\ Cardinality(Left(c, n) \ {i}) = Cardinality(Left(c, n)) - 1
      BY <3>1, LeftFinite, Shrunk
    <3>4. unsent'[t] = Cardinality(Left(c, n)')
      BY <1>5, <1>6, <3>2, <3>3
    <3>5. ASSUME stage'[t] = "done"
          PROVE  Left(c, n)' = {} /\ row'[t] > Rows[c]
      <4>1. Cardinality(Left(c, n)) = 1
        BY <1>5, <1>6, <3>5
      <4>2. Left(c, n) \ {i} = {}
        BY <3>1, <4>1, LeftFinite, OnlyOne
      <4>3. {j \in 1 .. Rows[c] : i + 1 <= j} = {}
        BY <1>2, <1>3, <1>7, <3>2, <4>2 DEF Left
      <4>4. ~(i + 1 <= Rows[c])
        <5>1. \A j \in 1 .. Rows[c] : ~(i + 1 <= j)
          BY <4>3
        <5>2. Rows[c] \in 1 .. Rows[c]
          BY <1>4, <1>5
        <5> QED
          BY <5>1, <5>2
      <4> QED
        <5>1. row'[t] > Rows[c]
          BY <1>1, <1>4, <1>7, <4>4
        <5> QED
          BY <3>2, <4>2, <5>1
    <3>6. stage'[t] \in {"coding", "done"} /\ row'[t] >= 1
      BY <1>1, <1>6, <1>7
    <3>7. ASSUME NEW j \in 1 .. Rows[c], n <= sentUpTo[<<c, j>>]
          PROVE  j < row'[t]
      <4>1. j < i /\ j \in Nat
        <5>1. j < row[<<c, n>>]
          BY <1>4, <3>7, RowOutput
        <5> QED
          BY <1>1, <5>1
      <4> QED
        BY <1>7, <4>1, Later
    <3>8. ASSUME NEW j \in 1 .. Rows[c], j < row'[t]
          PROVE  <<<<c, j>>, n>> \in buffered'
      <4>1. CASE j = i
        BY <1>2, <4>1
      <4>2. CASE j # i
        <5>1. j < row[t]
          BY <1>1, <1>7, <3>8, <4>2
        <5>2. <<<<c, j>>, n>> \in buffered
          BY <1>2, <1>4, <5>1, RowOutput
        <5> QED
          BY <1>2, <5>2
      <4> QED
        BY <4>1, <4>2
    <3> QED
      BY <1>2, <1>3, <3>4, <3>5, <3>6, <3>7, <3>8, Zenon DEF TaskOutputs
  <2>2. ASSUME NEW d \in Codecs, NEW m \in Serials, <<d, m>> # t
        PROVE  TaskOutputs(d, m)'
    <3>1. /\ stage'[<<d, m>>] = stage[<<d, m>>] /\ row'[<<d, m>>] = row[<<d, m>>]
          /\ unsent'[<<d, m>>] = unsent[<<d, m>>]
      BY <1>6, <1>7, <2>2 DEF Tasks
    <3>2. \A j \in 1 .. Rows[d] : <<<<d, j>>, m>> \in buffered' <=> <<<<d, j>>, m>> \in buffered
      BY <1>2, <2>2
    <3> QED
      BY <1>3, <3>1, <3>2, SameOutputs DEF IInv, OutputsOfTasks
  <2> QED
    BY <2>1, <2>2 DEF OutputsOfTasks
<1> QED
  BY <1>6, <1>8, <1>9, <1>10 DEF IInv

(* A path sends its next output. *)
LEMMA SendInv ==
  ASSUME CodecPipelineAssumption, IInv, NEW c \in Codecs, NEW i \in 1 .. Rows[c], Send(<<c, i>>)
  PROVE  IInv'
<1>1. PICK n \in Serials : n = sentUpTo[<<c, i>>] + 1 /\ <<<<c, i>>, n>> \in buffered
  <2>1. <<<<c, i>>, sentUpTo[<<c, i>>] + 1>> \in Outputs
    BY DEF Send, IInv, Types
  <2> QED
    BY <2>1 DEF Send, Outputs
<1> DEFINE t == <<c, n>>
<1>2. /\ ~storeAndForward
      /\ buffered' = buffered \ {<<<<c, i>>, n>>}
      /\ sentUpTo' = [sentUpTo EXCEPT ![<<c, i>>] = n]
      /\ Leave(<<<<c, i>>, n>>, t)
  BY <1>1 DEF Send
<1>3. UNCHANGED <<storeAndForward, at, offered, serial, count, live, received, row>>
  BY DEF Send, recvVars
<1>4. TaskOutputs(c, n) /\ t \in Tasks /\ Rows[c] \in Nat /\ Rows[c] \in 1 .. Rows[c]
      /\ row[t] \in Nat
  BY DEF IInv, OutputsOfTasks, Types, Tasks, CodecPipelineAssumption
<1>5. stage[t] = "coding" /\ i < row[t] /\ sentUpTo[<<c, i>>] < n
  BY <1>1, <1>2, <1>4, RowOutput
<1>6. /\ stage' \in [Tasks -> {"open", "ready", "coding", "done"}]
      /\ unsent' \in [Tasks -> Nat]
      /\ releasing' \in [Outputs -> Seq(Paths \X Serials)]
      /\ OpenIsIncomplete' /\ ReleasesOfOneTask' /\ Counted'
      /\ stage'[t] = IF unsent[t] = 1 THEN "done" ELSE "coding"
      /\ unsent[t] \in Nat
      /\ unsent[t] >= 1 => unsent'[t] = unsent[t] - 1
      /\ \A u \in Tasks : u # t => stage'[u] = stage[u] /\ unsent'[u] = unsent[u]
  BY <1>2, <1>3, <1>5, LeaveInv
<1>7. /\ <<c, i>> \in Senders /\ n \in Nat /\ sentUpTo' \in [Senders -> Nat]
      /\ sentUpTo \in [Senders -> Nat]
      /\ sentUpTo'[<<c, i>>] = n
      /\ \A s \in Senders : s # <<c, i>> => sentUpTo'[s] = sentUpTo[s]
  <2>1. <<c, i>> \in Senders /\ n \in Nat
    BY OutputPairs, SerialType
  <2> QED
    BY <1>2, <2>1 DEF IInv, Types
<1>8. Types'
  BY <1>2, <1>3, <1>6, <1>7 DEF IInv, Types
<1>9. Offering' /\ InputsHaveCome'
  BY <1>3 DEF IInv, Offering, InputsHaveCome
<1>10. OutputsOfTasks'
  <2>1. TaskOutputs(c, n)'
    <3>1. /\ i \in Left(c, n) /\ unsent[t] = Cardinality(Left(c, n)) /\ row[t] >= 1
      BY <1>2, <1>4, <1>5 DEF Left, TaskOutputs
    <3>2. \A j \in 1 .. Rows[c] : j # i => sentUpTo'[<<c, j>>] = sentUpTo[<<c, j>>]
      BY <1>7, OutputPairs
    <3>3. ~(n < n) /\ ~(n <= sentUpTo[<<c, i>>])
      BY <1>1, <1>7
    <3>4. Left(c, n)' = Left(c, n) \ {i}
      BY <1>2, <1>3, <1>7, <3>2, <3>3 DEF Left
    <3>5. /\ Cardinality(Left(c, n)) >= 1
          /\ Cardinality(Left(c, n) \ {i}) = Cardinality(Left(c, n)) - 1
      BY <3>1, LeftFinite, Shrunk
    <3>6. unsent'[t] = Cardinality(Left(c, n)')
      BY <1>6, <3>1, <3>4, <3>5
    <3>7. ASSUME NEW j \in 1 .. Rows[c], n <= sentUpTo'[<<c, j>>]
          PROVE  j < row[t]
      <4>1. CASE j = i
        BY <1>5, <4>1
      <4>2. CASE j # i
        <5>1. n <= sentUpTo[<<c, j>>]
          BY <3>2, <3>7, <4>2
        <5> QED
          BY <1>4, <5>1, RowOutput
      <4> QED
        BY <4>1, <4>2
    <3>8. ASSUME stage'[t] = "done"
          PROVE  Left(c, n)' = {} /\ row[t] > Rows[c]
      <4>1. Left(c, n)' = {}
        <5>1. Cardinality(Left(c, n)) = 1
          BY <1>6, <3>1, <3>8
        <5>2. Left(c, n) \ {i} = {}
          BY <3>1, <5>1, LeftFinite, OnlyOne
        <5> QED
          BY <3>4, <5>2
      <4>2. ~(sentUpTo'[<<c, Rows[c]>>] < n)
        BY <1>2, <1>3, <1>4, <4>1 DEF Left
      <4>3. n <= sentUpTo'[<<c, Rows[c]>>]
        BY <1>4, <1>7, <4>2, OutputPairs
      <4>4. Rows[c] < row[t]
        BY <1>4, <3>7, <4>3
      <4> QED
        BY <1>4, <4>1, <4>4
    <3>9. ASSUME NEW j \in 1 .. Rows[c], <<<<c, j>>, n>> \in buffered'
          PROVE  stage'[t] = "coding" /\ j < row[t] /\ sentUpTo'[<<c, j>>] < n
      <4>1. j # i /\ <<<<c, j>>, n>> \in buffered
        BY <1>2, <3>9
      <4>2. j < row[t] /\ sentUpTo[<<c, j>>] < n
        BY <1>2, <1>4, <4>1, RowOutput
      <4>3. j \in Left(c, n) \ {i}
        BY <1>2, <4>1, <4>2 DEF Left
      <4>4. Cardinality(Left(c, n)) # 1
        BY <3>1, <4>3, LeftFinite, OnlyOne
      <4> QED
        BY <1>6, <3>1, <3>2, <4>1, <4>2, <4>4
    <3>10. stage'[t] \in {"coding", "done"}
      BY <1>6
    <3> QED
      BY <1>2, <1>3, <3>1, <3>6, <3>7, <3>8, <3>9, <3>10, Zenon DEF TaskOutputs
  <2>2. ASSUME NEW d \in Codecs, NEW m \in Serials, <<d, m>> # t
        PROVE  TaskOutputs(d, m)'
    <3>1. stage'[<<d, m>>] = stage[<<d, m>>] /\ unsent'[<<d, m>>] = unsent[<<d, m>>]
      BY <1>6, <2>2 DEF Tasks
    <3>2. ASSUME NEW j \in 1 .. Rows[d]
          PROVE  /\ m <= sentUpTo'[<<d, j>>] <=> m <= sentUpTo[<<d, j>>]
                 /\ sentUpTo'[<<d, j>>] < m <=> sentUpTo[<<d, j>>] < m
                 /\ <<<<d, j>>, m>> \in buffered' <=> <<<<d, j>>, m>> \in buffered
      <4>1. <<d, j>> \in Senders /\ m \in Nat
        BY OutputPairs, SerialType
      <4>2. <<<<d, j>>, m>> \in buffered' <=> <<<<d, j>>, m>> \in buffered
        BY <1>2, <2>2
      <4>3. CASE <<d, j>> = <<c, i>>
        <5>1. m # n /\ sentUpTo[<<d, j>>] \in Nat
          BY <1>7, <2>2, <4>1, <4>3
        <5> QED
          BY <1>1, <1>7, <4>1, <4>2, <4>3, <5>1
      <4>4. CASE <<d, j>> # <<c, i>>
        BY <1>7, <4>1, <4>2, <4>4
      <4> QED
        BY <4>3, <4>4
    <3> QED
      BY <1>3, <3>1, <3>2, SameOutputs DEF IInv, OutputsOfTasks
  <2> QED
    BY <2>1, <2>2 DEF OutputsOfTasks
<1> QED
  BY <1>6, <1>8, <1>9, <1>10 DEF IInv

LEMMA NextInv ==
  ASSUME CodecPipelineAssumption, IInv, [Next]_vars
  PROVE  IInv'
<1>1. CASE \E p \in Paths : Receive(p)
  BY <1>1, ReceiveInv
<1>2. CASE \E p \in Paths : CountTask(p)
  BY <1>2, CountTaskInv
<1>3. CASE \E p \in Paths : InsertInput(p)
  BY <1>3, InsertInputInv
<1>4. CASE \E p \in Paths : DropHold(p)
  BY <1>4, DropHoldInv
<1>5. CASE (\E p \in Paths : ForwardSent(p)) \/ (\E t \in Tasks : StartCoding(t) \/ CodeRow(t))
             \/ UNCHANGED vars
  BY <1>5, QuietInv
<1>6. CASE \E t \in Tasks : StoreRow(t)
  <2>1. PICK t \in Tasks : StoreRow(t)
    BY <1>6
  <2>2. PICK c \in Codecs, n \in Serials : t = <<c, n>>
    BY DEF Tasks
  <2> QED
    BY <2>1, <2>2, StoreRowInv
<1>7. CASE \E s \in Senders : Send(s)
  <2>1. PICK c \in Codecs : \E i \in 1 .. Rows[c] : Send(<<c, i>>)
    BY <1>7, OutputPairs
  <2> QED
    BY <2>1, SendInv
<1>8. CASE \E o \in Outputs : ReleaseRecv(o)
  BY <1>8, ReleaseRecvInv
<1> QED
  BY <1>1, <1>2, <1>3, <1>4, <1>5, <1>6, <1>7, <1>8 DEF Next, ReceiveThread, Worker

LEMMA Invariance == ASSUME CodecPipelineAssumption PROVE Spec => []IInv
<1>1. Init => IInv
  BY InitInv
<1>2. IInv /\ [Next]_vars => IInv'
  BY NextInv
<1> QED
  BY <1>1, <1>2, PTL DEF Spec

(* The reference count of every packet is the number of those who still need it, whatever
   the order in which its tasks finish, and its input lives exactly as long. *)
THEOREM CountsAreHolders == ASSUME CodecPipelineAssumption PROVE Spec => []CountIsHolders
<1>1. IInv => CountIsHolders
  BY DEF IInv, Counted, CountIsHolders
<1> QED
  BY <1>1, Invariance, PTL

(* No worker reads, and no task keeps, an input whose packet has been given back. *)
THEOREM TasksFindInputs == ASSUME CodecPipelineAssumption PROVE Spec => []InputsLive
<1>1. ASSUME IInv
      PROVE  InputsLive
  <2>1. ASSUME NEW c \in Codecs, NEW n \in Serials, NEW p \in received[<<c, n>>],
               stage[<<c, n>>] # "done"
        PROVE  <<p, n>> \in live
    <3>1. p \in Paths /\ <<p, n>> \in Paths \X Serials
      BY <1>1 DEF IInv, Types, Tasks
    <3>2. c \in TasksWith(<<p, n>>)
      BY <2>1 DEF TasksWith
    <3> DEFINE x == <<p, n>>
    <3>3. /\ IsFiniteSet(TasksWith(x)) /\ Holds(x) \in 0 .. 2 /\ Cardinality(ReleasersOf(x)) \in Nat
          /\ count[x] = Holds(x) + Cardinality(TasksWith(x)) + Cardinality(ReleasersOf(x))
          /\ x \in live <=> count[x] > 0
      BY <1>1, <3>1, NeededType DEF IInv, Counted
    <3>4. Cardinality(TasksWith(x)) >= 1 /\ Cardinality(TasksWith(x)) \in Nat
      BY <3>2, <3>3, Shrunk
    <3>5. count[x] > 0
      BY <3>3, <3>4
    <3> QED
      BY <3>3, <3>5
  <2>2. ASSUME NEW c \in Codecs, NEW n \in Serials, stage[<<c, n>>] \in {"coding", "done"},
               row[<<c, n>>] <= Rows[c], NEW p \in InputSet(c)
        PROVE  <<p, n>> \in live
    <3>1. stage[<<c, n>>] # "done"
      <4>1. row[<<c, n>>] \in Nat /\ Rows[c] \in Nat /\ TaskOutputs(c, n)
        BY <1>1 DEF IInv, Types, OutputsOfTasks, Tasks, CodecPipelineAssumption
      <4>2. ~(row[<<c, n>>] > Rows[c])
        BY <2>2, <4>1
      <4> QED
        BY <4>1, <4>2 DEF TaskOutputs
    <3>2. p \in received[<<c, n>>]
      BY <1>1, <2>2 DEF IInv, OpenIsIncomplete
    <3> QED
      BY <2>1, <3>1, <3>2
  <2> QED
    BY <2>1, <2>2 DEF InputsLive
<1> QED
  BY <1>1, Invariance, PTL

(* The thread that lets the last output of a task go is the last: every output of the task
   has been sent, or stored. *)
THEOREM DoneAfterAllSent == ASSUME CodecPipelineAssumption PROVE Spec => DoneWhenAllSent
<1>1. ASSUME IInv, NEW t \in Tasks, stage[t] = "done", NEW i \in 1 .. Rows[t[1]]
      PROVE  IF storeAndForward THEN <<<<t[1], i>>, t[2]>> \in buffered
                                ELSE sentUpTo[<<t[1], i>>] >= t[2]
  <2>1. PICK c \in Codecs, n \in Serials : t = <<c, n>> /\ t[1] = c /\ t[2] = n
    BY DEF Tasks
  <2>2. /\ TaskOutputs(c, n) /\ i \in 1 .. Rows[c] /\ row[t] \in Nat /\ Rows[c] \in Nat /\ n \in Nat
        /\ sentUpTo[<<c, i>>] \in Nat
    BY <1>1, <2>1, SerialType, OutputPairs DEF IInv, Types, OutputsOfTasks, Tasks, CodecPipelineAssumption
  <2>3. Left(c, n) = {} /\ row[t] > Rows[c]
    BY <1>1, <2>1, <2>2 DEF TaskOutputs
  <2>4. CASE storeAndForward
    <3>1. i < row[<<c, n>>]
      BY <2>1, <2>2, <2>3
    <3>2. <<<<c, i>>, n>> \in buffered
      BY <1>1, <2>1, <2>2, <2>4, <3>1, RowOutput
    <3> QED
      BY <2>1, <2>4, <3>2
  <2>5. CASE ~storeAndForward
    <3>1. ~(sentUpTo[<<c, i>>] < n)
      BY <2>2, <2>3, <2>5 DEF Left
    <3> QED
      BY <2>1, <2>2, <2>5, <3>1
  <2> QED
    BY <2>4, <2>5
<1>2. IInv => Gone
  BY <1>1, Zenon DEF Gone
<1>3. Gone' /\ [Next]_vars =>
        [\A t \in Tasks : stage[t] # "done" /\ stage'[t] = "done" =>
           \A i \in 1 .. Rows[t[1]] :
             IF storeAndForward THEN <<<<t[1], i>>, t[2]>> \in buffered'
                                ELSE sentUpTo'[<<t[1], i>>] >= t[2]]_vars
  <2>1. [Next]_vars => storeAndForward' = storeAndForward
    BY DEF Next, Receive, ForwardSent, ReceiveThread, CountTask, InsertInput, DropHold, Worker,
           StartCoding, CodeRow, StoreRow, Send, ReleaseRecv, vars, recvVars
  <2>2. ASSUME Gone', storeAndForward' = storeAndForward, NEW t \in Tasks, stage'[t] = "done",
               NEW i \in 1 .. Rows[t[1]]
        PROVE  IF storeAndForward THEN <<<<t[1], i>>, t[2]>> \in buffered'
                                  ELSE sentUpTo'[<<t[1], i>>] >= t[2]
    BY <2>2 DEF Gone
  <2> QED
    BY <2>1, <2>2
<1> QED
  BY <1>2, <1>3, Invariance, PTL DEF Spec, DoneWhenAllSent

----------------------------------------------------------------------------
(* The counters of the paths. *)
LiveOf(p) == {n \in Serials : <<p, n>> \in live}

CounterInv ==
  /\ counter \in [Paths -> Nat]
  /\ \A p \in Paths \ Forwarding : IsFiniteSet(LiveOf(p)) /\ counter[p] = Cardinality(LiveOf(p))

LEMMA CounterAfterRelease ==
  ASSUME IInv, CounterInv, NEW p \in Paths \ Forwarding, NEW n \in Serials,
         count[<<p, n>>] >= 1, Release(p, n)
  PROVE  CounterInv'
<1>1. CASE count[<<p, n>>] = 1
  <2>1. live' = live \ {<<p, n>>} /\ counter' = [counter EXCEPT ![p] = counter[p] - 1]
    BY <1>1 DEF Release
  <2>2. <<p, n>> \in live
    <3>1. <<p, n>> \in Paths \X Serials /\ 1 > 0
      OBVIOUS
    <3> QED
      BY <1>1, <3>1 DEF IInv, Counted
  <2>3. n \in LiveOf(p) /\ LiveOf(p)' = LiveOf(p) \ {n}
    BY <2>1, <2>2 DEF LiveOf
  <2>4. /\ IsFiniteSet(LiveOf(p) \ {n}) /\ Cardinality(LiveOf(p)) \in Nat
        /\ Cardinality(LiveOf(p)) >= 1
        /\ Cardinality(LiveOf(p) \ {n}) = Cardinality(LiveOf(p)) - 1
    BY <2>3, Shrunk DEF CounterInv
  <2>5. counter[p] - 1 \in Nat /\ counter[p] - 1 = Cardinality(LiveOf(p) \ {n})
    BY <2>4 DEF CounterInv
  <2>6. /\ counter' \in [Paths -> Nat] /\ counter'[p] = counter[p] - 1
        /\ \A q \in Paths : q # p => counter'[q] = counter[q]
    BY <2>1, <2>5 DEF CounterInv
  <2>7. ASSUME NEW q \in Paths \ Forwarding
        PROVE  IsFiniteSet(LiveOf(q)') /\ counter'[q] = Cardinality(LiveOf(q)')
    <3>1. CASE q = p
      BY <2>3, <2>4, <2>5, <2>6, <3>1
    <3>2. CASE q # p
      <4>1. LiveOf(q)' = LiveOf(q)
        BY <2>1, <3>2 DEF LiveOf
      <4> QED
        BY <2>6, <3>2, <4>1 DEF CounterInv
    <3> QED
      BY <3>1, <3>2
  <2> QED
    BY <2>6, <2>7 DEF CounterInv
<1>2. CASE count[<<p, n>>] # 1
  BY <1>2 DEF Release, CounterInv, LiveOf
<1> QED
  BY <1>1, <1>2

LEMMA CounterAfterReceive ==
  ASSUME CodecPipelineAssumption, IInv, CounterInv, NEW p \in Paths, Receive(p)
  PROVE  CounterInv'
<1>1. counter' = [counter EXCEPT ![p] = counter[p] + 1]
  BY DEF Receive
<1>2. /\ counter' \in [Paths -> Nat] /\ counter'[p] = counter[p] + 1
      /\ \A q \in Paths : q # p => counter'[q] = counter[q]
  BY <1>1 DEF CounterInv
<1>3. CASE p \in Forwarding
  <2>1. live' = live
    BY <1>3 DEF Receive
  <2> QED
    BY <1>2, <1>3, <2>1 DEF CounterInv, LiveOf
<1>4. CASE p \notin Forwarding
  <2>1. serial[p] \in Nat /\ MaxSerial[p] \in Nat /\ serial[p] + 1 \in 1 .. MaxSerial[p]
    BY DEF Receive, IInv, Types, CodecPipelineAssumption
  <2>2. PICK n \in Serials : n = serial[p] + 1
    BY <2>1 DEF Serials
  <2>3. live' = live \cup {<<p, n>>}
    BY <1>4, <2>2 DEF Receive, IInv, Types
  <2>4. n \notin LiveOf(p)
    BY <2>1, <2>2, NotYetLive DEF LiveOf
  <2>5. LiveOf(p)' = LiveOf(p) \cup {n}
    BY <2>3 DEF LiveOf
  <2>6. /\ IsFiniteSet(LiveOf(p)')
        /\ Cardinality(LiveOf(p)') = Cardinality(LiveOf(p)) + 1
    <3>1. /\ IsFiniteSet(LiveOf(p) \cup {n})
          /\ Cardinality(LiveOf(p) \cup {n}) = Cardinality(LiveOf(p)) + 1
      BY <1>4, <2>4, Grown DEF CounterInv
    <3> QED
      BY <2>5, <3>1
  <2>7. ASSUME NEW q \in Paths \ Forwarding
        PROVE  IsFiniteSet(LiveOf(q)') /\ counter'[q] = Cardinality(LiveOf(q)')
    <3>1. CASE q = p
      BY <1>2, <2>6, <3>1 DEF CounterInv
    <3>2. CASE q # p
      <4>1. LiveOf(q)' = LiveOf(q)
        BY <2>3, <3>2 DEF LiveOf
      <4> QED
        BY <1>2, <3>2, <4>1 DEF CounterInv
    <3> QED
      BY <3>1, <3>2
  <2> QED
    BY <1>2, <2>7 DEF CounterInv
<1> QED
  BY <1>3, <1>4

LEMMA CounterNext ==
  ASSUME CodecPipelineAssumption, IInv, CounterInv, [Next]_vars
  PROVE  CounterInv'
<1>1. CASE \E p \in Paths : Receive(p)
  BY <1>1, CounterAfterReceive
<1>2. CASE \E p \in Paths : ForwardSent(p)
  <2>1. PICK p \in Forwarding : /\ p \in Paths /\ counter[p] > 0 /\ live' = live
                                /\ counter' = [counter EXCEPT ![p] = counter[p] - 1]
    BY <1>2 DEF ForwardSent
  <2>2. counter[p] - 1 \in Nat
    BY <2>1 DEF CounterInv
  <2>3. counter' \in [Paths -> Nat] /\ \A q \in Paths \ Forwarding : counter'[q] = counter[q]
    BY <2>1, <2>2 DEF CounterInv
  <2> QED
    BY <2>1, <2>3 DEF CounterInv, LiveOf
<1>3. CASE \E p \in Paths : DropHold(p)
  <2>1. PICK p \in Paths : DropHold(p)
    BY <1>3
  <2>2. PICK n \in Serials : n = serial[p] /\ at[p] = "offering" /\ Release(p, n) /\ p \notin Forwarding
    BY <2>1 DEF DropHold, IInv, Offering
  <2>3. <<p, n>> \in Paths \X Serials /\ Holds(<<p, n>>) = 1
    BY <2>2, HoldsOf DEF IInv
  <2>4. count[<<p, n>>] >= 1
    BY <2>3, NeededType DEF IInv
  <2> QED
    BY <2>2, <2>4, CounterAfterRelease
<1>4. CASE \E o \in Outputs : ReleaseRecv(o)
  <2>1. PICK o \in Outputs : ReleaseRecv(o)
    BY <1>4
  <2>2. PICK q \in Seq(Paths \X Serials) : q = releasing[o]
    BY DEF IInv, Types
  <2>3. q # <<>> /\ Release(Head(q)[1], Head(q)[2])
    BY <2>1, <2>2 DEF ReleaseRecv
  <2>4. Head(q) \in Paths \X Serials /\ Head(q) = q[1] /\ 1 \in 1 .. Len(q)
    BY <2>3
  <2>5. PICK p \in Paths, n \in Serials : <<p, n>> = Head(q) /\ Release(p, n)
    BY <2>3, <2>4
  <2>6. <<p, n>> \in ToSet(q)
    BY <2>4, <2>5, InToSet
  <2>7. o \in ReleasersOf(<<p, n>>) /\ <<p, n>> \in Paths \X Serials
    BY <2>2, <2>6 DEF ReleasersOf
  <2>8. IsFiniteSet(ReleasersOf(<<p, n>>))
    BY <2>7 DEF IInv, Counted
  <2>9. Cardinality(ReleasersOf(<<p, n>>)) >= 1
    BY <2>7, <2>8, Shrunk
  <2>10. count[<<p, n>>] >= 1
    BY <2>7, <2>9, NeededType DEF IInv
  <2>11. p \notin Forwarding
    BY <2>7, ReleasersTask, SomeInput DEF IInv
  <2> QED
    BY <2>5, <2>10, <2>11, CounterAfterRelease
<1>5. CASE \/ \E p \in Paths : CountTask(p) \/ InsertInput(p)
           \/ \E t \in Tasks : Worker(t)
           \/ \E s \in Senders : Send(s)
           \/ UNCHANGED vars
  <2>1. UNCHANGED <<counter, live>>
    BY <1>5 DEF CountTask, InsertInput, Worker, StartCoding, CodeRow, StoreRow, Send, vars
  <2> QED
    BY <2>1 DEF CounterInv, LiveOf
<1> QED
  BY <1>1, <1>2, <1>3, <1>4, <1>5 DEF Next, ReceiveThread

LEMMA CountersStay == ASSUME CodecPipelineAssumption PROVE Spec => []CounterInv
<1>1. Init => CounterInv
  <2> SUFFICES ASSUME Init PROVE CounterInv
    OBVIOUS
  <2>1. \A p : LiveOf(p) = {}
    BY DEF Init, LiveOf
  <2>2. counter \in [Paths -> Nat] /\ \A p \in Paths : counter[p] = 0
    BY DEF Init
  <2> QED
    BY <2>1, <2>2, FS_EmptySet DEF CounterInv
<1>2. IInv /\ CounterInv /\ [Next]_vars => CounterInv'
  BY CounterNext
<1> QED
  BY <1>1, <1>2, Invariance, PTL DEF Spec

(* A path counts each of its packets that is in the proxy once. *)
THEOREM CountersAreInputs == ASSUME CodecPipelineAssumption PROVE Spec => []CounterIsLive
<1>1. CounterInv => CounterIsLive
  BY DEF CounterInv, CounterIsLive, LiveOf
<1> QED
  BY <1>1, CountersStay, PTL

----------------------------------------------------------------------------
(* The bounds on counters and counts.  No more than one output of a task has inputs
   left to release: the others have left before it, and found that it had not. *)
OneReleases ==
  \A c \in Codecs, n \in Serials : \A i, j \in 1 .. Rows[c] :
    /\ releasing[<<<<c, i>>, n>>] # <<>>
    /\ releasing[<<<<c, j>>, n>>] # <<>>
    => i = j

Bounds ==
  /\ \A p \in Paths : serial[p] <= MaxSerial[p] /\ counter[p] <= Room
  /\ \A c \in Codecs, n \in Serials : row[<<c, n>>] <= Rows[c] + 1 /\ unsent[<<c, n>>] <= Rows[c]
  /\ sentUpTo \in [Senders -> {0} \cup Serials]

BoundInv == IInv /\ CounterInv /\ Bounds /\ OneReleases

LEMMA InitBounds ==
  ASSUME CodecPipelineAssumption, Init
  PROVE  Bounds /\ OneReleases
<1>1. Bounds
  BY DEF CodecPipelineAssumption, Init, Bounds, Tasks
<1>2. OneReleases
  BY OutputPairs DEF Init, OneReleases, Outputs
<1> QED
  BY <1>1, <1>2

(* A thread releases inputs only of a task that was being coded just before: nobody
   else releases any of it. *)
LEMMA LeaveBounds ==
  ASSUME CodecPipelineAssumption, IInv, Bounds, OneReleases,
         NEW c \in Codecs, NEW i \in 1 .. Rows[c], NEW n \in Serials,
         stage[<<c, n>>] = "coding", Leave(<<<<c, i>>, n>>, <<c, n>>)
  PROVE  /\ OneReleases'
         /\ \A d \in Codecs, m \in Serials : unsent'[<<d, m>>] <= Rows[d]
<1> DEFINE o == <<<<c, i>>, n>>
<1>1. /\ o \in Outputs /\ releasing \in [Outputs -> Seq(Paths \X Serials)]
      /\ unsent \in [Tasks -> Nat] /\ \A d \in Codecs : Rows[d] \in Nat
  BY OutputPairs DEF Outputs, IInv, Types, CodecPipelineAssumption
<1>2. \A j \in 1 .. Rows[c] : releasing[<<<<c, j>>, n>>] = <<>>
  BY DEF IInv, ReleasesOfOneTask
<1>3. \A x \in Outputs : x # o => releasing'[x] = releasing[x]
  BY <1>1 DEF Leave
<1>4. ASSUME NEW d \in Codecs, NEW m \in Serials, NEW j \in 1 .. Rows[d],
             releasing'[<<<<d, j>>, m>>] # <<>>
      PROVE  IF <<d, m>> = <<c, n>> THEN j = i ELSE releasing[<<<<d, j>>, m>>] # <<>>
  <2>1. <<<<d, j>>, m>> \in Outputs
    BY OutputPairs DEF Outputs
  <2>2. CASE <<<<d, j>>, m>> = o
    BY <2>2
  <2>3. CASE <<<<d, j>>, m>> # o
    <3>1. releasing[<<<<d, j>>, m>>] # <<>>
      BY <1>3, <1>4, <2>1, <2>3
    <3>2. <<d, m>> # <<c, n>>
      BY <1>2, <3>1
    <3> QED
      BY <3>1, <3>2
  <2> QED
    BY <2>2, <2>3
<1>5. OneReleases'
  <2> SUFFICES ASSUME NEW d \in Codecs, NEW m \in Serials, NEW j \in 1 .. Rows[d],
                      NEW k \in 1 .. Rows[d],
                      releasing'[<<<<d, j>>, m>>] # <<>>, releasing'[<<<<d, k>>, m>>] # <<>>
               PROVE  j = k
    BY DEF OneReleases
  <2>1. CASE <<d, m>> = <<c, n>>
    BY <1>4, <2>1
  <2>2. CASE <<d, m>> # <<c, n>>
    BY <1>4, <2>2 DEF OneReleases
  <2> QED
    BY <2>1, <2>2
<1>6. ASSUME NEW d \in Codecs, NEW m \in Serials
      PROVE  unsent'[<<d, m>>] <= Rows[d]
  <2>1. <<d, m>> \in Tasks /\ <<c, n>> \in Tasks
    BY DEF Tasks
  <2>2. unsent'[<<d, m>>] \in {unsent[<<d, m>>], unsent[<<d, m>>] - 1, 0}
    BY <1>1, <2>1 DEF Leave
  <2> QED
    BY <1>1, <2>1, <2>2 DEF Bounds
<1> QED
  BY <1>5, <1>6

(* No other step makes a thread start to release. *)
LEMMA SameReleases ==
  ASSUME OneReleases,
         \A c \in Codecs, n \in Serials : \A i \in 1 .. Rows[c] :
           releasing'[<<<<c, i>>, n>>] # <<>> => releasing[<<<<c, i>>, n>>] # <<>>
  PROVE  OneReleases'
BY DEF OneReleases

(* A released packet makes room. *)
LEMMA ReleaseBounds ==
  ASSUME Bounds, CounterInv, NEW p \in Paths, NEW n, Release(p, n),
         CodecPipelineAssumption
  PROVE  \A q \in Paths : counter'[q] <= Room
<1>1. \A q \in Paths : counter[q] \in Nat /\ counter[q] <= Room
  BY DEF Bounds, CounterInv
<1>2. \A q \in Paths : counter'[q] \in {counter[q], counter[q] - 1}
  BY DEF Release, CounterInv
<1> QED
  BY <1>1, <1>2 DEF CodecPipelineAssumption

LEMMA BoundsNext ==
  ASSUME CodecPipelineAssumption, BoundInv, [Next]_vars
  PROVE  Bounds' /\ OneReleases'
<1>1. /\ \A p \in Paths : /\ counter[p] \in Nat /\ counter[p] <= Room
                          /\ serial[p] \in Nat /\ serial[p] <= MaxSerial[p]
                          /\ MaxSerial[p] \in Nat
      /\ Room \in Nat /\ \A c \in Codecs : Rows[c] \in Nat /\ Rows[c] >= 1
      /\ counter \in [Paths -> Nat] /\ serial \in [Paths -> Nat]
      /\ row \in [Tasks -> Nat] /\ unsent \in [Tasks -> Nat]
  BY DEF BoundInv, Bounds, CounterInv, IInv, Types, CodecPipelineAssumption
<1>2. CASE \E p \in Paths : Receive(p) \/ ForwardSent(p)
  <2>1. PICK p \in Paths : Receive(p) \/ ForwardSent(p)
    BY <1>2
  <2>2. UNCHANGED <<row, unsent, sentUpTo, releasing>>
    BY <2>1 DEF Receive, ForwardSent, taskVars, sendVars
  <2>3. \A q \in Paths : counter'[q] <= Room /\ serial'[q] <= MaxSerial[q]
    <3>1. CASE Receive(p)
      BY <1>1, <3>1 DEF Receive, HasRoom
    <3>2. CASE ForwardSent(p)
      BY <1>1, <3>2 DEF ForwardSent, recvVars
    <3> QED
      BY <2>1, <3>1, <3>2
  <2> QED
    BY <2>2, <2>3 DEF BoundInv, Bounds, OneReleases
<1>3. CASE \E p \in Paths : CountTask(p) \/ InsertInput(p)
  <2>1. UNCHANGED <<serial, counter, row, unsent, sentUpTo, releasing>>
    BY <1>3 DEF CountTask, InsertInput, taskVars, sendVars
  <2> QED
    BY <2>1 DEF BoundInv, Bounds, OneReleases
<1>4. CASE \E p \in Paths : DropHold(p)
  <2>1. PICK p \in Paths : DropHold(p)
    BY <1>4
  <2>2. UNCHANGED <<serial, row, unsent, sentUpTo, releasing>> /\ Release(p, serial[p])
    BY <2>1 DEF DropHold, taskVars, sendVars
  <2>3. \A q \in Paths : counter'[q] <= Room
    BY <2>2, ReleaseBounds DEF BoundInv
  <2> QED
    BY <2>2, <2>3 DEF BoundInv, Bounds, OneReleases
<1>5. CASE \E t \in Tasks : StartCoding(t) \/ CodeRow(t)
  <2>1. PICK c \in Codecs, n \in Serials : StartCoding(<<c, n>>) \/ CodeRow(<<c, n>>)
    <3>1. PICK t \in Tasks : StartCoding(t) \/ CodeRow(t)
      BY <1>5
    <3>2. \E c \in Codecs, n \in Serials : t = <<c, n>>
      BY DEF Tasks
    <3> QED
      BY <3>1, <3>2
  <2>2. UNCHANGED <<serial, counter, sentUpTo, releasing>> /\ <<c, n>> \in Tasks
    BY <2>1 DEF StartCoding, CodeRow, recvVars, sendVars, Tasks
  <2>3. ASSUME NEW d \in Codecs, NEW m \in Serials
        PROVE  row'[<<d, m>>] <= Rows[d] + 1 /\ unsent'[<<d, m>>] <= Rows[d]
    <3>1. <<d, m>> \in Tasks
      BY DEF Tasks
    <3>2. row[<<d, m>>] <= Rows[d] + 1 /\ unsent[<<d, m>>] <= Rows[d]
      BY DEF BoundInv, Bounds
    <3>3. CASE StartCoding(<<c, n>>)
      BY <1>1, <2>2, <3>1, <3>2, <3>3 DEF StartCoding, InitialUnsent
    <3>4. CASE CodeRow(<<c, n>>)
      BY <1>1, <2>2, <3>1, <3>2, <3>4 DEF CodeRow
    <3> QED
      BY <2>1, <3>3, <3>4
  <2> QED
    BY <2>2, <2>3 DEF BoundInv, Bounds, OneReleases
<1>6. CASE \E t \in Tasks : StoreRow(t)
  <2>1. PICK c \in Codecs, n \in Serials : StoreRow(<<c, n>>)
    <3>1. PICK t \in Tasks : StoreRow(t)
      BY <1>6
    <3>2. \E c \in Codecs, n \in Serials : t = <<c, n>>
      BY DEF Tasks
    <3> QED
      BY <3>1, <3>2
  <2>2. PICK i \in Nat : i = row[<<c, n>>] /\ <<c, n>> \in Tasks
    BY <1>1 DEF Tasks
  <2>3. /\ stage[<<c, n>>] = "coding" /\ i <= Rows[c]
        /\ row' = [row EXCEPT ![<<c, n>>] = i + 1]
        /\ UNCHANGED <<serial, counter, sentUpTo>>
        /\ Leave(<<<<c, i>>, n>>, <<c, n>>)
    BY <2>1, <2>2 DEF StoreRow, recvVars
  <2>4. i \in 1 .. Rows[c]
    BY <1>1, <2>2, <2>3 DEF BoundInv, IInv, OutputsOfTasks, TaskOutputs
  <2>5. /\ OneReleases'
        /\ \A d \in Codecs, m \in Serials : unsent'[<<d, m>>] <= Rows[d]
    BY <2>3, <2>4, LeaveBounds DEF BoundInv
  <2>6. ASSUME NEW d \in Codecs, NEW m \in Serials
        PROVE  row'[<<d, m>>] <= Rows[d] + 1
    <3>1. <<d, m>> \in Tasks /\ row[<<d, m>>] <= Rows[d] + 1
      BY DEF Tasks, BoundInv, Bounds
    <3> QED
      BY <1>1, <2>2, <2>3, <3>1
  <2> QED
    BY <2>3, <2>5, <2>6 DEF BoundInv, Bounds
<1>7. CASE \E s \in Senders : Send(s)
  <2>1. PICK c \in Codecs : \E i \in 1 .. Rows[c] : Send(<<c, i>>)
    BY <1>7, OutputPairs
  <2>2. PICK i \in 1 .. Rows[c] : Send(<<c, i>>)
    BY <2>1
  <2>3. PICK n \in Serials : n = sentUpTo[<<c, i>>] + 1 /\ <<<<c, i>>, n>> \in buffered
    <3>1. <<<<c, i>>, sentUpTo[<<c, i>>] + 1>> \in Outputs
      BY <2>2 DEF Send, BoundInv, IInv, Types
    <3> QED
      BY <2>2, <3>1 DEF Send, Outputs
  <2>4. /\ ~storeAndForward /\ Leave(<<<<c, i>>, n>>, <<c, n>>)
        /\ sentUpTo' = [sentUpTo EXCEPT ![<<c, i>>] = n]
        /\ UNCHANGED <<serial, counter, row>>
    BY <2>2, <2>3 DEF Send, recvVars
  <2>5. stage[<<c, n>>] = "coding"
    <3>1. TaskOutputs(c, n)
      BY DEF BoundInv, IInv, OutputsOfTasks
    <3> QED
      BY <2>3, <2>4, <3>1, RowOutput
  <2>6. /\ OneReleases'
        /\ \A d \in Codecs, m \in Serials : unsent'[<<d, m>>] <= Rows[d]
    BY <2>4, <2>5, LeaveBounds DEF BoundInv
  <2>7. sentUpTo' \in [Senders -> {0} \cup Serials]
    BY <2>4 DEF BoundInv, Bounds
  <2> QED
    BY <2>4, <2>6, <2>7 DEF BoundInv, Bounds
<1>8. CASE \E o \in Outputs : ReleaseRecv(o)
  <2>1. PICK o \in Outputs : ReleaseRecv(o)
    BY <1>8
  <2>2. PICK q \in Seq(Paths \X Serials) : q = releasing[o] /\ q # <<>>
    BY <2>1 DEF ReleaseRecv, BoundInv, IInv, Types
  <2>3. Head(q) \in Paths \X Serials /\ Release(Head(q)[1], Head(q)[2])
    BY <2>1, <2>2 DEF ReleaseRecv
  <2>4. \A p \in Paths : counter'[p] <= Room
    <3>1. PICK p \in Paths, n \in Serials : Release(p, n)
      BY <2>3
    <3> QED
      BY <3>1, ReleaseBounds DEF BoundInv
  <2>5. /\ UNCHANGED <<serial, row, unsent, sentUpTo>>
        /\ releasing' = [releasing EXCEPT ![o] = Tail(q)]
    BY <2>1, <2>2 DEF ReleaseRecv, recvVars, taskVars
  <2>6. OneReleases'
    <3>1. ASSUME NEW c \in Codecs, NEW n \in Serials, NEW i \in 1 .. Rows[c],
                 releasing'[<<<<c, i>>, n>>] # <<>>
          PROVE  releasing[<<<<c, i>>, n>>] # <<>>
      <4>1. <<<<c, i>>, n>> \in Outputs
        BY OutputPairs DEF Outputs
      <4> QED
        BY <2>2, <2>5, <3>1, <4>1 DEF BoundInv, IInv, Types
    <3> QED
      BY <3>1, SameReleases DEF BoundInv
  <2> QED
    BY <2>4, <2>5, <2>6 DEF BoundInv, Bounds
<1>9. CASE UNCHANGED vars
  BY <1>9 DEF vars, recvVars, taskVars, sendVars, BoundInv, Bounds, OneReleases
<1> QED
  BY <1>2, <1>3, <1>4, <1>5, <1>6, <1>7, <1>8, <1>9 DEF Next, ReceiveThread, Worker

(* There are no more codecs than places in their list. *)
LEMMA CodecsListed ==
  ASSUME CodecPipelineAssumption
  PROVE  IsFiniteSet(Codecs) /\ Cardinality(Codecs) <= Len(CodecList) /\ Len(CodecList) \in Nat
<1>1. /\ CodecList \in Seq(Codecs) /\ Len(CodecList) \in Nat
      /\ DOMAIN CodecList = 1 .. Len(CodecList)
  BY DEF CodecPipelineAssumption
<1>2. CodecList \in [1 .. Len(CodecList) -> Codecs]
  BY <1>1
<1>3. \A c \in Codecs : \E k \in 1 .. Len(CodecList) : CodecList[k] = c
  BY <1>1, InToSet DEF Codecs
<1>4. CodecList \in Surjection(1 .. Len(CodecList), Codecs)
  BY <1>2, <1>3 DEF Surjection
<1>5. IsFiniteSet(1 .. Len(CodecList)) /\ Cardinality(1 .. Len(CodecList)) = Len(CodecList)
  BY <1>1, UpTo
<1> QED
  BY <1>1, <1>4, <1>5, FS_Surjection

(* The codecs whose tasks of a packet are over but for releasing it. *)
Releasers(x) == {c \in Codecs : \E i \in 1 .. Rows[c] : <<<<c, i>>, x[2]>> \in ReleasersOf(x)}

(* Nobody needs a packet twice for the same codec. *)
LEMMA HoldersAreCodecs ==
  ASSUME CodecPipelineAssumption, IInv, OneReleases, NEW p \in Paths, NEW n \in Serials
  PROVE  count[<<p, n>>] <= Len(CodecList) + 1
<1> DEFINE x == <<p, n>>
           T == TasksWith(x)
           D == Releasers(x)
<1>1. /\ x \in Paths \X Serials /\ Types /\ Counted
      /\ IsFiniteSet(T) /\ IsFiniteSet(ReleasersOf(x))
  BY DEF IInv, Counted
<1>2. ASSUME NEW o \in ReleasersOf(x)
      PROVE  \E c \in Codecs : \E i \in 1 .. Rows[c] :
               /\ o = <<<<c, i>>, n>> /\ stage[<<c, n>>] = "done"
               /\ p \in received[<<c, n>>]
  <2>1. \E c \in Codecs : \E i \in 1 .. Rows[c] :
          /\ o = <<<<c, i>>, n>> /\ stage[<<c, n>>] = "done"
          /\ p \in InputSet(c) /\ p \in received[<<c, n>>]
    BY ReleasersTask DEF IInv
  <2> QED
    BY <2>1
<1>3. \A o \in ReleasersOf(x) : \E c \in Codecs : \E i \in 1 .. Rows[c] : o = <<<<c, i>>, n>>
  <2> SUFFICES ASSUME NEW o \in ReleasersOf(x)
               PROVE  \E c \in Codecs : \E i \in 1 .. Rows[c] : o = <<<<c, i>>, n>>
    OBVIOUS
  <2>1. PICK c \in Codecs : \E i \in 1 .. Rows[c] :
           /\ o = <<<<c, i>>, n>> /\ stage[<<c, n>>] = "done"
           /\ p \in received[<<c, n>>]
    BY <1>2
  <2> QED
    BY <2>1
<1>4. /\ IsFiniteSet(D) /\ D \subseteq Codecs /\ T \subseteq Codecs
      /\ Cardinality(ReleasersOf(x)) <= Cardinality(D)
  <2>1. IsFiniteSet(D) /\ D \subseteq Codecs /\ T \subseteq Codecs
    BY CodecsListed, FS_Subset DEF Releasers, TasksWith
  <2> DEFINE f == [o \in ReleasersOf(x) |-> o[1][1]]
  <2>2. f \in [ReleasersOf(x) -> D]
    <3> SUFFICES ASSUME NEW o \in ReleasersOf(x) PROVE o[1][1] \in D
      OBVIOUS
    <3>1. PICK c \in Codecs : \E i \in 1 .. Rows[c] : o = <<<<c, i>>, n>>
      BY <1>3
    <3>2. o[1][1] = c /\ x[2] = n
      BY <3>1
    <3> QED
      BY <3>1, <3>2 DEF Releasers
  <2>3. ASSUME NEW o \in ReleasersOf(x), NEW u \in ReleasersOf(x), o[1][1] = u[1][1]
        PROVE  o = u
    <3>1. PICK c \in Codecs : \E i \in 1 .. Rows[c] : o = <<<<c, i>>, n>>
      BY <1>3
    <3>2. PICK i \in 1 .. Rows[c] : o = <<<<c, i>>, n>>
      BY <3>1
    <3>3. PICK d \in Codecs : \E j \in 1 .. Rows[d] : u = <<<<d, j>>, n>>
      BY <1>3
    <3>4. PICK j \in 1 .. Rows[d] : u = <<<<d, j>>, n>>
      BY <3>3
    <3>5. c = d
      BY <2>3, <3>2, <3>4
    <3>6. \A v \in ReleasersOf(x) : releasing[v] # <<>>
      <4> SUFFICES ASSUME NEW v \in ReleasersOf(x), releasing[v] = <<>> PROVE FALSE
        OBVIOUS
      <4>1. x \in ToSet(releasing[v])
        BY DEF ReleasersOf
      <4> QED
        BY <4>1 DEF ToSet
    <3>7. i = j
      BY <3>2, <3>4, <3>5, <3>6 DEF OneReleases
    <3> QED
      BY <3>2, <3>4, <3>5, <3>7
  <2>4. f \in Injection(ReleasersOf(x), D)
    BY <2>2, <2>3 DEF Injection, IsInjective
  <2> QED
    BY <2>1, <2>4, FS_Injection
<1>5. \A c \in D : stage[<<c, n>>] = "done" /\ p \in received[<<c, n>>]
  <2> SUFFICES ASSUME NEW c \in D
               PROVE  stage[<<c, n>>] = "done" /\ p \in received[<<c, n>>]
    OBVIOUS
  <2>1. PICK i \in 1 .. Rows[c] : <<<<c, i>>, n>> \in ReleasersOf(x)
    BY DEF Releasers
  <2> QED
    BY <1>2, <2>1
<1>6. \A c \in T : stage[<<c, n>>] # "done" /\ p \in received[<<c, n>>]
  BY DEF TasksWith
<1> HIDE DEF T, D
<1>7. T \cap D = {}
  BY <1>5, <1>6
<1>8. /\ IsFiniteSet(T \cup D) /\ Cardinality(T \cup D) = Cardinality(T) + Cardinality(D)
      /\ Cardinality(T) \in Nat /\ Cardinality(D) \in Nat
  <2>1. Cardinality(T \cap D) = 0
    BY <1>7, FS_EmptySet
  <2>2. Cardinality(T) \in Nat /\ Cardinality(D) \in Nat
    BY <1>1, <1>4, FS_CardinalityType DEF T
  <2>3. /\ IsFiniteSet(T \cup D)
        /\ Cardinality(T \cup D) = Cardinality(T) + Cardinality(D) - Cardinality(T \cap D)
    BY <1>1, <1>4, FS_Union
  <2> QED
    BY <2>1, <2>2, <2>3
<1>9. PICK len \in Nat : len = Len(CodecList) /\ Cardinality(Codecs) <= len
  BY CodecsListed
<1>10. Holds(x) + Cardinality(T \cup D) <= len + 1
  <2>1. T \cup D \subseteq Codecs /\ IsFiniteSet(Codecs) /\ Cardinality(Codecs) \in Nat
    BY <1>4, CodecsListed, FS_CardinalityType
  <2>2. CASE serial[p] = n /\ at[p] = "inserting"
    <3>1. PICK k \in 1 .. Len(CodecList) : k = offered[p]
      BY <2>2 DEF IInv, Offering
    <3> DEFINE c == CodecList[k]
    <3>2. c \in Codecs
      BY DEF CodecPipelineAssumption
    <3>3. c \notin T \cup D
      <4>1. p \notin received[<<c, n>>]
        BY <2>2, <3>1, <3>2 DEF IInv, InputsHaveCome
      <4> QED
        BY <1>5, <1>6, <4>1
    <3> HIDE DEF c
    <3>4. /\ IsFiniteSet((T \cup D) \cup {c}) /\ Cardinality(T \cup D) \in Nat
          /\ Cardinality((T \cup D) \cup {c}) = Cardinality(T \cup D) + 1
      BY <1>8, <3>3, Grown
    <3>5. Cardinality((T \cup D) \cup {c}) <= Cardinality(Codecs)
      BY <2>1, <3>2, FS_Subset
    <3>6. Holds(x) = 2
      BY <1>1, <2>2, HoldsOf
    <3> QED
      BY <1>9, <2>1, <3>4, <3>5, <3>6
  <2>3. CASE ~(serial[p] = n /\ at[p] = "inserting")
    <3>1. Cardinality(T \cup D) <= Cardinality(Codecs)
      BY <2>1, FS_Subset
    <3>2. Holds(x) \in {0, 1}
      BY <1>1, <2>3, HoldsOf DEF Types
    <3> QED
      BY <1>8, <1>9, <2>1, <3>1, <3>2
  <2> QED
    BY <2>2, <2>3
<1>11. /\ count[x] = Holds(x) + Cardinality(T) + Cardinality(ReleasersOf(x))
       /\ Holds(x) \in Nat /\ Cardinality(ReleasersOf(x)) \in Nat
  BY <1>1, NeededType DEF T
<1> QED
  BY <1>4, <1>8, <1>9, <1>10, <1>11

(* No path has more packets in the proxy than there is room for, and no count goes
   beyond one for each codec and one for the receive thread, for every number of
   paths, codecs, outputs and packets. *)
THEOREM TypeCorrect == ASSUME CodecPipelineAssumption PROVE Spec => []TypeOK
<1>1. Init => Bounds /\ OneReleases
  BY InitBounds
<1>2. IInv /\ CounterInv /\ Bounds /\ OneReleases /\ [Next]_vars => Bounds' /\ OneReleases'
  BY BoundsNext DEF BoundInv
<1>3. IInv /\ CounterInv /\ Bounds /\ OneReleases => TypeOK
  <2> SUFFICES ASSUME BoundInv PROVE TypeOK
    BY DEF BoundInv
  <2>1. \A p \in Paths : serial[p] \in 0 .. MaxSerial[p]
    BY DEF BoundInv, IInv, Types, Bounds, CodecPipelineAssumption
  <2>2. counter \in [Paths -> 0 .. Room]
    BY DEF BoundInv, CounterInv, Bounds, CodecPipelineAssumption
  <2>3. count \in [Paths \X Serials -> 0 .. Len(CodecList) + 1]
    <3>1. count \in [Paths \X Serials -> Nat] /\ Len(CodecList) \in Nat
      BY CodecsListed DEF BoundInv, IInv, Types
    <3>2. \A p \in Paths, n \in Serials : count[<<p, n>>] <= Len(CodecList) + 1
      BY HoldersAreCodecs DEF BoundInv
    <3>3. \A x \in Paths \X Serials : count[x] <= Len(CodecList) + 1
      BY <3>2
    <3> QED
      BY <3>1, <3>3
  <2>4. ASSUME NEW t \in Tasks
        PROVE  row[t] \in 0 .. Rows[t[1]] + 1 /\ unsent[t] \in 0 .. Rows[t[1]]
    <3>1. PICK c \in Codecs, n \in Serials : t = <<c, n>> /\ t[1] = c
      BY DEF Tasks
    <3>2. row[t] \in Nat /\ unsent[t] \in Nat /\ Rows[c] \in Nat
      BY DEF BoundInv, IInv, Types, CodecPipelineAssumption
    <3>3. row[t] <= Rows[c] + 1 /\ unsent[t] <= Rows[c]
      BY <3>1 DEF BoundInv, Bounds
    <3> QED
      BY <3>1, <3>2, <3>3
  <2> QED
    BY <2>1, <2>2, <2>3, <2>4 DEF TypeOK, BoundInv, Bounds, IInv, Types
<1> QED
  BY <1>1, <1>2, <1>3, Invariance, CountersStay, PTL DEF Spec

=============================================================================
