----------------------- MODULE MemoryAllocatorProofs -----------------------
(* The guarantees of MemoryAllocator for a pool of any size. *)
EXTENDS MemoryAllocator, TLAPS

(* The initial state of the allocator satisfies the inductive invariant. *)
LEMMA InitIInv == Init => IInv
<1> SUFFICES ASSUME Init PROVE IInv
  OBVIOUS
<1>1. TypeOK
  <2>1. /\ allocated \in [Slots -> BOOLEAN]
        /\ clean \in [Slots -> BOOLEAN]
    BY DEF Init
  <2>2. head \in 0 .. Size /\ prevHead \in 1 .. Size
    BY SizeAssumption DEF Init
  <2>3. QED
    BY <2>1, <2>2 DEF Init, TypeOK
<1>2. QED
  BY <1>1 DEF Init, IInv, HeldIsInitialized

(* Every step of New() and of Delete() preserves the inductive invariant:   *)
(* the flag of an element is up exactly while someone holds the element or  *)
(* is inside Delete() with it, and the scan has been where Visited says.    *)
LEMMA NextIInv == IInv /\ [Next]_vars => IInv'
<1> SUFFICES ASSUME IInv, [Next]_vars PROVE IInv'
  OBVIOUS
<1> USE SizeAssumption
<1>1. CASE BeginNew
  <2>1. TypeOK'
    BY <1>1 DEF BeginNew, IInv, TypeOK, Slots, ScanEnd
  <2>2. seen' = Visited'
    BY <1>1 DEF BeginNew, IInv, TypeOK, Slots, ScanEnd, Visited
  <2>3. QED
    BY <1>1, <2>1, <2>2 DEF BeginNew, IInv, HeldIsInitialized, Slots
<1>2. CASE SkipAllocated
  <2>1. Position \in Slots /\ Position + 1 \in 1 .. Size
    BY DEF IInv, TypeOK, Slots, Position
  <2>2. TypeOK'
    BY <1>2, <2>1 DEF SkipAllocated, IInv, TypeOK, Slots
  <2>3. scanning' => seen' = Visited'
    <3> SUFFICES ASSUME scanning' PROVE seen' = Visited'
      OBVIOUS
    <3>1. /\ seen = Visited
          /\ seen' = Visited \cup {Position}
          /\ head' = Position + 1
          /\ head' # prevHead
          /\ prevHead' = prevHead
      BY <1>2 DEF SkipAllocated, IInv
    <3>2. head \in 0 .. Size /\ prevHead \in 1 .. Size
      BY DEF IInv, TypeOK
    <3>3. QED
      BY <3>1, <3>2 DEF Visited, Position
  <2>4. QED
    BY <1>2, <2>2, <2>3 DEF SkipAllocated, IInv, HeldIsInitialized, Slots
<1>3. CASE Claim
  <2>1. Position \in Slots /\ Position + 1 \in 1 .. Size
    BY DEF IInv, TypeOK, Slots, Position
  <2>2. Position \notin held \cup releasing
    BY <1>3, <2>1 DEF Claim, IInv
  <2>3. TypeOK'
    <3>1. (allocated \in [Slots -> BOOLEAN] /\ clean \in [Slots -> BOOLEAN])'
      BY <1>3, <2>1 DEF Claim, IInv, TypeOK
    <3>2. (head \in 0 .. Size /\ prevHead \in 1 .. Size)'
      BY <1>3, <2>1 DEF Claim, IInv, TypeOK
    <3>3. (held \subseteq Slots /\ releasing \subseteq Slots /\ seen \subseteq Slots)'
      BY <1>3, <2>1 DEF Claim, IInv, TypeOK, Slots
    <3>4. (scanning \in BOOLEAN)'
      BY <1>3 DEF Claim
    <3>5. QED
      BY <3>1, <3>2, <3>3, <3>4 DEF TypeOK, Slots
  <2>4. (held \cap releasing = {})'
    BY <1>3, <2>2 DEF Claim, IInv
  <2>5. \A s \in Slots : allocated'[s] <=> s \in held' \cup releasing'
    BY <1>3, <2>1 DEF Claim, IInv, TypeOK
  <2>6. HeldIsInitialized'
    BY <1>3, <2>1 DEF Claim, IInv, TypeOK, HeldIsInitialized
  <2>7. QED
    BY <1>3, <2>3, <2>4, <2>5, <2>6 DEF Claim, IInv, Slots
<1>4. ASSUME NEW s \in Slots, DeleteRelease(s) PROVE IInv'
  <2>1. TypeOK'
    BY <1>4 DEF DeleteRelease, IInv, TypeOK, Slots
  <2>2. HeldIsInitialized'
    BY <1>4 DEF DeleteRelease, IInv, TypeOK, HeldIsInitialized
  <2>3. Visited' = Visited
    BY <1>4 DEF DeleteRelease, Visited
  <2>4. /\ (held \cap releasing = {})'
        /\ held' \cup releasing' = held \cup releasing
    BY <1>4 DEF DeleteRelease, IInv
  <2>5. \A r \in Slots : allocated'[r] <=> r \in held' \cup releasing'
    BY <1>4, <2>4 DEF DeleteRelease, IInv
  <2>6. (scanning => seen = Visited)'
    BY <1>4, <2>3 DEF DeleteRelease, IInv
  <2>7. QED
    BY <2>1, <2>2, <2>4, <2>5, <2>6 DEF IInv, Slots
<1>5. ASSUME NEW s \in Slots, DeleteUnflag(s) PROVE IInv'
  <2>1. TypeOK'
    BY <1>5 DEF DeleteUnflag, IInv, TypeOK, Slots
  <2>2. \A r \in Slots : allocated'[r] <=> r \in held' \cup releasing'
    BY <1>5 DEF DeleteUnflag, IInv, TypeOK
  <2>3. Visited' = Visited
    BY <1>5 DEF DeleteUnflag, Visited
  <2>4. QED
    BY <1>5, <2>1, <2>2, <2>3 DEF DeleteUnflag, IInv, HeldIsInitialized, Slots
<1>6. CASE UNCHANGED vars
  BY <1>6 DEF vars, IInv, TypeOK, HeldIsInitialized, Visited, Slots
<1>7. QED
  BY <1>1, <1>2, <1>3, <1>4, <1>5, <1>6 DEF Next, Delete

(* The inductive invariant holds in every reachable state. *)
THEOREM Invariance == Spec => []IInv
  BY InitIInv, NextIInv, PTL DEF Spec

(* Every variable of the allocator keeps its type: the head stays within    *)
(* the array, so New() never indexes outside _data.                         *)
THEOREM TypeCorrect == Spec => []TypeOK
<1>1. IInv => TypeOK
  BY DEF IInv
<1>2. QED
  BY Invariance, <1>1, PTL

(* An element in use is never released under its holder. *)
THEOREM Initialized == Spec => []HeldIsInitialized
<1>1. IInv => HeldIsInitialized
  BY DEF IInv
<1>2. QED
  BY Invariance, <1>1, PTL

(* New() never hands out an element that is held or still being deleted. *)
THEOREM NoDoubleHandout == Spec => HandedOutOnce
<1>1. IInv /\ [Next]_vars => [Claim => Position \notin held \cup releasing]_vars
  <2> SUFFICES ASSUME IInv, Claim
               PROVE  Position \notin held \cup releasing
    OBVIOUS
  <2>1. Position \in Slots
    BY SizeAssumption DEF IInv, TypeOK, Slots, Position
  <2>2. QED
    BY <2>1 DEF Claim, IInv
<1>2. QED
  BY Invariance, <1>1, PTL DEF Spec, HandedOutOnce

(* New() fails only after it has found every single element in use. *)
THEOREM FailureIsExhaustion == Spec => FailsOnlyWhenAllBusy
<1>1. IInv /\ [Next]_vars
        => [ (scanning /\ ~scanning' /\ held' = held) => seen' = Slots ]_vars
  <2> SUFFICES ASSUME IInv, Next, scanning, ~scanning', held' = held
               PROVE  seen' = Slots
    OBVIOUS
  <2>1. Position \in Slots
    BY SizeAssumption DEF IInv, TypeOK, Slots, Position
  <2>2. ~Claim
    BY <2>1 DEF Claim, IInv
  <2>3. ~BeginNew
    BY DEF BeginNew
  <2>4. \A s \in Slots : ~Delete(s)
    BY DEF Delete, DeleteRelease, DeleteUnflag
  <2>5. SkipAllocated
    BY <2>2, <2>3, <2>4 DEF Next
  <2>6. /\ seen' = Visited \cup {Position}
        /\ Position + 1 = prevHead
    BY <2>5 DEF SkipAllocated, IInv
  <2>7. head \in 0 .. Size /\ prevHead \in 1 .. Size
    BY DEF IInv, TypeOK
  <2>8. QED
    BY <2>6, <2>7, SizeAssumption DEF Visited, Position, Slots
<1>2. QED
  BY Invariance, <1>1, PTL DEF Spec, FailsOnlyWhenAllBusy
=============================================================================
