-------------------------- MODULE MemoryAllocator --------------------------
(***************************************************************************)
(* The fixed pool of elements of implementation/src/shared/sources/        *)
(* memory-allocator.h.  One thread, the owner, runs New(): a circular scan *)
(* for an element whose flag _allocated is down.  Any other thread may     *)
(* return an element with Delete() while the scan is under way: Delete()   *)
(* first releases what the element refers to and then lowers the flag.     *)
(* Only the flag is shared; no lock is taken.                              *)
(***************************************************************************)
EXTENDS Naturals

CONSTANT Size    \* _size, the number of elements of the pool

ASSUME SizeAssumption == Size \in Nat \ {0}

VARIABLES
  allocated,  \* the flag _allocated of every element
  clean,      \* TRUE: initialize() ran last on the element, FALSE: release()
  head,       \* _head, where the next scan starts
  prevHead,   \* _prev_head, where the scan under way stops
  scanning,   \* the owner is inside New()
  held,       \* elements the program holds a pointer to
  releasing,  \* elements inside Delete(), between release() and the flag
  seen        \* (history) elements the last or current scan found allocated

vars == <<allocated, clean, head, prevHead, scanning, held, releasing, seen>>

Slots == 0 .. Size - 1

Init ==
  /\ allocated = [s \in Slots |-> FALSE]
  /\ clean = [s \in Slots |-> TRUE]
  /\ head = 0
  /\ prevHead = Size
  /\ scanning = FALSE
  /\ held = {}
  /\ releasing = {}
  /\ seen = {}

----------------------------------------------------------------------------
(* Mutant of ScanEnd: the end of the pool is taken for its start. *)
ScanEndWrapped(h) == IF h = Size THEN 0 ELSE h

(* Mutant of ScanEnd: a scan that does not start at 0 stops at the end. *)
ScanEndAtSize(h) == Size

(* The position that ends a scan starting at h: the scan compares after it *)
(* has moved the head, so a scan from 0 ends at Size, not at 0.            *)
ScanEnd(h) == IF h = 0 THEN Size ELSE h

(* The element one iteration of the loop looks at. *)
Position == IF head = Size THEN 0 ELSE head

(* New() is called. *)
BeginNew ==
  /\ ~scanning
  /\ scanning' = TRUE
  /\ prevHead' = ScanEnd(head)
  /\ seen' = {}
  /\ UNCHANGED <<allocated, clean, head, held, releasing>>

(* One iteration finds the element in use; the scan gives up (New returns  *)
(* nullptr) when the head has come round to where it started.              *)
SkipAllocated ==
  /\ scanning
  /\ allocated[Position]
  /\ head' = Position + 1
  /\ seen' = seen \cup {Position}
  /\ scanning' = (head' # prevHead)
  /\ UNCHANGED <<allocated, clean, prevHead, held, releasing>>

(* One iteration finds the element free, claims it and returns it. *)
Claim ==
  /\ scanning
  /\ ~allocated[Position]
  /\ allocated' = [allocated EXCEPT ![Position] = TRUE]
  /\ clean' = [clean EXCEPT ![Position] = TRUE]
  /\ head' = Position + 1
  /\ scanning' = FALSE
  /\ held' = held \cup {Position}
  /\ UNCHANGED <<prevHead, releasing, seen>>

(* Delete(), first half: release() drops what the element refers to. *)
DeleteRelease(s) ==
  /\ s \in held
  /\ held' = held \ {s}
  /\ releasing' = releasing \cup {s}
  /\ clean' = [clean EXCEPT ![s] = FALSE]
  /\ UNCHANGED <<allocated, head, prevHead, scanning, seen>>

(* Delete(), second half: the flag is lowered. *)
DeleteUnflag(s) ==
  /\ s \in releasing
  /\ releasing' = releasing \ {s}
  /\ allocated' = [allocated EXCEPT ![s] = FALSE]
  /\ UNCHANGED <<clean, head, prevHead, scanning, held, seen>>

(* Mutant of Delete: the flag is lowered before the element is released. *)
DeleteFlagFirst(s) ==
  \/ /\ s \in held
     /\ held' = held \ {s}
     /\ releasing' = releasing \cup {s}
     /\ allocated' = [allocated EXCEPT ![s] = FALSE]
     /\ UNCHANGED <<clean, head, prevHead, scanning, seen>>
  \/ /\ s \in releasing
     /\ releasing' = releasing \ {s}
     /\ clean' = [clean EXCEPT ![s] = FALSE]
     /\ UNCHANGED <<allocated, head, prevHead, scanning, held, seen>>

Delete(s) == DeleteRelease(s) \/ DeleteUnflag(s)

Next ==
  \/ BeginNew
  \/ SkipAllocated
  \/ Claim
  \/ \E s \in Slots : Delete(s)

(* The owner keeps running inside New(); nobody has to call Delete(). *)
Fairness == WF_vars(SkipAllocated \/ Claim)

Spec == Init /\ [][Next]_vars /\ Fairness

----------------------------------------------------------------------------
(* Types; the head stays within the pool, and a scan never ends at 0, where *)
(* the head is not when it is compared.                                    *)
TypeOK ==
  /\ allocated \in [Slots -> BOOLEAN]
  /\ clean \in [Slots -> BOOLEAN]
  /\ head \in 0 .. Size
  /\ prevHead \in 1 .. Size
  /\ scanning \in BOOLEAN
  /\ held \subseteq Slots
  /\ releasing \subseteq Slots
  /\ seen \subseteq Slots

(* An element the program holds a pointer to has not been released since   *)
(* New() initialised it: the Delete() of its previous holder, which runs   *)
(* in another thread without a lock, is entirely over.                     *)
HeldIsInitialized == \A s \in held : clean[s]

(* New() never returns an element that someone holds or is still inside    *)
(* Delete() with.                                                          *)
HandedOutOnce == [][Claim => Position \notin held \cup releasing]_vars

(* New() returns nullptr only if it found every element of the pool in use *)
(* at some moment of the call, wherever the scan started.                  *)
FailsOnlyWhenAllBusy ==
  [][ (scanning /\ ~scanning' /\ held' = held) => seen' = Slots ]_vars

(* New() returns, even if every element stays in use. *)
NewReturns == scanning ~> ~scanning

(* Where a scan that started at prevHead has been: the inductive form of   *)
(* FailsOnlyWhenAllBusy.                                                   *)
Visited ==
  IF prevHead = Size
  THEN IF head = Size THEN {} ELSE 0 .. head - 1
  ELSE IF head >= prevHead
       THEN prevHead .. head - 1
       ELSE (prevHead .. Size - 1) \cup (0 .. head - 1)

(* The inductive invariant: the flags say who has which element. *)
IInv ==
  /\ TypeOK
  /\ held \cap releasing = {}
  /\ \A s \in Slots : allocated[s] <=> s \in held \cup releasing
  /\ HeldIsInitialized
  /\ scanning => seen = Visited
=============================================================================
