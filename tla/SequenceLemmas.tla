--------------------------- MODULE SequenceLemmas ---------------------------
(***************************************************************************)
(* Facts about sequences, their elements and FlattenSeq, for the proofs    *)
(* about the modules that keep tasks and outputs in sequences.             *)
(***************************************************************************)
EXTENDS Naturals, Sequences, SequencesExt, SequenceTheorems, WellFoundedInduction, TLAPS

----------------------------------------------------------------------------
(* Sequences: the elements of an Append, a concatenation and a tail, and   *)
(* when they differ.                                                       *)

(* The elements of a sequence. *)
LEMMA InSet ==
  ASSUME NEW S, NEW q \in Seq(S)
  PROVE  /\ \A x : x \in ToSet(q) <=> \E i \in 1 .. Len(q) : x = q[i]
         /\ ToSet(q) \subseteq S
<1>1. DOMAIN q = 1 .. Len(q) /\ \A i \in 1 .. Len(q) : q[i] \in S
  OBVIOUS
<1>2. QED
  BY <1>1 DEF ToSet

(* The elements of a sequence differ when its indices do. *)
LEMMA InjectiveSeq ==
  ASSUME NEW S, NEW q \in Seq(S)
  PROVE  IsInjective(q) <=> \A i, j \in 1 .. Len(q) : q[i] = q[j] => i = j
<1>1. DOMAIN q = 1 .. Len(q)
  OBVIOUS
<1>2. QED
  BY <1>1 DEF IsInjective

(* A concatenation has the elements of both parts. *)
LEMMA OfConcat ==
  ASSUME NEW S, NEW p \in Seq(S), NEW q \in Seq(S)
  PROVE  /\ p \o q \in Seq(S)
         /\ ToSet(p \o q) = ToSet(p) \cup ToSet(q)
         /\ IsInjective(p \o q) <=> /\ IsInjective(p) /\ IsInjective(q)
                                    /\ ToSet(p) \cap ToSet(q) = {}
<1>1. /\ p \o q \in Seq(S) /\ Len(p) \in Nat /\ Len(q) \in Nat
      /\ Len(p \o q) = Len(p) + Len(q)
  OBVIOUS
<1>2. /\ \A i \in 1 .. Len(p) : i \in 1 .. Len(p \o q) /\ (p \o q)[i] = p[i]
      /\ \A i \in 1 .. Len(q) : Len(p) + i \in 1 .. Len(p \o q) /\ (p \o q)[Len(p) + i] = q[i]
  BY <1>1
<1>3. \A i \in 1 .. Len(p \o q) :
         i \in 1 .. Len(p) \/ \E k \in 1 .. Len(q) : i = Len(p) + k
  <2>1. SUFFICES ASSUME NEW i \in 1 .. Len(p \o q), i \notin 1 .. Len(p)
                 PROVE  \E k \in 1 .. Len(q) : i = Len(p) + k
    OBVIOUS
  <2>2. i - Len(p) \in 1 .. Len(q) /\ i = Len(p) + (i - Len(p))
    BY <1>1, <2>1
  <2>3. QED
    BY <2>2
<1>4. ToSet(p \o q) = ToSet(p) \cup ToSet(q)
  <2>1. ASSUME NEW x PROVE x \in ToSet(p \o q) <=> x \in ToSet(p) \/ x \in ToSet(q)
    <3>1. x \in ToSet(p \o q) <=> \E i \in 1 .. Len(p \o q) : x = (p \o q)[i]
      BY <1>1, InSet
    <3>2. x \in ToSet(p) <=> \E i \in 1 .. Len(p) : x = p[i]
      BY InSet
    <3>3. x \in ToSet(q) <=> \E i \in 1 .. Len(q) : x = q[i]
      BY InSet
    <3>4. QED
      BY <1>2, <1>3, <3>1, <3>2, <3>3
  <2>2. QED
    BY <2>1
<1>5. ASSUME IsInjective(p \o q)
      PROVE  IsInjective(p) /\ IsInjective(q) /\ ToSet(p) \cap ToSet(q) = {}
  <2>1. \A i, j \in 1 .. Len(p \o q) : (p \o q)[i] = (p \o q)[j] => i = j
    BY <1>1, <1>5, InjectiveSeq
  <2>2. \A i, j \in 1 .. Len(p) : p[i] = p[j] => i = j
    BY <1>2, <2>1
  <2>3. \A i, j \in 1 .. Len(q) : q[i] = q[j] => i = j
    <3>1. SUFFICES ASSUME NEW i \in 1 .. Len(q), NEW j \in 1 .. Len(q), q[i] = q[j]
                   PROVE  i = j
      OBVIOUS
    <3>2. Len(p) + i = Len(p) + j
      BY <1>2, <2>1, <3>1
    <3>3. QED
      BY <1>1, <3>2
  <2>4. ASSUME NEW x \in ToSet(p) \cap ToSet(q) PROVE FALSE
    <3>1. PICK i \in 1 .. Len(p) : x = p[i]
      BY <2>4, InSet
    <3>2. PICK j \in 1 .. Len(q) : x = q[j]
      BY <2>4, InSet
    <3>3. i = Len(p) + j
      BY <1>2, <2>1, <3>1, <3>2
    <3>4. QED
      BY <1>1, <3>3
  <2>5. QED
    BY <2>2, <2>3, <2>4, InjectiveSeq
<1>6. ASSUME IsInjective(p), IsInjective(q), ToSet(p) \cap ToSet(q) = {}
      PROVE  IsInjective(p \o q)
  <2>1. /\ \A i, j \in 1 .. Len(p) : p[i] = p[j] => i = j
        /\ \A i, j \in 1 .. Len(q) : q[i] = q[j] => i = j
    BY <1>6, InjectiveSeq
  <2>2. \A i \in 1 .. Len(p), j \in 1 .. Len(q) : p[i] # q[j]
    BY <1>6, InSet
  <2>3. SUFFICES ASSUME NEW i \in 1 .. Len(p \o q), NEW j \in 1 .. Len(p \o q),
                        (p \o q)[i] = (p \o q)[j]
                 PROVE  i = j
    BY <1>1, InjectiveSeq
  <2>4. CASE i \in 1 .. Len(p) /\ j \in 1 .. Len(p)
    BY <1>2, <2>1, <2>3, <2>4
  <2>5. CASE i \notin 1 .. Len(p) /\ j \notin 1 .. Len(p)
    <3>1. PICK k \in 1 .. Len(q) : i = Len(p) + k
      BY <1>3, <2>5
    <3>2. PICK l \in 1 .. Len(q) : j = Len(p) + l
      BY <1>3, <2>5
    <3>3. q[k] = q[l]
      BY <1>2, <2>3, <3>1, <3>2
    <3>4. QED
      BY <2>1, <3>1, <3>2, <3>3
  <2>6. CASE i \in 1 .. Len(p) /\ j \notin 1 .. Len(p)
    BY <1>2, <1>3, <2>2, <2>3, <2>6
  <2>7. CASE i \notin 1 .. Len(p) /\ j \in 1 .. Len(p)
    BY <1>2, <1>3, <2>2, <2>3, <2>7
  <2>8. QED
    BY <2>4, <2>5, <2>6, <2>7
<1>7. QED
  BY <1>1, <1>4, <1>5, <1>6

(* A sequence of one element. *)
LEMMA OfOne ==
  ASSUME NEW S, NEW x \in S
  PROVE  <<x>> \in Seq(S) /\ ToSet(<<x>>) = {x} /\ IsInjective(<<x>>)
<1>1. <<x>> \in Seq(S) /\ Len(<<x>>) = 1 /\ <<x>>[1] = x
  OBVIOUS
<1>2. \A i \in 1 .. Len(<<x>>) : i = 1
  BY <1>1
<1>3. IsInjective(<<x>>)
  <2>1. IsInjective(<<x>>) <=> \A i, j \in 1 .. Len(<<x>>) : <<x>>[i] = <<x>>[j] => i = j
    BY <1>1, InjectiveSeq
  <2>2. QED
    BY <1>2, <2>1
<1>4. ToSet(<<x>>) = {x}
  <2>1. \A y : y \in ToSet(<<x>>) <=> \E i \in 1 .. Len(<<x>>) : y = <<x>>[i]
    BY <1>1, InSet
  <2>2. QED
    BY <1>1, <1>2, <2>1
<1>5. QED
  BY <1>1, <1>3, <1>4

(* A sequence of none. *)
LEMMA OfNone ==
  ASSUME NEW S
  PROVE  <<>> \in Seq(S) /\ ToSet(<<>>) = {} /\ IsInjective(<<>>)
<1>1. <<>> \in Seq(S) /\ 1 .. Len(<<>>) = {} /\ DOMAIN <<>> = {}
  OBVIOUS
<1>2. QED
  BY <1>1 DEF ToSet, IsInjective

(* Appending is concatenating one element. *)
LEMMA OfAppend ==
  ASSUME NEW S, NEW q \in Seq(S), NEW x \in S
  PROVE  /\ ToSet(Append(q, x)) = ToSet(q) \cup {x}
         /\ IsInjective(Append(q, x)) <=> IsInjective(q) /\ x \notin ToSet(q)
<1>1. Append(q, x) = q \o <<x>>
  OBVIOUS
<1>2. <<x>> \in Seq(S) /\ ToSet(<<x>>) = {x} /\ IsInjective(<<x>>)
  BY OfOne
<1>3. /\ ToSet(q \o <<x>>) = ToSet(q) \cup ToSet(<<x>>)
      /\ IsInjective(q \o <<x>>) <=> /\ IsInjective(q) /\ IsInjective(<<x>>)
                                     /\ ToSet(q) \cap ToSet(<<x>>) = {}
  BY <1>2, OfConcat
<1>4. QED
  BY <1>1, <1>2, <1>3, Zenon

(* A sequence that is not empty is its head followed by its tail. *)
LEMMA OfTail ==
  ASSUME NEW S, NEW q \in Seq(S), q # <<>>
  PROVE  /\ Head(q) \in S /\ Tail(q) \in Seq(S) /\ q = <<Head(q)>> \o Tail(q)
         /\ ToSet(q) = {Head(q)} \cup ToSet(Tail(q))
         /\ IsInjective(q) <=> IsInjective(Tail(q)) /\ Head(q) \notin ToSet(Tail(q))
<1>1. Head(q) \in S /\ Tail(q) \in Seq(S)
  OBVIOUS
<1>2. q = <<Head(q)>> \o Tail(q)
  OBVIOUS
<1>3. /\ <<Head(q)>> \in Seq(S) /\ ToSet(<<Head(q)>>) = {Head(q)}
      /\ IsInjective(<<Head(q)>>)
  BY <1>1, OfOne
<1>4. /\ ToSet(<<Head(q)>> \o Tail(q)) = ToSet(<<Head(q)>>) \cup ToSet(Tail(q))
      /\ IsInjective(<<Head(q)>> \o Tail(q)) <=>
           /\ IsInjective(<<Head(q)>>) /\ IsInjective(Tail(q))
           /\ ToSet(<<Head(q)>>) \cap ToSet(Tail(q)) = {}
  BY <1>1, <1>3, OfConcat
<1>5. ToSet(q) = {Head(q)} \cup ToSet(Tail(q))
  BY <1>2, <1>3, <1>4, Zenon
<1>6. IsInjective(q) <=> IsInjective(Tail(q)) /\ Head(q) \notin ToSet(Tail(q))
  BY <1>2, <1>3, <1>4, Zenon
<1>7. QED
  BY <1>1, <1>2, <1>5, <1>6

(* An element put in front. *)
LEMMA OfCons ==
  ASSUME NEW S, NEW q \in Seq(S), NEW x \in S
  PROVE  /\ <<x>> \o q \in Seq(S) /\ Len(<<x>> \o q) = Len(q) + 1
         /\ (<<x>> \o q)[1] = x /\ \A i \in 1 .. Len(q) : (<<x>> \o q)[i + 1] = q[i]
         /\ ToSet(<<x>> \o q) = {x} \cup ToSet(q)
         /\ IsInjective(<<x>> \o q) <=> IsInjective(q) /\ x \notin ToSet(q)
<1>1. <<x>> \in Seq(S) /\ ToSet(<<x>>) = {x} /\ IsInjective(<<x>>)
  BY OfOne
<1>2. /\ ToSet(<<x>> \o q) = ToSet(<<x>>) \cup ToSet(q)
      /\ IsInjective(<<x>> \o q) <=> /\ IsInjective(<<x>>) /\ IsInjective(q)
                                     /\ ToSet(<<x>>) \cap ToSet(q) = {}
  BY <1>1, OfConcat
<1>3. /\ <<x>> \o q \in Seq(S) /\ Len(<<x>> \o q) = Len(q) + 1
      /\ (<<x>> \o q)[1] = x /\ \A i \in 1 .. Len(q) : (<<x>> \o q)[i + 1] = q[i]
  <2>1. Len(q) \in Nat
    OBVIOUS
  <2>2. <<x>> \o q \in Seq(S) /\ Len(<<x>> \o q) = Len(q) + 1 /\ (<<x>> \o q)[1] = x
    BY <2>1
  <2>3. ASSUME NEW i \in 1 .. Len(q) PROVE (<<x>> \o q)[i + 1] = q[i]
    BY <2>1
  <2>4. QED
    BY <2>2, <2>3
<1>4. QED
  BY <1>1, <1>2, <1>3

(* Two sequences that make up a third. *)
LEMMA OfParts ==
  ASSUME NEW S, NEW q \in Seq(S), NEW p \in Seq(S), NEW r \in Seq(S),
         Len(q) = Len(p) + Len(r), \A i \in 1 .. Len(p) : p[i] = q[i],
         \A i \in 1 .. Len(r) : r[i] = q[Len(p) + i]
  PROVE  q = p \o r
<1>1. /\ p \o r \in Seq(S) /\ Len(p \o r) = Len(q)
      /\ Len(p) \in Nat /\ Len(r) \in Nat
  OBVIOUS
<1>2. ASSUME NEW i \in 1 .. Len(q) PROVE (p \o r)[i] = q[i]
  <2>1. CASE i <= Len(p)
    BY <1>1, <2>1
  <2>2. CASE i > Len(p)
    <3>1. i - Len(p) \in 1 .. Len(r) /\ Len(p) + (i - Len(p)) = i
      BY <1>1, <2>2
    <3>2. (p \o r)[i] = r[i - Len(p)]
      BY <1>1, <2>2
    <3>3. QED
      BY <3>1, <3>2
  <2>3. QED
    BY <1>1, <2>1, <2>2
<1>3. QED
  BY <1>1, <1>2, SeqEqual

(* A sequence cut in two. *)
LEMMA OfSplit ==
  ASSUME NEW S, NEW q \in Seq(S), NEW n \in 0 .. Len(q),
         NEW p, p = SubSeq(q, 1, n), NEW r, r = SubSeq(q, n + 1, Len(q))
  PROVE  /\ p \in Seq(S) /\ Len(p) = n /\ \A i \in 1 .. n : p[i] = q[i]
         /\ r \in Seq(S) /\ Len(r) = Len(q) - n
         /\ \A i \in 1 .. Len(q) - n : r[i] = q[n + i]
<1>1. Len(q) \in Nat /\ n \in Nat /\ n <= Len(q)
  OBVIOUS
<1>2. p \in Seq(S) /\ Len(p) = n /\ \A i \in 1 .. n : p[i] = q[i]
  <2>1. \A i \in 1 .. n : q[i] \in S
    BY <1>1
  <2>2. /\ SubSeq(q, 1, n) \in Seq(S)
        /\ Len(SubSeq(q, 1, n)) = IF 1 <= n THEN n - 1 + 1 ELSE 0
        /\ \A i \in 1 .. n - 1 + 1 : SubSeq(q, 1, n)[i] = q[1 + i - 1]
    BY <1>1, <2>1, SubSeqProperties
  <2>3. QED
    BY <1>1, <2>2
<1>3. /\ r \in Seq(S) /\ Len(r) = Len(q) - n
      /\ \A i \in 1 .. Len(q) - n : r[i] = q[n + i]
  <2>1. \A i \in n + 1 .. Len(q) : q[i] \in S
    BY <1>1
  <2>2. /\ SubSeq(q, n + 1, Len(q)) \in Seq(S)
        /\ Len(SubSeq(q, n + 1, Len(q))) = IF n + 1 <= Len(q) THEN Len(q) - (n + 1) + 1 ELSE 0
        /\ \A i \in 1 .. Len(q) - (n + 1) + 1 : SubSeq(q, n + 1, Len(q))[i] = q[n + 1 + i - 1]
    BY <1>1, <2>1, SubSeqProperties
  <2>3. QED
    BY <1>1, <2>2
<1>4. QED
  BY <1>2, <1>3

(* The parts of a sequence of outputs. *)
LEMMA TailType ==
  ASSUME NEW S, NEW q \in Seq(S), q # <<>>
  PROVE  Head(q) \in S /\ Tail(q) \in Seq(S)
OBVIOUS

(* Of two sequences with the same elements, each has those of the other.   *)
LEMMA SameElements ==
  ASSUME NEW S, NEW p \in Seq(S), NEW q \in Seq(S), ToSet(p) = ToSet(q)
  PROVE  \A i \in 1 .. Len(p) : \E j \in 1 .. Len(q) : p[i] = q[j]
<1> SUFFICES ASSUME NEW i \in 1 .. Len(p) PROVE \E j \in 1 .. Len(q) : p[i] = q[j]
  OBVIOUS
<1>1. DOMAIN p = 1 .. Len(p) /\ DOMAIN q = 1 .. Len(q)
  OBVIOUS
<1>2. p[i] \in ToSet(p)
  BY <1>1 DEF ToSet
<1>3. p[i] \in ToSet(q)
  BY <1>2
<1>4. QED
  BY <1>1, <1>3 DEF ToSet

(* A tail does not depend on the head. *)
LEMMA SameTail ==
  ASSUME NEW S, NEW p \in Seq(S), NEW q \in Seq(S), p # <<>>, q # <<>>, Len(p) = Len(q),
         \A i \in 1 .. Len(q) : i # 1 => p[i] = q[i]
  PROVE  Tail(p) = Tail(q)
<1>1. /\ Tail(p) \in Seq(S) /\ Len(Tail(p)) = Len(p) - 1
      /\ \A i \in 1 .. Len(Tail(p)) : Tail(p)[i] = p[i + 1]
  BY HeadTailProperties
<1>2. /\ Tail(q) \in Seq(S) /\ Len(Tail(q)) = Len(q) - 1
      /\ \A i \in 1 .. Len(Tail(q)) : Tail(q)[i] = q[i + 1]
  BY HeadTailProperties
<1>3. \A i \in 1 .. Len(Tail(q)) : i + 1 \in 1 .. Len(q) /\ i + 1 # 1
  BY <1>2
<1>4. QED
  BY <1>1, <1>2, <1>3, SeqEqual

----------------------------------------------------------------------------
(* Induction over the natural numbers, for a set instead of a predicate.   *)

Less == {ss \in Nat \X Nat : ss[1] < ss[2]}

(* There is no infinite descent below a natural number. *)
LEMMA LessIsWellFounded == IsWellFoundedOn(Less, Nat)
<1>1. OpToRel(<, Nat) = Less
  BY DEF OpToRel, Less
<1>2. QED
  BY <1>1, NatLessThanWellFounded

(* A set of numbers with zero and all successors has every number. *)
LEMMA Induction ==
  ASSUME NEW T \in SUBSET Nat, 0 \in T, \A n \in T : n + 1 \in T
  PROVE  T = Nat
<1>1. SUFFICES ASSUME Nat \ T # {} PROVE FALSE
  OBVIOUS
<1>2. PICK x \in Nat \ T : \A y \in Nat \ T : <<y, x>> \notin Less
  BY <1>1, LessIsWellFounded, WFMin
<1>3. x - 1 \in Nat /\ x - 1 < x
  BY <1>2
<1>4. <<x - 1, x>> \in Less
  BY <1>2, <1>3 DEF Less
<1>5. x - 1 \in T
  BY <1>2, <1>3, <1>4
<1>6. x - 1 + 1 = x
  BY <1>2
<1>7. QED
  BY <1>2, <1>5, <1>6

----------------------------------------------------------------------------
(* FlattenSeq.  g is the running concatenation of the sequences of fs.     *)

Runs(g, fs, n) ==
  \A i \in 1 .. n : g[i] = IF i = 1 THEN fs[i] ELSE g[i - 1] \o fs[i]

(* There is one.                                                           *)
LEMMA RunsExist ==
  ASSUME NEW S, NEW fs \in Seq(Seq(S)), NEW n \in Nat, n <= Len(fs)
  PROVE  \E g \in [1 .. n -> Seq(S)] : Runs(g, fs, n)
<1> DEFINE T == {m \in Nat : m <= Len(fs) => \E g \in [1 .. m -> Seq(S)] : Runs(g, fs, m)}
<1>1. 0 \in T
  <2>1. [i \in 1 .. 0 |-> <<>>] \in [1 .. 0 -> Seq(S)]
    OBVIOUS
  <2>2. Runs([i \in 1 .. 0 |-> <<>>], fs, 0)
    BY DEF Runs
  <2>3. QED
    BY <2>1, <2>2
<1>2. ASSUME NEW m \in T PROVE m + 1 \in T
  <2>1. SUFFICES ASSUME m + 1 <= Len(fs)
                 PROVE  \E g \in [1 .. m + 1 -> Seq(S)] : Runs(g, fs, m + 1)
    OBVIOUS
  <2>2. m \in Nat /\ Len(fs) \in Nat /\ m <= Len(fs)
    BY <2>1
  <2>3. PICK g \in [1 .. m -> Seq(S)] : Runs(g, fs, m)
    BY <2>2
  <2> DEFINE e == IF m = 0 THEN fs[1] ELSE g[m] \o fs[m + 1]
             h == [i \in 1 .. m + 1 |-> IF i = m + 1 THEN e ELSE g[i]]
  <2>4. fs[m + 1] \in Seq(S) /\ fs[1] \in Seq(S)
    BY <2>1, <2>2
  <2>5. e \in Seq(S)
    BY <2>2, <2>3, <2>4
  <2>6. e = IF m = 0 THEN fs[1] ELSE g[m] \o fs[m + 1]
    OBVIOUS
  <2> HIDE DEF e
  <2>7. /\ h[m + 1] = e
        /\ \A i \in 1 .. m : h[i] = g[i]
        /\ h \in [1 .. m + 1 -> Seq(S)]
    <3>1. /\ m + 1 \in 1 .. m + 1
          /\ \A i \in 1 .. m : i \in 1 .. m + 1 /\ i # m + 1
          /\ \A i \in 1 .. m + 1 : i # m + 1 => i \in 1 .. m
      BY <2>2
    <3>2. QED
      BY <2>3, <2>5, <3>1
  <2> HIDE DEF h
  <2>8. ASSUME NEW i \in 1 .. m + 1
        PROVE  h[i] = IF i = 1 THEN fs[i] ELSE h[i - 1] \o fs[i]
    <3>1. CASE i = m + 1
      <4>1. CASE m = 0
        BY <2>6, <2>7, <3>1, <4>1
      <4>2. CASE m # 0
        <5>1. m \in 1 .. m /\ i - 1 = m /\ i # 1
          BY <2>2, <3>1, <4>2
        <5>2. QED
          BY <2>6, <2>7, <3>1, <4>2, <5>1
      <4>3. QED
        BY <4>1, <4>2
    <3>2. CASE i # m + 1
      <4>1. i \in 1 .. m /\ (i # 1 => i - 1 \in 1 .. m)
        BY <2>2, <3>2
      <4>2. g[i] = IF i = 1 THEN fs[i] ELSE g[i - 1] \o fs[i]
        BY <2>3, <4>1 DEF Runs
      <4>3. QED
        BY <2>7, <4>1, <4>2
    <3>3. QED
      BY <3>1, <3>2
  <2>9. Runs(h, fs, m + 1)
    BY <2>8 DEF Runs
  <2>10. QED
    BY <2>7, <2>9
<1> HIDE DEF T
<1>3. T \in SUBSET Nat
  BY DEF T
<1>4. T = Nat
  BY <1>1, <1>2, <1>3, Induction
<1>5. QED
  BY <1>4 DEF T

(* And only one.                                                           *)
LEMMA RunsUnique ==
  ASSUME NEW fs, NEW n \in Nat, NEW g, NEW h, Runs(g, fs, n), Runs(h, fs, n)
  PROVE  \A i \in 1 .. n : g[i] = h[i]
<1> DEFINE T == {i \in Nat : i \in 1 .. n => g[i] = h[i]}
<1>1. 0 \in T
  OBVIOUS
<1>2. ASSUME NEW i \in T PROVE i + 1 \in T
  <2>1. SUFFICES ASSUME i + 1 \in 1 .. n PROVE g[i + 1] = h[i + 1]
    OBVIOUS
  <2>2. i \in Nat /\ i + 1 - 1 = i
    OBVIOUS
  <2>3. /\ g[i + 1] = IF i + 1 = 1 THEN fs[i + 1] ELSE g[i + 1 - 1] \o fs[i + 1]
        /\ h[i + 1] = IF i + 1 = 1 THEN fs[i + 1] ELSE h[i + 1 - 1] \o fs[i + 1]
    BY <2>1 DEF Runs
  <2>4. i = 0 \/ g[i] = h[i]
    BY <2>1, <2>2
  <2>5. QED
    BY <2>2, <2>3, <2>4
<1> HIDE DEF T
<1>3. T \in SUBSET Nat
  BY DEF T
<1>4. T = Nat
  BY <1>1, <1>2, <1>3, Induction
<1>5. QED
  BY <1>4 DEF T

(* FlattenSeq is where the run ends. *)
LEMMA FlattenIs ==
  ASSUME NEW S, NEW fs \in Seq(Seq(S)), fs # <<>>,
         NEW g \in [1 .. Len(fs) -> Seq(S)], Runs(g, fs, Len(fs))
  PROVE  FlattenSeq(fs) = g[Len(fs)]
<1> DEFINE Is(f) == f = [i \in 1 .. Len(fs) |-> IF i = 1 THEN fs[i] ELSE f[i - 1] \o fs[i]]
<1>1. Len(fs) \in Nat /\ Len(fs) # 0
  OBVIOUS
<1>2. FlattenSeq(fs) = (CHOOSE f : Is(f))[Len(fs)]
  BY <1>1 DEF FlattenSeq
<1>3. Is(g)
  BY DEF Runs
<1>4. Is(CHOOSE f : Is(f))
  <2> HIDE DEF Is
  <2>1. QED
    BY <1>3
<1>5. \A f : Is(f) => Runs(f, fs, Len(fs))
  <2>1. SUFFICES ASSUME NEW f, Is(f), NEW i \in 1 .. Len(fs)
                 PROVE  f[i] = IF i = 1 THEN fs[i] ELSE f[i - 1] \o fs[i]
    BY DEF Runs
  <2>2. QED
    BY <2>1
<1> HIDE DEF Is
<1>6. Runs(CHOOSE f : Is(f), fs, Len(fs))
  BY <1>4, <1>5
<1>7. (CHOOSE f : Is(f))[Len(fs)] = g[Len(fs)]
  BY <1>1, <1>6, RunsUnique
<1>8. QED
  BY <1>2, <1>7

(* Concatenation does not depend on where one starts. *)
LEMMA Associative ==
  ASSUME NEW S
  PROVE  \A p, q, r \in Seq(S) : p \o (q \o r) = (p \o q) \o r
BY ConcatAssociative, SMTT(60)

(* A sequence is empty if its length is 0.                                 *)
LEMMA NonEmpty ==
  ASSUME NEW S, NEW q \in Seq(S)
  PROVE  Len(q) \in Nat /\ (q = <<>> <=> Len(q) = 0)
OBVIOUS

(* Flattening a single sequence, or none.                                  *)
LEMMA FlattenNone == FlattenSeq(<<>>) = <<>>
BY DEF FlattenSeq

(* A single sequence. *)
LEMMA FlattenOne ==
  ASSUME NEW S, NEW f \in Seq(S)
  PROVE  FlattenSeq(<<f>>) = f
<1> DEFINE g == [i \in 1 .. 1 |-> f]
<1>1. <<f>> \in Seq(Seq(S)) /\ <<f>> # <<>> /\ Len(<<f>>) = 1 /\ <<f>>[1] = f
  OBVIOUS
<1>2. g \in [1 .. 1 -> Seq(S)] /\ g[1] = f
  OBVIOUS
<1>3. Runs(g, <<f>>, 1)
  BY <1>1, <1>2 DEF Runs
<1> HIDE DEF g
<1>4. QED
  BY <1>1, <1>2, <1>3, FlattenIs

(* The runs of sequences that are not empty.                               *)
LEMMA FlattenRuns ==
  ASSUME NEW S, NEW fs \in Seq(Seq(S)), fs # <<>>
  PROVE  \E g \in [1 .. Len(fs) -> Seq(S)] :
           Runs(g, fs, Len(fs)) /\ FlattenSeq(fs) = g[Len(fs)]
<1>1. Len(fs) \in Nat /\ Len(fs) <= Len(fs)
  OBVIOUS
<1>2. PICK g \in [1 .. Len(fs) -> Seq(S)] : Runs(g, fs, Len(fs))
  BY <1>1, RunsExist
<1>3. QED
  BY <1>2, FlattenIs

(* What is flattened is a sequence of elements. *)
LEMMA FlattenType ==
  ASSUME NEW S, NEW fs \in Seq(Seq(S))
  PROVE  FlattenSeq(fs) \in Seq(S)
<1>1. CASE fs = <<>>
  BY <1>1, FlattenNone, EmptySeq
<1>2. CASE fs # <<>>
  <2>1. PICK g \in [1 .. Len(fs) -> Seq(S)] : FlattenSeq(fs) = g[Len(fs)]
    BY <1>2, FlattenRuns
  <2>2. Len(fs) \in 1 .. Len(fs)
    <3>1. Len(fs) \in Nat /\ Len(fs) # 0
      BY <1>2
    <3>2. QED
      BY <3>1
  <2>3. g[Len(fs)] \in Seq(S)
    BY <2>2
  <2>4. QED
    BY <2>1, <2>3, Zenon
<1>3. QED
  BY <1>1, <1>2

(* A further sequence comes at the end.                                    *)
LEMMA FlattenAppend ==
  ASSUME NEW S, NEW fs \in Seq(Seq(S)), NEW f \in Seq(S)
  PROVE  FlattenSeq(Append(fs, f)) = FlattenSeq(fs) \o f
<1>1. CASE fs = <<>>
  <2>1. Append(fs, f) = <<f>> /\ <<>> \o f = f
    BY <1>1
  <2>2. QED
    BY <1>1, <2>1, FlattenOne, FlattenNone
<1>2. CASE fs # <<>>
  <2> DEFINE n == Len(fs)
             gs == Append(fs, f)
  <2>1. /\ n \in Nat \ {0} /\ gs \in Seq(Seq(S)) /\ gs # <<>> /\ Len(gs) = n + 1
        /\ gs[n + 1] = f /\ \A i \in 1 .. n : gs[i] = fs[i]
    BY <1>2
  <2> HIDE DEF n, gs
  <2>2. PICK g \in [1 .. n + 1 -> Seq(S)] :
          Runs(g, gs, n + 1) /\ FlattenSeq(gs) = g[n + 1]
    BY <2>1, FlattenRuns
  <2> DEFINE h == [i \in 1 .. n |-> g[i]]
  <2>3. h \in [1 .. n -> Seq(S)] /\ \A i \in 1 .. n : h[i] = g[i]
    BY <2>1, <2>2
  <2> HIDE DEF h
  <2>4. Runs(h, fs, n)
    <3>1. SUFFICES ASSUME NEW i \in 1 .. n
                   PROVE  h[i] = IF i = 1 THEN fs[i] ELSE h[i - 1] \o fs[i]
      BY DEF Runs
    <3>2. i \in 1 .. n + 1 /\ (i # 1 => i - 1 \in 1 .. n)
      BY <2>1
    <3>3. g[i] = IF i = 1 THEN gs[i] ELSE g[i - 1] \o gs[i]
      BY <2>2, <3>2 DEF Runs
    <3>4. QED
      BY <2>1, <2>3, <3>2, <3>3
  <2>5. FlattenSeq(fs) = h[n]
    BY <1>2, <2>3, <2>4, FlattenIs DEF n
  <2>6. n \in 1 .. n /\ n + 1 \in 1 .. n + 1 /\ n + 1 # 1 /\ n + 1 - 1 = n
    BY <2>1
  <2>7. g[n + 1] = g[n] \o gs[n + 1]
    <3>1. \A i \in 1 .. n + 1 : g[i] = IF i = 1 THEN gs[i] ELSE g[i - 1] \o gs[i]
      BY <2>2 DEF Runs
    <3>2. PICK j \in 1 .. n + 1 : j = n + 1
      BY <2>6
    <3>3. j - 1 = n /\ j # 1
      BY <2>1, <2>6, <3>2
    <3>4. g[j] = g[j - 1] \o gs[j]
      BY <3>1, <3>3, Zenon
    <3>5. QED
      BY <3>2, <3>3, <3>4, Zenon
  <2>8. FlattenSeq(gs) = FlattenSeq(fs) \o f
    BY <2>1, <2>2, <2>3, <2>5, <2>6, <2>7
  <2>9. QED
    BY <2>8 DEF gs
<1>3. QED
  BY <1>1, <1>2

(* The first sequence comes at the front.                                  *)
LEMMA FlattenTail ==
  ASSUME NEW S, NEW fs \in Seq(Seq(S)), fs # <<>>
  PROVE  FlattenSeq(fs) = Head(fs) \o FlattenSeq(Tail(fs))
<1>0. \A p, q, r \in Seq(S) : p \o (q \o r) = (p \o q) \o r
  BY Associative, SMTT(60)
<1>1. Head(fs) \in Seq(S) /\ Tail(fs) \in Seq(Seq(S)) /\ Head(fs) = fs[1]
  OBVIOUS
<1>2. CASE Tail(fs) = <<>>
  <2>1. fs = <<Head(fs)>>
    <3>1. Len(fs) = 1
      <4>1. Len(Tail(fs)) = Len(fs) - 1 /\ Len(fs) \in Nat
        BY HeadTailProperties
      <4>2. Len(Tail(fs)) = 0
        BY <1>1, <1>2, NonEmpty
      <4>3. \A m \in Nat : m - 1 = 0 => m = 1
        OBVIOUS
      <4>4. QED
        BY <4>1, <4>2, <4>3, Zenon
    <3>2. QED
      BY <1>1, <3>1
  <2>2. FlattenSeq(<<Head(fs)>>) = Head(fs)
    BY <1>1, FlattenOne
  <2>3. Head(fs) \o <<>> = Head(fs)
    BY <1>1
  <2>4. FlattenSeq(fs) = Head(fs)
    BY <2>1, <2>2, Zenon
  <2>5. QED
    BY <1>2, <2>3, <2>4, FlattenNone
<1>3. CASE Tail(fs) # <<>>
  <2> DEFINE n == Len(Tail(fs))
             ts == Tail(fs)
  <2>1. /\ n \in Nat \ {0} /\ Len(fs) = n + 1 /\ ts \in Seq(Seq(S)) /\ Len(ts) = n
        /\ \A i \in 1 .. n : ts[i] = fs[i + 1]
        /\ \A i \in 1 .. n + 1 : fs[i] \in Seq(S)
    <3>1. Tail(fs) \in Seq(Seq(S)) /\ Len(Tail(fs)) = Len(fs) - 1
      BY HeadTailProperties
    <3>2. \A i \in 1 .. Len(Tail(fs)) : Tail(fs)[i] = fs[i + 1]
      BY HeadTailProperties
    <3>3. n \in Nat \ {0} /\ Len(fs) = n + 1
      <4>1. Len(Tail(fs)) \in Nat /\ Len(Tail(fs)) # 0 /\ Len(fs) \in Nat
        BY <1>3, <3>1, NonEmpty
      <4>2. QED
        BY <3>1, <4>1
    <3>4. \A i \in 1 .. n + 1 : fs[i] \in Seq(S)
      BY <3>3
    <3>5. QED
      BY <3>1, <3>2, <3>3, <3>4
  <2>2. PICK g \in [1 .. n -> Seq(S)] : Runs(g, ts, n) /\ FlattenSeq(ts) = g[n]
    BY <1>1, <1>3, FlattenRuns
  <2> HIDE DEF n, ts
  <2> DEFINE h == [i \in 1 .. n + 1 |-> IF i = 1 THEN fs[1] ELSE fs[1] \o g[i - 1]]
  <2>3. /\ h[1] = fs[1]
        /\ \A i \in 1 .. n : i + 1 \in 1 .. n + 1 /\ h[i + 1] = fs[1] \o g[i]
        /\ h \in [1 .. n + 1 -> Seq(S)]
    <3>1. /\ 1 \in 1 .. n + 1 /\ fs[1] \in Seq(S)
          /\ \A i \in 1 .. n + 1 : i # 1 => i - 1 \in 1 .. n
          /\ \A i \in 1 .. n : i + 1 \in 1 .. n + 1 /\ i + 1 # 1 /\ i + 1 - 1 = i
      BY <2>1
    <3>2. \A i \in 1 .. n : fs[1] \o g[i] \in Seq(S)
      BY <2>2, <3>1
    <3>3. h[1] = fs[1]
      BY <3>1
    <3>4. \A i \in 1 .. n : i + 1 \in 1 .. n + 1 /\ h[i + 1] = fs[1] \o g[i]
      <4>1. SUFFICES ASSUME NEW i \in 1 .. n PROVE h[i + 1] = fs[1] \o g[i]
        BY <3>1
      <4>2. h[i + 1] = IF i + 1 = 1 THEN fs[1] ELSE fs[1] \o g[i + 1 - 1]
        BY <3>1
      <4>3. i + 1 # 1 /\ i + 1 - 1 = i
        BY <3>1
      <4>4. QED
        BY <4>2, <4>3
    <3>5. \A i \in 1 .. n + 1 : h[i] \in Seq(S)
      BY <3>1, <3>2
    <3>6. h \in [1 .. n + 1 -> Seq(S)]
      BY <3>5
    <3>7. QED
      BY <3>3, <3>4, <3>6
  <2> HIDE DEF h
  <2>4. Runs(h, fs, n + 1)
    <3>1. SUFFICES ASSUME NEW i \in 1 .. n + 1, i # 1
                   PROVE  h[i] = h[i - 1] \o fs[i]
      BY <2>3 DEF Runs
    <3>2. PICK j \in 1 .. n : i = j + 1
      <4>1. i - 1 \in 1 .. n /\ i = i - 1 + 1
        BY <2>1, <3>1
      <4>2. QED
        BY <4>1
    <3>3. h[i] = fs[1] \o g[j] /\ i - 1 = j /\ fs[i] = ts[j]
      <4>1. i - 1 = j
        BY <2>1, <3>2
      <4>2. QED
        BY <2>1, <2>3, <3>2, <4>1
    <3>4. g[j] = IF j = 1 THEN ts[j] ELSE g[j - 1] \o ts[j]
      BY <2>2 DEF Runs
    <3>5. CASE j = 1
      BY <2>3, <3>3, <3>4, <3>5
    <3>6. CASE j # 1
      <4>1. PICK k \in 1 .. n : j = k + 1
        <5>1. j - 1 \in 1 .. n /\ j = j - 1 + 1
          BY <2>1, <3>6
        <5>2. QED
          BY <5>1
      <4>2. h[j] = fs[1] \o g[k] /\ j - 1 = k
        BY <2>3, <4>1
      <4>3. fs[1] \in Seq(S) /\ g[k] \in Seq(S) /\ ts[j] \in Seq(S)
        BY <2>1, <2>2, <4>1
      <4>4. fs[1] \o (g[k] \o ts[j]) = (fs[1] \o g[k]) \o ts[j]
        BY <1>0, <4>3, Zenon
      <4>5. QED
        BY <3>3, <3>4, <3>6, <4>2, <4>4
    <3>7. QED
      BY <3>5, <3>6
  <2>5. FlattenSeq(fs) = h[n + 1]
    <3>1. h \in [1 .. Len(fs) -> Seq(S)] /\ Runs(h, fs, Len(fs))
      BY <2>1, <2>3, <2>4
    <3>2. FlattenSeq(fs) = h[Len(fs)]
      BY <3>1, FlattenIs
    <3>3. QED
      BY <2>1, <3>2
  <2>6. n \in 1 .. n
    BY <2>1
  <2>7. FlattenSeq(fs) = fs[1] \o FlattenSeq(ts)
    BY <2>2, <2>3, <2>5, <2>6
  <2>8. QED
    BY <1>1, <2>7 DEF ts
<1>4. QED
  BY <1>2, <1>3
=============================================================================
