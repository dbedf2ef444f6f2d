---------------------------- MODULE FinderProofs ----------------------------
(***************************************************************************)
(* Safety of the stages that look at the frame before, for every number of *)
(* contacts: indices are unique and lasting, and how large they get.       *)
(***************************************************************************)
EXTENDS Finder, FiniteSetTheorems, TLAPS

-----------------------------------------------------------------------------
(* Sets of numbers: the smallest member, and the one with a given number of *)
(* smaller ones.                                                           *)

\* Every set of numbers has a smallest element.
LEMMA Smallest ==
  ASSUME NEW T \in SUBSET Nat, T # {}
  PROVE  \E x \in T : \A y \in T : x <= y
<1> DEFINE Upto(x) == 0..x
           Family == {Upto(x) : x \in T}
<1>1. Family \subseteq FiniteSubsetsOf(Nat) /\ Family # {}
  <2>1. \A x \in T : Upto(x) \subseteq Nat /\ IsFiniteSet(Upto(x))
    BY FS_Interval
  <2> QED
    BY <2>1 DEF FiniteSubsetsOf
<1>2. PICK F \in Family : \A G \in Family : <<G, F>> \notin StrictSubsetOrdering(Nat)
  <2>1. IsWellFoundedOn(StrictSubsetOrdering(Nat), FiniteSubsetsOf(Nat))
    BY FS_StrictSubsetOrderingWellFounded
  <2> HIDE DEF Family
  <2> QED
    BY <1>1, <2>1, WFMin
<1>3. PICK x \in T : F = Upto(x)
  BY <1>2
<1>4. ASSUME NEW y \in T, ~(x <= y) PROVE FALSE
  <2>1. y \in Nat /\ x \in Nat /\ y < x
    BY <1>4
  <2>2. Upto(y) \subseteq Upto(x) /\ Upto(y) # Upto(x)
    BY <2>1
  <2>3. Upto(y) \subseteq Nat /\ Upto(x) \subseteq Nat
    BY <2>1
  <2>4. <<Upto(y), Upto(x)>> \in StrictSubsetOrdering(Nat)
    BY <2>2, <2>3 DEF StrictSubsetOrdering
  <2> QED
    BY <1>2, <1>3, <2>4
<1> QED
  BY <1>4

LEMMA Interval ==
  ASSUME NEW a \in Int, NEW b \in Int, a <= b + 1
  PROVE  IsFiniteSet(a..b) /\ Cardinality(a..b) = b - a + 1
<1>1. IsFiniteSet(a..b) /\ Cardinality(a..b) = IF a > b THEN 0 ELSE b - a + 1
  BY FS_Interval
<1> QED
  BY <1>1

\* The numbers of a set that are smaller than one of them.
Below(S, i) == {j \in S : j < i}

\* A finite set of at least k numbers has one with k - 1 below it.
LEMMA Rank ==
  ASSUME NEW S \in SUBSET Nat, IsFiniteSet(S), NEW k \in 1..Cardinality(S)
  PROVE  \E i \in S : Cardinality(Below(S, i)) = k - 1
<1> DEFINE Bad == {n \in 1..Cardinality(S) : ~ \E i \in S : Cardinality(Below(S, i)) = n - 1}
<1>0. /\ Cardinality(S) \in Nat
      /\ \A T \in SUBSET S : IsFiniteSet(T) /\ Cardinality(T) \in Nat
  BY FS_CardinalityType, FS_Subset
<1>1. SUFFICES ASSUME Bad # {} PROVE FALSE
  BY <1>0
<1>2. PICK n \in Bad : \A m \in Bad : n <= m
  <2>1. Bad \in SUBSET Nat
    BY <1>0
  <2> HIDE DEF Bad
  <2> QED
    BY <1>1, <2>1, Smallest
<1>3. n \in Nat /\ 1 <= n /\ n <= Cardinality(S)
  BY <1>0, <1>2
<1>4. CASE n = 1
  <2>1. S # {}
    BY <1>3, FS_EmptySet
  <2>2. PICK i \in S : \A j \in S : i <= j
    BY <2>1, Smallest
  <2>3. Below(S, i) = {}
    <3>1. \A j \in S : ~(j < i)
      BY <2>2
    <3> QED
      BY <3>1 DEF Below
  <2>4. Cardinality(Below(S, i)) = n - 1
    BY <1>4, <2>3, FS_EmptySet
  <2> QED
    BY <1>2, <2>4
<1>5. CASE n > 1
  <2>1. n - 1 \in 1..Cardinality(S) /\ n - 1 \notin Bad
    BY <1>0, <1>2, <1>3, <1>5
  <2>2. PICK i \in S : Cardinality(Below(S, i)) = n - 2
    BY <1>3, <2>1
  <2> DEFINE Above == {j \in S : j > i}
             Upto == Below(S, i) \cup {i}
  <2>3. Above \subseteq S /\ Below(S, i) \subseteq S /\ i \notin Below(S, i)
    BY DEF Below
  <2>4. Cardinality(Upto) = n - 1 /\ IsFiniteSet(Upto)
    BY <1>0, <1>3, <2>2, <2>3, FS_AddElement
  <2>5. Above # {}
    <3>1. ASSUME Above = {} PROVE S = Upto
      <4>1. \A j \in S : j < i \/ j = i \/ j > i
        OBVIOUS
      <4> QED
        BY <3>1, <4>1 DEF Below
    <3> QED
      BY <1>3, <2>4, <3>1
  <2>6. PICK m \in Above : \A j \in Above : m <= j
    BY <2>5, Smallest
  <2>7. Below(S, m) = Upto
    <3>1. \A j \in S : j < m <=> j < i \/ j = i
      BY <2>6
    <3> QED
      BY <3>1 DEF Below
  <2> QED
    BY <1>2, <2>3, <2>4, <2>6, <2>7
<1> QED
  BY <1>3, <1>4, <1>5

-----------------------------------------------------------------------------
(* The operators of the tracker.                                           *)

USE FinderAssumption

\* The last frame is a sequence of at most MaxDetected contacts.
LEMMA LastFrame ==
  ASSUME TypeOK
  PROVE  /\ Len(m_last) \in 0..MaxDetected
         /\ DOMAIN m_last = 1..Len(m_last)
         /\ m_last \in [1..Len(m_last) -> [index : 0..(2 * MaxDetected - 2),
                                          stable : BOOLEAN, valid : BOOLEAN]]
<1>1. PICK n \in 0..MaxDetected :
          m_last \in [1..n -> [index : 0..(2 * MaxDetected - 2), stable : BOOLEAN, valid : BOOLEAN]]
  BY DEF TypeOK
<1>2. n \in Nat /\ Len(m_last) = n
  BY <1>1
<1> QED
  BY <1>1, <1>2

\* No more indices are in use than there are contacts in the last frame.
LEMMA UsedIndices ==
  ASSUME TypeOK
  PROVE  /\ IndicesIn(m_last) \in SUBSET Nat
         /\ IsFiniteSet(IndicesIn(m_last))
         /\ Cardinality(IndicesIn(m_last)) <= Len(m_last)
<1> DEFINE L == Len(m_last)
           index == [k \in 1..L |-> m_last[k].index]
<1>1. /\ L \in Nat /\ DOMAIN m_last = 1..L
      /\ \A k \in 1..L : m_last[k].index \in Nat
  BY LastFrame
<1>2. IndicesIn(m_last) \in SUBSET Nat
  BY <1>1 DEF IndicesIn
<1>3. index \in Surjection(1..L, IndicesIn(m_last))
  BY <1>1 DEF IndicesIn, Surjection
<1>4. IsFiniteSet(1..L) /\ Cardinality(1..L) = L
  BY <1>1, Interval
<1> HIDE DEF L, index
<1>5. IsFiniteSet(IndicesIn(m_last)) /\ Cardinality(IndicesIn(m_last)) <= L
  BY <1>3, <1>4, FS_Surjection
<1> QED
  BY <1>2, <1>5 DEF L

\* find_new_index gives different indices that the last frame does not use, the
\* k-th of them with at most k - 1 unused and Len(m_last) used ones below it.
LEMMA FreshIndices ==
  ASSUME TypeOK, NEW n \in Nat, NEW k \in 1..n
  PROVE  /\ Fresh(n)[k] \in Nat \ IndicesIn(m_last)
         /\ Fresh(n)[k] <= k - 1 + Len(m_last)
         /\ \A j \in 1..n : Fresh(n)[j] = Fresh(n)[k] => j = k
<1> DEFINE L == Len(m_last)
           Used == IndicesIn(m_last)
           Unused == 0..(n + L) \ Used
<1>1. /\ L \in Nat
      /\ Used \in SUBSET Nat /\ IsFiniteSet(Used)
      /\ Cardinality(Used) \in Nat /\ Cardinality(Used) <= L
  BY LastFrame, UsedIndices, FS_CardinalityType
<1>2. /\ Unused \in SUBSET Nat /\ IsFiniteSet(Unused)
      /\ Cardinality(Unused) \in Nat /\ Cardinality(Unused) >= n
  <2> DEFINE All == 0..(n + L)
  <2>1. IsFiniteSet(All) /\ Cardinality(All) = n + L + 1
    <3>1. n + L \in Int /\ 0 <= n + L + 1
      BY <1>1
    <3>2. IsFiniteSet(0..(n + L)) /\ Cardinality(0..(n + L)) = n + L - 0 + 1
      BY <3>1, Interval
    <3> QED
      BY <1>1, <3>2
  <2>2. Unused = All \ Used /\ Unused \subseteq All /\ Unused \in SUBSET Nat
    BY <1>1
  <2> HIDE DEF All, Unused, Used, L
  <2>3. /\ Cardinality(All \cap Used) <= Cardinality(Used)
        /\ Cardinality(All \cap Used) \in Nat
    BY <1>1, FS_Intersection, FS_CardinalityType
  <2>4. IsFiniteSet(Unused) /\ Cardinality(Unused) = Cardinality(All) - Cardinality(All \cap Used)
    BY <2>1, <2>2, FS_Difference
  <2> QED
    BY <1>1, <2>1, <2>2, <2>3, <2>4
<1>3. \A m \in 1..n : /\ Fresh(n)[m] \in Unused
                      /\ Cardinality(Below(Unused, Fresh(n)[m])) = m - 1
  <2> TAKE m \in 1..n
  <2>1. \E i \in Unused : Cardinality(Below(Unused, i)) = m - 1
    <3>1. m \in 1..Cardinality(Unused)
      BY <1>2
    <3> HIDE DEF Unused
    <3> QED
      BY <1>2, <3>1, Rank
  <2>2. Fresh(n)[m] = CHOOSE i \in Unused : Cardinality(Below(Unused, i)) = m - 1
    BY DEF Fresh, Below
  <2> HIDE DEF Unused
  <2> QED
    BY <2>1, <2>2
<1>4. Fresh(n)[k] \in Nat \ Used
  BY <1>3
<1>5. Fresh(n)[k] <= k - 1 + L
  <2> DEFINE i == Fresh(n)[k]
  <2>1. i \in Nat /\ IsFiniteSet(0..(i - 1)) /\ Cardinality(0..(i - 1)) = i
    <3>1. i \in Nat /\ i - 1 \in Int /\ 0 <= i - 1 + 1
      BY <1>4
    <3> HIDE DEF i
    <3>2. IsFiniteSet(0..(i - 1)) /\ Cardinality(0..(i - 1)) = i - 1 - 0 + 1
      BY <3>1, Interval
    <3> QED
      BY <3>1, <3>2
  <2>2. /\ IsFiniteSet(Below(Unused, i)) /\ Cardinality(Below(Unused, i)) = k - 1
    BY <1>2, <1>3, FS_Subset DEF Below
  <2>3. 0..(i - 1) \subseteq Below(Unused, i) \cup Used
    <3>1. i <= n + L
      BY <1>3
    <3>2. \A j \in 0..(i - 1) : j \in 0..(n + L) /\ j < i
      BY <1>1, <2>1, <3>1
    <3> QED
      BY <3>2 DEF Below
  <2> DEFINE B == Below(Unused, i)
  <2> HIDE DEF i, Unused, Used, B
  <2>4. /\ IsFiniteSet(B \cup Used)
        /\ Cardinality(B \cup Used) = Cardinality(B) + Cardinality(Used) - Cardinality(B \cap Used)
    BY <1>1, <2>2, FS_Union DEF B
  <2>5. Cardinality(B \cap Used) \in Nat
    BY <1>1, FS_Intersection, FS_CardinalityType
  <2>6. i <= Cardinality(B \cup Used)
    BY <2>1, <2>3, <2>4, FS_Subset DEF B
  <2>7. i <= k - 1 + L
    BY <1>1, <2>1, <2>2, <2>4, <2>5, <2>6 DEF B
  <2> QED
    BY <2>7 DEF i
<1>6. \A j \in 1..n : Fresh(n)[j] = Fresh(n)[k] => j = k
  <2> TAKE j \in 1..n
  <2> HAVE Fresh(n)[j] = Fresh(n)[k]
  <2>1. j - 1 = k - 1
    BY <1>3
  <2> QED
    BY <2>1
<1> QED
  BY <1>4, <1>5, <1>6

LEMMA MinOfTwo ==
  ASSUME NEW a \in Nat, NEW b \in Nat
  PROVE  Min({a, b}) = IF a <= b THEN a ELSE b
<1> DEFINE m == IF a <= b THEN a ELSE b
<1>1. m \in {a, b} /\ \A y \in {a, b} : m <= y
  OBVIOUS
<1>2. \A x \in {a, b} : (\A y \in {a, b} : x <= y) => x = m
  OBVIOUS
<1> HIDE DEF m
<1>3. Min({a, b}) = m
  BY <1>1, <1>2 DEF Min
<1> QED
  BY <1>3 DEF m

\* As many contacts are matched as there can be: all of the new frame if it has
\* no more than the last one, all of the last one if it has no more than the new.
LEMMA FullMatch ==
  ASSUME TypeOK, NEW n \in Nat, NEW match \in Matchings(n)
  PROVE  /\ DOMAIN match \subseteq 1..n
         /\ \A k \in DOMAIN match : match[k] \in 1..Len(m_last)
         /\ \A j, k \in DOMAIN match : match[j] = match[k] => j = k
         /\ n <= Len(m_last) => DOMAIN match = 1..n
         /\ Len(m_last) <= n => \A i \in 1..Len(m_last) : \E k \in DOMAIN match : match[k] = i
<1> DEFINE L == Len(m_last)
<1>1. L \in Nat /\ DOMAIN m_last = 1..L
  BY LastFrame
<1>2. PICK X \in kSubset(Min({n, L}), 1..n) : match \in Injection(X, 1..L)
  BY <1>1 DEF Matchings
<1>3. Min({n, L}) = IF n <= L THEN n ELSE L
  BY <1>1, MinOfTwo
<1>4. X \subseteq 1..n /\ Cardinality(X) = IF n <= L THEN n ELSE L
  BY <1>2, <1>3 DEF kSubset
<1>5. /\ match \in [X -> 1..L]
      /\ \A j, k \in X : match[j] = match[k] => j = k
  BY <1>2 DEF Injection, IsInjective
<1>6. IsFiniteSet(1..n) /\ Cardinality(1..n) = n /\ IsFiniteSet(1..L) /\ Cardinality(1..L) = L
  BY <1>1, Interval
<1>7. n <= L => X = 1..n
  BY <1>4, <1>6, FS_Subset
<1>8. L <= n => \A i \in 1..L : \E k \in X : match[k] = i
  <2> SUFFICES ASSUME L <= n PROVE \A i \in 1..L : \E k \in X : match[k] = i
    OBVIOUS
  <2> HIDE DEF L
  <2>1. Cardinality(X) = L
    <3>1. n <= L => n = L
      BY <1>1
    <3> QED
      BY <1>4, <3>1
  <2>2. match \in Surjection(X, 1..L)
    BY <1>2, <1>6, <2>1, FS_Injection
  <2> QED
    BY <2>2 DEF Surjection
<1> QED
  BY <1>4, <1>5, <1>7, <1>8

-----------------------------------------------------------------------------
(* One frame after the other.                                              *)

IInv == TypeOK /\ UniqueIndices

\* A contact that is matched has the index of its partner, another one a fresh index.
LEMMA TrackedIndex ==
  ASSUME NEW n \in Nat, NEW match \in Matchings(n), NEW k \in 1..n
  PROVE  Tracked(n, match)[k] =
             IF k \in DOMAIN match THEN m_last[match[k]].index ELSE Fresh(n)[k]
  BY DEF Tracked

\* Indices are numbers, the bound on them holds and none occurs twice.
LEMMA TrackedIndices ==
  ASSUME IInv, NEW n \in 0..MaxDetected, NEW match \in Matchings(n)
  PROVE  /\ \A k \in 1..n : Tracked(n, match)[k] \in 0..(2 * MaxDetected - 2)
         /\ \A j, k \in 1..n : Tracked(n, match)[j] = Tracked(n, match)[k] => j = k
<1> DEFINE L == Len(m_last)
           T == Tracked(n, match)
<1> USE DEF IInv
<1>1. /\ n \in Nat /\ L \in 0..MaxDetected
      /\ \A i \in 1..L : m_last[i].index \in 0..(2 * MaxDetected - 2)
      /\ \A i \in 1..L : m_last[i].index \in IndicesIn(m_last)
  BY LastFrame DEF IndicesIn
<1>2. \A i, j \in 1..L : m_last[i].index = m_last[j].index => i = j
  BY LastFrame DEF UniqueIndices
<1>3. \A k \in 1..n : k \in DOMAIN match => T[k] = m_last[match[k]].index /\ match[k] \in 1..L
  BY <1>1, TrackedIndex, FullMatch
<1>4. \A k \in 1..n : k \notin DOMAIN match => T[k] = Fresh(n)[k] /\ L < n
  BY <1>1, TrackedIndex, FullMatch
<1>5. ASSUME NEW k \in 1..n PROVE T[k] \in 0..(2 * MaxDetected - 2)
  <2>1. CASE k \in DOMAIN match
    BY <1>1, <1>3, <2>1
  <2>2. CASE k \notin DOMAIN match
    <3>1. T[k] \in Nat /\ T[k] <= k - 1 + L /\ L < n
      BY <1>1, <1>4, <2>2, FreshIndices
    <3> HIDE DEF T, L
    <3> QED
      BY <1>1, <3>1
  <2> QED
    BY <2>1, <2>2
<1>6. \A k \in 1..n : /\ k \in DOMAIN match => T[k] \in IndicesIn(m_last)
                      /\ k \notin DOMAIN match => T[k] \notin IndicesIn(m_last)
  BY <1>1, <1>3, <1>4, FreshIndices
<1>7. ASSUME NEW j \in 1..n, NEW k \in 1..n, T[j] = T[k] PROVE j = k
  <2>1. CASE j \in DOMAIN match /\ k \in DOMAIN match
    <3>1. match[j] = match[k]
      <4>1. /\ match[j] \in 1..L /\ match[k] \in 1..L
            /\ m_last[match[j]].index = m_last[match[k]].index
        BY <1>3, <1>7, <2>1
      <4> QED
        BY <1>2, <4>1
    <3>2. TypeOK /\ n \in Nat
      BY <1>1
    <3> QED
      BY <2>1, <3>1, <3>2, FullMatch
  <2>2. CASE j \notin DOMAIN match /\ k \notin DOMAIN match
    <3>1. Fresh(n)[j] = Fresh(n)[k]
      BY <1>4, <1>7, <2>2
    <3>2. TypeOK /\ n \in Nat
      BY <1>1
    <3> QED
      BY <3>1, <3>2, FreshIndices
  <2>3. (j \in DOMAIN match) <=> (k \in DOMAIN match)
    BY <1>6, <1>7
  <2> QED
    BY <2>1, <2>2, <2>3
<1> QED
  BY <1>5, <1>7

\* What find makes of a frame (contacts/finder.hpp).
LEMMA FoundFrame ==
  ASSUME NEW n \in 0..MaxDetected, NEW match \in Matchings(n),
         NEW jumped \in [1..n -> BOOLEAN], NEW fits \in [1..n -> BOOLEAN],
         FindWith(n, match, jumped, fits)
  PROVE  /\ DOMAIN m_last' = 1..n /\ Len(m_last') = n
         /\ m_last' = [k \in 1..n |-> Judged(Tracked(n, match)[k], jumped[k], fits[k])]
         /\ \A k \in 1..n : /\ m_last'[k].index = Tracked(n, match)[k]
                            /\ m_last'[k].stable \in BOOLEAN /\ m_last'[k].valid \in BOOLEAN
<1>1. m_last' = [k \in 1..n |-> Judged(Tracked(n, match)[k], jumped[k], fits[k])]
  BY DEF FindWith
<1>2. n \in Nat /\ DOMAIN m_last' = 1..n /\ Len(m_last') = n
  BY <1>1
<1>3. ASSUME NEW k \in 1..n
      PROVE  /\ m_last'[k].index = Tracked(n, match)[k]
             /\ m_last'[k].stable \in BOOLEAN /\ m_last'[k].valid \in BOOLEAN
  <2>1. m_last'[k] = Judged(Tracked(n, match)[k], jumped[k], fits[k])
    BY <1>1
  <2> QED
    BY <2>1 DEF Judged, IsStable, IsValid
<1> QED
  BY <1>1, <1>2, <1>3

LEMMA FindIInv ==
  ASSUME IInv, NEW n \in 0..MaxDetected, NEW match \in Matchings(n),
         NEW jumped \in [1..n -> BOOLEAN], NEW fits \in [1..n -> BOOLEAN],
         FindWith(n, match, jumped, fits)
  PROVE  IInv'
<1>1. \A k \in 1..n : m_last'[k] \in [index : 0..(2 * MaxDetected - 2),
                                     stable : BOOLEAN, valid : BOOLEAN]
  <2> TAKE k \in 1..n
  <2>1. m_last'[k] = Judged(Tracked(n, match)[k], jumped[k], fits[k])
    BY FoundFrame
  <2>2. m_last'[k] = [index |-> m_last'[k].index, stable |-> m_last'[k].stable,
                      valid |-> m_last'[k].valid]
    BY <2>1 DEF Judged
  <2>3. /\ m_last'[k].index \in 0..(2 * MaxDetected - 2)
        /\ m_last'[k].stable \in BOOLEAN /\ m_last'[k].valid \in BOOLEAN
    BY FoundFrame, TrackedIndices
  <2> QED
    BY <2>2, <2>3
<1>2. TypeOK'
  <2>1. m_last' \in [1..n -> [index : 0..(2 * MaxDetected - 2),
                               stable : BOOLEAN, valid : BOOLEAN]]
    BY <1>1, FoundFrame
  <2> QED
    BY <2>1 DEF TypeOK
<1>3. UniqueIndices'
  BY FoundFrame, TrackedIndices DEF UniqueIndices
<1> QED
  BY <1>2, <1>3 DEF IInv

LEMMA EmptyFrame == ASSUME m_last = <<>> PROVE IInv
<1>1. m_last \in [1..0 -> [index : 0..(2 * MaxDetected - 2), stable : BOOLEAN, valid : BOOLEAN]]
  OBVIOUS
<1>2. TypeOK
  BY <1>1 DEF TypeOK
<1> QED
  BY <1>2 DEF IInv, UniqueIndices

LEMMA ResetIInv == ASSUME Reset PROVE IInv'
<1>1. m_last' = <<>>
  BY DEF Reset
<1>2. m_last' \in [1..0 -> [index : 0..(2 * MaxDetected - 2), stable : BOOLEAN, valid : BOOLEAN]]
  BY <1>1
<1>3. TypeOK'
  BY <1>2 DEF TypeOK
<1> QED
  BY <1>1, <1>3 DEF IInv, UniqueIndices

LEMMA NextIInv == ASSUME IInv, [Next]_m_last PROVE IInv'
<1>1. ASSUME NEW n \in 0..MaxDetected, Find(n) PROVE IInv'
  BY <1>1, FindIInv DEF Find
<1>2. CASE Reset
  BY <1>2, ResetIInv
<1>3. CASE UNCHANGED m_last
  BY <1>3 DEF IInv, TypeOK, UniqueIndices
<1> QED
  BY <1>1, <1>2, <1>3 DEF Next

LEMMA Inductive == Spec => []IInv
<1>1. Init => IInv
  BY EmptyFrame DEF Init
<1> QED
  BY <1>1, NextIInv, PTL DEF Spec

\* However many contacts there are and whoever is matched with whom, an index is
\* at most twice that number less two (contacts/tracking/tracker.hpp, track):
\* that is how many slots the touch device needs.
THEOREM TypeCorrect == Spec => []TypeOK
<1>1. IInv => TypeOK
  BY DEF IInv
<1> QED
  BY <1>1, Inductive, PTL

\* The tracker never gives an index to two contacts of a frame, neither one that
\* is passed on nor one that find_new_index makes up.
THEOREM IndicesUnique == Spec => []UniqueIndices
<1>1. IInv => UniqueIndices
  BY DEF IInv
<1> QED
  BY <1>1, Inductive, PTL

-----------------------------------------------------------------------------
(* From one frame to the next.                                             *)

\* What IdentityKept says of a step.
KeepsIdentity ==
    /\ Len(m_last) <= Len(m_last') => IndicesIn(m_last) \subseteq IndicesIn(m_last')
    /\ Len(m_last') <= Len(m_last) => IndicesIn(m_last') \subseteq IndicesIn(m_last)

LEMMA FindKeepsIdentity ==
  ASSUME IInv, NEW n \in 0..MaxDetected, NEW match \in Matchings(n),
         NEW jumped \in [1..n -> BOOLEAN], NEW fits \in [1..n -> BOOLEAN],
         FindWith(n, match, jumped, fits)
  PROVE  KeepsIdentity
<1>0. /\ n \in Nat /\ TypeOK /\ DOMAIN m_last = 1..Len(m_last)
      /\ DOMAIN m_last' = 1..n /\ Len(m_last') = n
  <2>1. n \in Nat /\ TypeOK
    BY DEF IInv
  <2> QED
    BY <2>1, LastFrame, FoundFrame
<1>1. \A k \in 1..n : k \in DOMAIN match =>
          /\ match[k] \in 1..Len(m_last)
          /\ m_last'[k].index = m_last[match[k]].index
  BY <1>0, FoundFrame, TrackedIndex, FullMatch
<1>2. ASSUME Len(m_last) <= n PROVE IndicesIn(m_last) \subseteq IndicesIn(m_last')
  <2>1. \A i \in 1..Len(m_last) : \E k \in 1..n : m_last'[k].index = m_last[i].index
    BY <1>0, <1>1, <1>2, FullMatch
  <2> QED
    BY <1>0, <2>1 DEF IndicesIn
<1>3. ASSUME n <= Len(m_last) PROVE IndicesIn(m_last') \subseteq IndicesIn(m_last)
  <2>1. DOMAIN match = 1..n
    BY <1>0, <1>3, FullMatch
  <2>2. \A k \in 1..n : \E i \in 1..Len(m_last) : m_last'[k].index = m_last[i].index
    BY <1>1, <2>1
  <2> QED
    BY <1>0, <2>2 DEF IndicesIn
<1> QED
  BY <1>0, <1>2, <1>3 DEF KeepsIdentity

LEMMA ResetKeepsIdentity == ASSUME IInv, Reset PROVE KeepsIdentity
<1>1. m_last' = <<>> /\ Len(m_last') = 0 /\ IndicesIn(m_last') = {}
  BY DEF Reset, IndicesIn
<1>2. Len(m_last) <= 0 => IndicesIn(m_last) = {}
  <2>1. Len(m_last) \in Nat /\ DOMAIN m_last = 1..Len(m_last)
    BY LastFrame DEF IInv
  <2> QED
    BY <2>1 DEF IndicesIn
<1> QED
  BY <1>1, <1>2 DEF KeepsIdentity

\* As long as contacts only arrive or only leave, for every matching the sort by
\* distance may lead to, the contacts that stay keep their indices: the loop over
\* min in track hands on as many as there can be.
THEOREM IdentityIsKept == Spec => IdentityKept
<1>1. ASSUME IInv, [Next]_m_last PROVE [KeepsIdentity]_m_last
  <2>1. ASSUME NEW n \in 0..MaxDetected, Find(n) PROVE KeepsIdentity
    BY <1>1, <2>1, FindKeepsIdentity DEF Find
  <2>2. CASE Reset
    BY <1>1, <2>2, ResetKeepsIdentity
  <2> QED
    BY <1>1, <2>1, <2>2 DEF Next
<1> QED
  BY <1>1, Inductive, PTL DEF Spec, IdentityKept, KeepsIdentity
=============================================================================
