--------------------------- MODULE ScheduleProofs ---------------------------
(***************************************************************************)
(* What the slice operations of Schedule do, on any slice: where the       *)
(* binary searches stop, what an insertion and a drain leave in the slice, *)
(* and that the place of an entry in the stable sort is a permutation.     *)
(* The proofs about the Runner, the session and the virtual SMSC use them. *)
(***************************************************************************)
EXTENDS Schedule, SequenceTheorems, FiniteSetTheorems, WellFoundedInduction, TLAPS

\* Every set of naturals that is not empty has a least element.
LEMMA LeastNatural ==
  ASSUME NEW T, T \subseteq Nat, T # {}
  PROVE  \E k \in T : \A j \in T : k <= j
<1>1. PICK k \in T : \A j \in T : ~(<<j, k>> \in OpToRel(<, Nat))
  BY NatLessThanWellFounded, WFMin
<1>2. \A j \in T : ~(j < k)
  BY <1>1 DEF OpToRel
<1> QED BY <1>2

\* What InsertAt returns, by position: the slice shift of Schedule (schedule.go:50-52).
LEMMA InsertAtByPosition ==
  ASSUME NEW S, NEW s \in Seq(S), NEW e \in S, NEW i \in 1..(Len(s) + 1)
  PROVE  /\ InsertAt(s, i, e) \in Seq(S)
         /\ Len(InsertAt(s, i, e)) = Len(s) + 1
         /\ \A k \in 1..(i - 1) : InsertAt(s, i, e)[k] = s[k]
         /\ InsertAt(s, i, e)[i] = e
         /\ \A k \in (i + 1)..(Len(s) + 1) : InsertAt(s, i, e)[k] = s[k - 1]
<1> DEFINE a == SubSeq(s, 1, i - 1)
           b == SubSeq(s, i, Len(s))
           c == Append(a, e)
<1>0. Len(s) \in Nat /\ i \in Nat /\ i >= 1 /\ i <= Len(s) + 1
  OBVIOUS
<1>1. /\ a \in Seq(S) /\ Len(a) = i - 1
      /\ \A k \in 1..(i - 1) : a[k] = s[k]
  BY <1>0, SubSeqProperties, ElementOfSeq
<1>2. /\ b \in Seq(S) /\ Len(b) = Len(s) - i + 1
      /\ \A k \in 1..(Len(s) - i + 1) : b[k] = s[i + k - 1]
  BY <1>0, SubSeqProperties, ElementOfSeq
<1> HIDE DEF a, b
<1>3. /\ c \in Seq(S) /\ Len(c) = i
      /\ \A k \in 1..(i - 1) : c[k] = s[k]
      /\ c[i] = e
  BY <1>0, <1>1, AppendProperties
<1>4. InsertAt(s, i, e) = c \o b
  BY <1>1, AppendIsConcat DEF InsertAt, a, b
<1> HIDE DEF c
<1>5. /\ c \o b \in Seq(S)
      /\ Len(c \o b) = Len(c) + Len(b)
      /\ \A k \in 1..(Len(c) + Len(b)) :
           (c \o b)[k] = IF k <= Len(c) THEN c[k] ELSE b[k - Len(c)]
  BY <1>2, <1>3, ConcatProperties
<1>6. \A k \in 1..i : (c \o b)[k] = c[k]
  BY <1>0, <1>2, <1>3, <1>5
<1>7. \A k \in (i + 1)..(Len(s) + 1) : (c \o b)[k] = b[k - i]
  BY <1>0, <1>2, <1>3, <1>5
<1>8. \A k \in (i + 1)..(Len(s) + 1) : b[k - i] = s[k - 1]
  BY <1>0, <1>2
<1> QED BY <1>0, <1>2, <1>3, <1>4, <1>5, <1>6, <1>7, <1>8


\* sort.Search in Schedule always stops, sorted slice or not.
LEMMA InsertionSearchStops ==
  ASSUME NEW s, Len(s) \in Nat, NEW e
  PROVE  \E i \in 1..(Len(s) + 1) : InsertPosition(s, e, i)
<1> DEFINE T == {k \in 1..(Len(s) + 1) : k = Len(s) + 1 \/ SortsAfter(s[k], e)}
<1>1. T \subseteq Nat /\ Len(s) + 1 \in T
  OBVIOUS
<1>2. PICK k \in T : \A j \in T : k <= j
  BY <1>1, LeastNatural
<1>3. k \in 1..(Len(s) + 1) /\ (k <= Len(s) => SortsAfter(s[k], e))
  BY <1>2
<1>4. k > 1 => ~SortsAfter(s[k - 1], e)
  <2> SUFFICES ASSUME k > 1, SortsAfter(s[k - 1], e) PROVE FALSE
    OBVIOUS
  <2>1. k - 1 \in T
    BY <1>3
  <2> QED BY <2>1, <1>2, <1>3
<1> QED BY <1>3, <1>4 DEF InsertPosition, IsSearchResult

\* sort.Search in DrainDue always stops.
LEMMA DrainSearchStops ==
  ASSUME NEW s, Len(s) \in Nat, NEW c
  PROVE  DueCount(s, c) \in 0..Len(s) /\ FirstLater(s, c, DueCount(s, c) + 1)
<1> DEFINE T == {k \in 1..(Len(s) + 1) : k = Len(s) + 1 \/ s[k].due > c}
<1>1. T \subseteq Nat /\ Len(s) + 1 \in T
  OBVIOUS
<1>2. PICK k \in T : \A j \in T : k <= j
  BY <1>1, LeastNatural
<1>3. k \in 1..(Len(s) + 1) /\ (k <= Len(s) => s[k].due > c)
  BY <1>2
<1>4. k > 1 => ~(s[k - 1].due > c)
  <2> SUFFICES ASSUME k > 1, s[k - 1].due > c PROVE FALSE
    OBVIOUS
  <2>1. k - 1 \in T
    BY <1>3
  <2> QED BY <2>1, <1>2, <1>3
<1>5. FirstLater(s, c, k)
  BY <1>3, <1>4 DEF FirstLater, IsSearchResult
<1> DEFINE n == CHOOSE i \in 1..(Len(s) + 1) : FirstLater(s, c, i)
<1>6. n \in 1..(Len(s) + 1) /\ FirstLater(s, c, n)
  BY <1>3, <1>5
<1>7. DueCount(s, c) = n - 1
  BY DEF DueCount
<1> HIDE DEF n
<1>8. n - 1 \in 0..Len(s) /\ (n - 1) + 1 = n
  BY <1>6
<1> QED BY <1>6, <1>7, <1>8

\* The slice in due order, which is all that a drain needs of it.
DueSorted(s) == \A i, j \in 1..Len(s) : i <= j => s[i].due <= s[j].due

\* Schedule: the slice has one more event, the new one, and is in due order if it was.
LEMMA InsertedEvents ==
  ASSUME NEW S, \A x \in S : x.due \in Nat, NEW s \in Seq(S), NEW e \in S
  PROVE  /\ Inserted(s, e) \in Seq(S)
         /\ Len(Inserted(s, e)) = Len(s) + 1
         /\ \A k \in 1..(Len(s) + 1) :
              Inserted(s, e)[k] = e \/ \E i \in 1..Len(s) : Inserted(s, e)[k] = s[i]
         /\ DueSorted(s) => DueSorted(Inserted(s, e))
<1>1. PICK p \in 1..(Len(s) + 1) : InsertPosition(s, e, p) /\ Inserted(s, e) = InsertAt(s, p, e)
  <2> DEFINE q == CHOOSE i \in 1..(Len(s) + 1) : InsertPosition(s, e, i)
  <2>1. \E i \in 1..(Len(s) + 1) : InsertPosition(s, e, i)
    BY InsertionSearchStops
  <2>2. q \in 1..(Len(s) + 1) /\ InsertPosition(s, e, q)
    BY <2>1
  <2>3. Inserted(s, e) = InsertAt(s, q, e)
    BY DEF Inserted
  <2> HIDE DEF q
  <2> QED BY <2>2, <2>3
<1> DEFINE t == InsertAt(s, p, e)
<1>2. /\ t \in Seq(S) /\ Len(t) = Len(s) + 1
      /\ \A k \in 1..(p - 1) : t[k] = s[k]
      /\ t[p] = e
      /\ \A k \in (p + 1)..(Len(s) + 1) : t[k] = s[k - 1]
  BY InsertAtByPosition
<1> HIDE DEF t
<1>3. Len(s) \in Nat /\ p \in Nat /\ \A k \in 1..Len(s) : s[k] \in S /\ s[k].due \in Nat
  BY <1>1
<1>4. ASSUME NEW k \in 1..(Len(s) + 1)
      PROVE  \/ k < p /\ k \in 1..Len(s) /\ t[k] = s[k]
             \/ k = p /\ t[k] = e
             \/ k > p /\ k - 1 \in 1..Len(s) /\ t[k] = s[k - 1]
  <2>1. CASE k < p
    <3>1. k \in 1..(p - 1) /\ k \in 1..Len(s)
      BY <1>3, <2>1
    <3> QED BY <1>2, <2>1, <3>1
  <2>2. CASE k = p
    BY <1>2, <2>2
  <2>3. CASE k > p
    <3>1. k \in (p + 1)..(Len(s) + 1) /\ k - 1 \in 1..Len(s)
      BY <1>3, <2>3
    <3> QED BY <1>2, <2>3, <3>1
  <2>4. k < p \/ k = p \/ k > p
    BY <1>3
  <2> QED BY <2>1, <2>2, <2>3, <2>4
<1>5. ASSUME DueSorted(s) PROVE DueSorted(t)
  <2>1. e.due \in Nat
    OBVIOUS
  <2>2. \A k \in 1..Len(s) : k < p => s[k].due <= e.due
    <3>1. p > 1 => ~SortsAfter(s[p - 1], e)
      BY <1>1 DEF InsertPosition, IsSearchResult
    <3>2. p > 1 => p - 1 \in 1..Len(s) /\ s[p - 1].due <= e.due
      BY <3>1, <2>1, <1>3 DEF SortsAfter
    <3> QED BY <3>2, <2>1, <1>3, <1>5 DEF DueSorted
  <2>3. \A k \in 1..Len(s) : k >= p => e.due <= s[k].due
    <3>1. p <= Len(s) => SortsAfter(s[p], e)
      BY <1>1 DEF InsertPosition, IsSearchResult
    <3>2. p <= Len(s) => p \in 1..Len(s) /\ e.due <= s[p].due
      BY <3>1, <2>1, <1>3 DEF SortsAfter
    <3> QED BY <3>2, <2>1, <1>3, <1>5 DEF DueSorted
  <2>4. ASSUME NEW i \in 1..(Len(s) + 1), NEW j \in 1..(Len(s) + 1), i <= j
        PROVE  t[i].due <= t[j].due
    <3>1. CASE j < p
      <4>1. i < p BY <2>4, <3>1, <1>3
      <4> QED BY <2>4, <3>1, <4>1, <1>3, <1>4, <1>5 DEF DueSorted
    <3>2. CASE i > p
      <4>1. j > p /\ i - 1 \in 1..Len(s) /\ j - 1 \in 1..Len(s) /\ i - 1 <= j - 1 BY <2>4, <3>2, <1>3
      <4>2. t[i] = s[i - 1] /\ t[j] = s[j - 1] BY <3>2, <4>1, <1>2, <1>3
      <4> QED BY <4>1, <4>2, <1>5 DEF DueSorted
    <3>3. CASE i <= p /\ j >= p
      <4>1. t[i].due <= e.due
        BY <3>3, <2>1, <2>2, <1>3, <1>4
      <4>2. e.due <= t[j].due
        <5>1. CASE j = p
          BY <5>1, <2>1, <1>2
        <5>2. CASE j > p
          <6>1. j - 1 \in 1..Len(s) /\ j - 1 >= p /\ t[j] = s[j - 1]
            BY <5>2, <1>2, <1>3
          <6> QED BY <6>1, <2>3
        <5> QED BY <3>3, <5>1, <5>2, <1>3
      <4>3. t[i].due \in Nat /\ t[j].due \in Nat
        BY <1>2
      <4> QED BY <4>1, <4>2, <4>3, <2>1
    <3> QED BY <3>1, <3>2, <3>3, <1>3
  <2> QED BY <2>4, <1>2 DEF DueSorted
<1>6. Inserted(s, e) = t
  BY <1>1 DEF t
<1> QED BY <1>2, <1>4, <1>5, <1>6

\* DrainDue on a slice in due order: what it takes is due, what it leaves is not.
LEMMA DrainSplitsAtClock ==
  ASSUME NEW S, \A x \in S : x.due \in Nat, NEW s \in Seq(S), NEW c \in Nat, DueSorted(s)
  PROVE  /\ \A k \in 1..Len(s) : k <= DueCount(s, c) => s[k].due <= c
         /\ \A k \in 1..Len(s) : k > DueCount(s, c) => s[k].due > c
<1> DEFINE n == DueCount(s, c)
<1>1. n \in 0..Len(s) /\ FirstLater(s, c, n + 1) /\ Len(s) \in Nat
  BY DrainSearchStops
<1> HIDE DEF n
<1>2. \A k \in 1..Len(s) : s[k].due \in Nat
  OBVIOUS
<1>3. (n > 0 => n \in 1..Len(s) /\ s[n].due <= c) /\ (n < Len(s) => n + 1 \in 1..Len(s) /\ s[n + 1].due > c)
  BY <1>1, <1>2 DEF FirstLater, IsSearchResult
<1>4. \A k \in 1..Len(s) : k <= n => s[k].due <= c
  BY <1>1, <1>2, <1>3 DEF DueSorted
<1>5. \A k \in 1..Len(s) : k > n => s[k].due > c
  BY <1>1, <1>2, <1>3 DEF DueSorted
<1> QED BY <1>4, <1>5 DEF n
-----------------------------------------------------------------------------
(***************************************************************************)
(* sortedByTick. Entries are compared by tick and then by position, a      *)
(* strict total order; so no two entries have the same place, and since    *)
(* there are as many places as entries, every place is taken.              *)
(***************************************************************************)
\* Entries with numeric ticks are totally ordered.
LEMMA ComesBeforeIsTotal ==
  ASSUME NEW S, \A x \in S : x.at \in Int, NEW s \in Seq(S)
  PROVE  /\ \A i \in DOMAIN s : ~ComesBefore(s, i, i)
         /\ \A i, j \in DOMAIN s : i # j => ComesBefore(s, i, j) \/ ComesBefore(s, j, i)
         /\ \A i, j, k \in DOMAIN s : ComesBefore(s, i, j) /\ ComesBefore(s, j, k) => ComesBefore(s, i, k)
<1>1. DOMAIN s = 1..Len(s) /\ Len(s) \in Nat /\ \A i \in DOMAIN s : s[i].at \in Int
  OBVIOUS
<1> QED BY <1>1 DEF ComesBefore

\* An entry's place is one of the positions, and grows along the order.
LEMMA PlacesGrow ==
  ASSUME NEW S, \A x \in S : x.at \in Int, NEW s \in Seq(S)
  PROVE  /\ \A i \in DOMAIN s : Place(s, i) \in DOMAIN s
         /\ \A i, j \in DOMAIN s : ComesBefore(s, i, j) => Place(s, i) < Place(s, j)
<1> DEFINE Earlier(i) == {j \in DOMAIN s : ComesBefore(s, j, i)}
<1>1. DOMAIN s = 1..Len(s) /\ Len(s) \in Nat /\ IsFiniteSet(DOMAIN s) /\ Cardinality(DOMAIN s) = Len(s)
  <2>1. DOMAIN s = 1..Len(s) /\ Len(s) \in Nat
    OBVIOUS
  <2>2. IsFiniteSet(1..Len(s)) /\ Cardinality(1..Len(s)) = IF 1 > Len(s) THEN 0 ELSE Len(s) - 1 + 1
    <3>1. 1 \in Int /\ Len(s) \in Int
      BY <2>1
    <3> QED BY <3>1, FS_Interval
  <2>3. Cardinality(1..Len(s)) = Len(s)
    BY <2>1, <2>2
  <2> QED BY <2>1, <2>2, <2>3
<1>2. ASSUME NEW i \in DOMAIN s
      PROVE  IsFiniteSet(Earlier(i)) /\ Cardinality(Earlier(i)) \in Nat /\ Place(s, i) = Cardinality(Earlier(i)) + 1
  <2>1. IsFiniteSet(Earlier(i))
    BY <1>1, FS_Subset
  <2> QED BY <2>1, FS_CardinalityType DEF Place
<1>3. ASSUME NEW i \in DOMAIN s PROVE Place(s, i) \in DOMAIN s
  <2>1. i \notin Earlier(i) /\ Earlier(i) \in SUBSET DOMAIN s
    BY ComesBeforeIsTotal
  <2>2. Cardinality(Earlier(i)) <= Len(s) /\ Cardinality(Earlier(i)) # Len(s)
    BY <1>1, <2>1, FS_Subset
  <2> HIDE DEF Earlier
  <2> QED BY <1>1, <1>2, <2>2
<1>4. ASSUME NEW i \in DOMAIN s, NEW j \in DOMAIN s, ComesBefore(s, i, j)
      PROVE  Place(s, i) < Place(s, j)
  <2>1. Earlier(i) \in SUBSET Earlier(j) /\ Earlier(i) # Earlier(j)
    <3>1. Earlier(i) \subseteq Earlier(j)
      BY <1>4, ComesBeforeIsTotal
    <3>2. i \in Earlier(j) /\ i \notin Earlier(i)
      BY <1>4, ComesBeforeIsTotal
    <3> QED BY <3>1, <3>2
  <2> HIDE DEF Earlier
  <2>2. IsFiniteSet(Earlier(j))
    BY <1>2
  <2>3. Cardinality(Earlier(i)) <= Cardinality(Earlier(j)) /\ Cardinality(Earlier(i)) # Cardinality(Earlier(j))
    BY <2>1, <2>2, FS_Subset
  <2> QED BY <1>2, <2>3
<1> QED BY <1>3, <1>4

\* The stable sort is a permutation of the configured entries, in order.
LEMMA SortIsPermutation ==
  ASSUME NEW S, \A x \in S : x.at \in Int, NEW s \in Seq(S)
  PROVE  \E p \in [DOMAIN s -> DOMAIN s] :
           /\ \A k \in DOMAIN s : SortedByTick(s)[k] = s[p[k]]
           /\ \A i \in DOMAIN s : \E k \in DOMAIN s : p[k] = i
           /\ \A k, m \in DOMAIN s : k < m => ComesBefore(s, p[k], p[m])
<1> DEFINE D == DOMAIN s
           f == [i \in D |-> Place(s, i)]
           p == [k \in D |-> CHOOSE i \in D : Place(s, i) = k]
<1>1. D = 1..Len(s) /\ Len(s) \in Nat /\ IsFiniteSet(D)
  <2>1. D = 1..Len(s) /\ Len(s) \in Nat
    OBVIOUS
  <2>2. IsFiniteSet(1..Len(s))
    BY <2>1, FS_Interval
  <2> QED BY <2>1, <2>2
<1>2. \A i, j \in D : i # j => Place(s, i) # Place(s, j)
  <2> SUFFICES ASSUME NEW i \in D, NEW j \in D, i # j PROVE Place(s, i) # Place(s, j)
    OBVIOUS
  <2>1. Place(s, i) \in Nat /\ Place(s, j) \in Nat
    BY <1>1, PlacesGrow
  <2>2. Place(s, i) < Place(s, j) \/ Place(s, j) < Place(s, i)
    BY PlacesGrow, ComesBeforeIsTotal
  <2> QED BY <2>1, <2>2
<1>3. f \in Injection(D, D)
  BY <1>2, PlacesGrow DEF Injection, IsInjective
<1>4. f \in Surjection(D, D)
  BY <1>1, <1>3, FS_Injection
<1>5. \A k \in D : \E i \in D : Place(s, i) = k
  BY <1>4 DEF Surjection
<1>6. \A k \in D : p[k] \in D /\ Place(s, p[k]) = k
  BY <1>5
<1>7. \A k \in D : SortedByTick(s)[k] = s[p[k]]
  BY DEF SortedByTick
<1>8. p \in [D -> D]
  BY <1>6
<1> HIDE DEF p
<1>9. \A i \in D : p[Place(s, i)] = i
  BY <1>2, <1>6, PlacesGrow
<1>10. \A k, m \in D : k < m => ComesBefore(s, p[k], p[m])
  <2> SUFFICES ASSUME NEW k \in D, NEW m \in D, k < m PROVE ComesBefore(s, p[k], p[m])
    OBVIOUS
  <2>1. p[k] \in D /\ p[m] \in D /\ Place(s, p[k]) = k /\ Place(s, p[m]) = m
    BY <1>6
  <2>2. p[k] # p[m]
    BY <2>1, <1>1
  <2>3. ~ComesBefore(s, p[m], p[k])
    <3>1. ComesBefore(s, p[m], p[k]) => Place(s, p[m]) < Place(s, p[k])
      BY <2>1, PlacesGrow
    <3> QED BY <2>1, <1>1, <3>1
  <2> QED BY <2>1, <2>2, <2>3, ComesBeforeIsTotal
<1> QED BY <1>7, <1>8, <1>9, <1>10, PlacesGrow

\* sortedByTick, as its users see it: the same entries, by tick.
LEMMA SortedEntries ==
  ASSUME NEW S, \A x \in S : x.at \in Int, NEW s \in Seq(S)
  PROVE  /\ SortedByTick(s) \in Seq(S) /\ Len(SortedByTick(s)) = Len(s)
         /\ \A k \in 1..Len(s) : \E i \in 1..Len(s) : SortedByTick(s)[k] = s[i]
         /\ \A i \in 1..Len(s) : \E k \in 1..Len(s) : SortedByTick(s)[k] = s[i]
         /\ \A k, m \in 1..Len(s) : k <= m => SortedByTick(s)[k].at <= SortedByTick(s)[m].at
<1>1. DOMAIN s = 1..Len(s) /\ Len(s) \in Nat /\ \A i \in 1..Len(s) : s[i] \in S /\ s[i].at \in Int
  OBVIOUS
<1> DEFINE D == DOMAIN s
<1>p. PICK p \in [D -> D] :
        /\ \A k \in D : SortedByTick(s)[k] = s[p[k]]
        /\ \A i \in D : \E k \in D : p[k] = i
        /\ \A k, m \in D : k < m => ComesBefore(s, p[k], p[m])
  BY SortIsPermutation
<1>2. /\ p \in [1..Len(s) -> 1..Len(s)]
      /\ \A k \in 1..Len(s) : SortedByTick(s)[k] = s[p[k]]
      /\ \A i \in 1..Len(s) : \E k \in 1..Len(s) : p[k] = i
      /\ \A k, m \in 1..Len(s) : k < m => ComesBefore(s, p[k], p[m])
  BY <1>1, <1>p
<1>3. SortedByTick(s) = [k \in 1..Len(s) |-> s[p[k]]]
  BY <1>1, <1>2 DEF SortedByTick
<1>4. SortedByTick(s) \in Seq(S) /\ Len(SortedByTick(s)) = Len(s)
  BY <1>1, <1>2, <1>3
<1>5. \A k, m \in 1..Len(s) : k <= m => SortedByTick(s)[k].at <= SortedByTick(s)[m].at
  <2> SUFFICES ASSUME NEW k \in 1..Len(s), NEW m \in 1..Len(s), k <= m
               PROVE  SortedByTick(s)[k].at <= SortedByTick(s)[m].at
    OBVIOUS
  <2>1. p[k] \in 1..Len(s) /\ p[m] \in 1..Len(s) /\ s[p[k]].at \in Int /\ s[p[m]].at \in Int
    BY <1>1, <1>2
  <2>2. k = m \/ ComesBefore(s, p[k], p[m])
    BY <1>1, <1>2
  <2>3. s[p[k]].at <= s[p[m]].at
    BY <2>1, <2>2 DEF ComesBefore
  <2> QED BY <1>2, <2>3
<1>6. ASSUME NEW k \in 1..Len(s) PROVE \E i \in 1..Len(s) : SortedByTick(s)[k] = s[i]
  <2>1. p[k] \in 1..Len(s) /\ SortedByTick(s)[k] = s[p[k]]
    BY <1>2
  <2> QED BY <2>1
<1>7. ASSUME NEW i \in 1..Len(s) PROVE \E k \in 1..Len(s) : SortedByTick(s)[k] = s[i]
  <2>1. PICK k \in 1..Len(s) : p[k] = i
    BY <1>2
  <2>2. SortedByTick(s)[k] = s[i]
    BY <1>2, <2>1
  <2> QED BY <2>2
<1> QED BY <1>4, <1>5, <1>6, <1>7

\* The entries due at a tick, and the one configured to rule: the latest, the last on a tie.
DueEntries(s, tick) == {i \in DOMAIN s : s[i].at <= tick}
LastDue(s, tick) ==
  {i \in DueEntries(s, tick) :
     \A j \in DueEntries(s, tick) : s[j].at < s[i].at \/ (s[j].at = s[i].at /\ j <= i)}

\* A cursor that stands behind exactly the due entries of the sorted list stands at the one that
\* the configuration says to rule.
LEMMA CursorAtLastDue ==
  ASSUME NEW S, \A x \in S : x.at \in Int, NEW s \in Seq(S), NEW tick, NEW c \in 0..Len(s),
         \A k \in 1..Len(s) : k <= c <=> SortedByTick(s)[k].at <= tick
  PROVE  /\ c = 0 => DueEntries(s, tick) = {}
         /\ c # 0 => /\ DueEntries(s, tick) # {}
                     /\ SortedByTick(s)[c] = s[CHOOSE i \in LastDue(s, tick) : TRUE]
<1> DEFINE D == DOMAIN s
           due == DueEntries(s, tick)
           last == LastDue(s, tick)
           Later(j, i) == s[j].at < s[i].at \/ (s[j].at = s[i].at /\ j <= i)
<1>1. D = 1..Len(s) /\ Len(s) \in Nat /\ \A i \in D : i \in Nat /\ s[i].at \in Int
  OBVIOUS
<1>p. PICK p \in [D -> D] :
        /\ \A k \in D : SortedByTick(s)[k] = s[p[k]]
        /\ \A i \in D : \E k \in D : p[k] = i
        /\ \A k, m \in D : k < m => ComesBefore(s, p[k], p[m])
  BY SortIsPermutation
<1>2. \A k \in D : k <= c <=> s[p[k]].at <= tick
  BY <1>1, <1>p
<1>3. CASE c = 0
  <2> SUFFICES ASSUME NEW i \in D, s[i].at <= tick PROVE FALSE
    BY <1>3 DEF DueEntries
  <2>1. PICK k \in D : p[k] = i
    BY <1>p
  <2>2. k <= c
    BY <1>2, <2>1
  <2> QED BY <1>1, <1>3, <2>2
<1>4. CASE c # 0
  <2> DEFINE w == p[c]
  <2>1. c \in D /\ w \in D /\ w \in due
    <3>1. c \in D /\ c <= c
      BY <1>1, <1>4
    <3>2. w \in D /\ s[w].at <= tick
      BY <1>p, <1>2, <3>1
    <3> QED BY <3>1, <3>2 DEF DueEntries
  <2>2. ASSUME NEW j \in due PROVE Later(j, w)
    <3>1. j \in D /\ s[j].at <= tick
      BY DEF DueEntries
    <3>2. PICK k \in D : p[k] = j
      BY <1>p, <3>1
    <3>3. k <= c
      BY <1>2, <3>1, <3>2
    <3>4. k = c \/ ComesBefore(s, j, w)
      BY <1>1, <1>p, <2>1, <3>2, <3>3
    <3> HIDE DEF w
    <3>5. CASE k = c
      BY <1>1, <2>1, <3>2, <3>5 DEF w
    <3>6. CASE ComesBefore(s, j, w)
      <4>1. j \in Nat /\ w \in Nat
        BY <1>1, <2>1, <3>1
      <4> QED BY <3>6, <4>1 DEF ComesBefore
    <3> QED BY <3>4, <3>5, <3>6
  <2>3. w \in last
    BY <2>1, <2>2 DEF LastDue
  <2>4. ASSUME NEW v \in last PROVE v = w
    <3>1. v \in due /\ Later(w, v) /\ Later(v, w)
      BY <2>1, <2>2 DEF LastDue
    <3>2. v \in D
      BY <3>1 DEF DueEntries
    <3>3. v \in Nat /\ w \in Nat /\ s[v].at \in Int /\ s[w].at \in Int
      BY <1>1, <2>1, <3>2
    <3> HIDE DEF w
    <3> QED BY <3>1, <3>3
  <2> HIDE DEF w
  <2>5. (CHOOSE i \in last : TRUE) = w
    BY <2>3, <2>4
  <2>6. SortedByTick(s)[c] = s[w]
    BY <1>p, <2>1 DEF w
  <2> QED BY <1>4, <2>1, <2>5, <2>6
<1> QED BY <1>3, <1>4

\* At every tick there is such a cursor.
LEMMA SomeCursor ==
  ASSUME NEW S, \A x \in S : x.at \in Int, NEW s \in Seq(S), NEW tick \in Int
  PROVE  \E c \in 0..Len(s) : \A k \in 1..Len(s) : k <= c <=> SortedByTick(s)[k].at <= tick
<1> DEFINE list == SortedByTick(s)
           n == Len(s)
           T == {k \in 1..(n + 1) : k = n + 1 \/ ~(list[k].at <= tick)}
<1>1. n \in Nat /\ list \in Seq(S) /\ Len(list) = n
  BY SortedEntries, LenProperties
<1>2. \A k, m \in 1..n : k <= m => list[k].at <= list[m].at
  BY SortedEntries
<1>3. \A k \in 1..n : list[k].at \in Int
  BY <1>1, ElementOfSeq
<1> HIDE DEF list, n
<1>4. T \subseteq Nat /\ n + 1 \in T
  BY <1>1
<1>5. PICK f \in T : \A j \in T : f <= j
  BY <1>4, LeastNatural
<1>6. f \in 1..(n + 1) /\ (f = n + 1 \/ ~(list[f].at <= tick))
  BY <1>5
<1>7. f - 1 \in 0..n
  BY <1>1, <1>6
<1>8. ASSUME NEW k \in 1..n PROVE k <= f - 1 <=> list[k].at <= tick
  <2>1. CASE k <= f - 1
    <3>1. k \notin T
      BY <1>1, <1>5, <1>6, <2>1
    <3>2. k \in 1..(n + 1)
      BY <1>1
    <3>3. list[k].at <= tick
      BY <3>1, <3>2
    <3> QED BY <2>1, <3>3
  <2>2. CASE k > f - 1
    <3>1. f \in 1..n /\ f <= k /\ f # n + 1
      BY <1>1, <1>6, <2>2
    <3>2. list[f].at <= list[k].at /\ list[f].at \in Int /\ list[k].at \in Int /\ ~(list[f].at <= tick)
      BY <1>2, <1>3, <1>6, <3>1
    <3>3. ~(list[k].at <= tick)
      BY <3>2
    <3> QED BY <1>1, <1>6, <2>2, <3>3
  <2> QED BY <1>1, <1>6, <2>1, <2>2
<1> QED BY <1>7, <1>8 DEF list, n
=============================================================================
