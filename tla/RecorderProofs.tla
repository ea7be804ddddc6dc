--------------------------- MODULE RecorderProofs ---------------------------
(***************************************************************************)
(* Theorems about the recorder's ring, for any capacity and any number of  *)
(* PDUs. Everything rests on one fact: the slots of the last capN indices  *)
(* are distinct, so that an index i not yet overwritten is found at slot   *)
(* i % capN.                                                               *)
(***************************************************************************)
EXTENDS Recorder, SequenceTheorems, FiniteSetTheorems, WellFoundedInduction, TLAPS

\* A ring has at least one slot (recorder.go:57-61).
LEMMA CapPositive == capN \in Nat /\ capN > 0
BY RecorderBounds DEF capN

\* Division with remainder.
LEMMA Euclid ==
  ASSUME NEW n \in Int, n > 0, NEW a \in Int
  PROVE  a = n * (a \div n) + (a % n)
BY SMT

\* Two indices less than a capacity apart have different slots.
LEMMA SlotsDiffer ==
  ASSUME NEW n \in Int, n > 0, NEW a \in Int, NEW b \in Int, a < b, b - a < n
  PROVE  a % n # b % n
<1> DEFINE q == a \div n
           p == b \div n
<1>1. q \in Int /\ p \in Int /\ a % n \in Int /\ b % n \in Int
  OBVIOUS
<1>2. a = n * q + (a % n) /\ b = n * p + (b % n)
  BY Euclid
<1> HIDE DEF p, q
<1> SUFFICES ASSUME a % n = b % n PROVE FALSE
  OBVIOUS
<1>3. b - a = n * (p - q)
  BY <1>1, <1>2
<1>4. CASE p - q >= 1
  BY <1>1, <1>3, <1>4
<1>5. CASE p - q <= 0
  BY <1>1, <1>3, <1>5
<1> QED BY <1>1, <1>4, <1>5

\* Every set of naturals that is not empty has a least element.
LEMMA LeastNatural ==
  ASSUME NEW T, T \subseteq Nat, T # {}
  PROVE  \E k \in T : \A j \in T : k <= j
<1>1. PICK k \in T : \A j \in T : ~(<<j, k>> \in OpToRel(<, Nat))
  BY NatLessThanWellFounded, WFMin
<1>2. \A j \in T : ~(j < k)
  BY <1>1 DEF OpToRel
<1> QED BY <1>2
-----------------------------------------------------------------------------
(***************************************************************************)
(* The ring. Every index from oldest on is found at its slot, and no bind  *)
(* has submitted more PDUs than were recorded.                             *)
(***************************************************************************)
RingInv ==
  /\ total \in Nat
  /\ size = IF total < capN THEN total ELSE capN
  /\ DOMAIN ring = 0..(capN - 1)
  /\ clocks \in [Binds -> Nat] /\ \A b \in Binds : clocks[b] <= total
  /\ \A i \in oldest..(total - 1) : ring[i % capN] \in Record /\ ring[i % capN].index = i

\* What session b records (session.go's submit, recorder.go:66-76).
NewRecord(b, s, d) ==
  [index |-> total, body |-> [src |-> s, dst |-> d, bind |-> b, clock |-> clocks[b] + 1]]

\* Append writes the slot of the new index and of no other retained one (recorder.go:66-76).
LEMMA AppendByIndex ==
  ASSUME RingInv, NEW b \in Binds, NEW s \in Addrs, NEW d \in Addrs, AppendPDU(b, s, d)
  PROVE  /\ total' = total + 1 /\ UNCHANGED clientVars
         /\ size' = IF size < capN THEN size + 1 ELSE size
         /\ DOMAIN ring' = 0..(capN - 1)
         /\ ring'[total % capN] = NewRecord(b, s, d)
         /\ oldest' >= oldest /\ oldest \in Nat /\ oldest' \in Nat
         /\ \A i \in oldest'..(total - 1) : i \in oldest..(total - 1) /\ ring'[i % capN] = ring[i % capN]
<1>1. total \in Nat /\ capN \in Nat /\ capN > 0 /\ DOMAIN ring = 0..(capN - 1)
  BY CapPositive DEF RingInv
<1>2. /\ ring' = [ring EXCEPT ![total % capN] = NewRecord(b, s, d)]
      /\ total' = total + 1 /\ UNCHANGED clientVars
      /\ size' = IF size < capN THEN size + 1 ELSE size
  BY DEF AppendPDU, Store, NewRecord
<1>3. total % capN \in 0..(capN - 1)
  BY <1>1
<1>4. /\ oldest = IF total > capN THEN total - capN ELSE 0
      /\ oldest' = IF total + 1 > capN THEN total + 1 - capN ELSE 0
  <2>1. capN' = capN BY DEF capN
  <2> QED BY <1>1, <1>2, <2>1 DEF oldest
<1>5. oldest' >= oldest /\ oldest \in Nat /\ oldest' \in Nat
  BY <1>1, <1>4
<1>6. ASSUME NEW i \in oldest'..(total - 1)
      PROVE  i \in oldest..(total - 1) /\ ring'[i % capN] = ring[i % capN]
  <2>1. i \in Nat /\ i \in oldest..(total - 1) /\ i < total /\ total - i < capN
    BY <1>1, <1>4, <1>5
  <2>2. i % capN # total % capN
    BY <1>1, <2>1, SlotsDiffer
  <2>3. i % capN \in 0..(capN - 1)
    BY <1>1, <2>1
  <2> QED BY <1>1, <1>2, <2>1, <2>2, <2>3
<1> QED BY <1>1, <1>2, <1>3, <1>5, <1>6

\* Append keeps RingInv (recorder.go:66-76).
LEMMA AppendKeepsRing ==
  ASSUME RingInv, NEW b \in Binds, NEW s \in Addrs, NEW d \in Addrs, AppendPDU(b, s, d)
  PROVE  RingInv'
<1> DEFINE r == NewRecord(b, s, d)
<1>1. /\ total' = total + 1
      /\ size' = IF size < capN THEN size + 1 ELSE size
      /\ DOMAIN ring' = 0..(capN - 1)
      /\ ring'[total % capN] = r
      /\ oldest' \in Nat
      /\ \A i \in oldest'..(total - 1) : i \in oldest..(total - 1) /\ ring'[i % capN] = ring[i % capN]
  BY AppendByIndex
<1>2. total \in Nat /\ capN \in Nat /\ capN > 0 /\ clocks \in [Binds -> Nat] /\ \A x \in Binds : clocks[x] <= total
  BY CapPositive DEF RingInv
<1>3. r \in Record /\ r.index = total
  BY <1>2 DEF NewRecord, Record, Body
<1>4. clocks' = [clocks EXCEPT ![b] = @ + 1]
  BY DEF AppendPDU, Store
<1>5. clocks' \in [Binds -> Nat] /\ \A x \in Binds : clocks'[x] <= total'
  BY <1>1, <1>2, <1>4
<1>6. size' = IF total' < capN THEN total' ELSE capN
  BY <1>1, <1>2 DEF RingInv
<1> HIDE DEF r
<1>7. ASSUME NEW i \in oldest'..(total' - 1)
      PROVE  ring'[i % capN] \in Record /\ ring'[i % capN].index = i
  <2>1. CASE i = total
    BY <2>1, <1>1, <1>3
  <2>2. CASE i # total
    <3>1. i \in oldest'..(total - 1) BY <2>2, <1>1, <1>2
    <3> QED BY <3>1, <1>1 DEF RingInv
  <2> QED BY <2>1, <2>2
<1>8. capN' = capN
  BY DEF capN
<1> QED BY <1>1, <1>2, <1>5, <1>6, <1>7, <1>8 DEF RingInv

\* The ring is exact at every step (recorder.go:66-76).
THEOREM RingIsExact == Spec => []RingInv
<1>1. Init => RingInv
  <2> SUFFICES ASSUME Init PROVE RingInv
    OBVIOUS
  <2>1. oldest..(total - 1) = {}
    BY CapPositive DEF Init, oldest
  <2> QED BY <2>1, CapPositive DEF Init, RingInv
<1>2. RingInv /\ [Next]_vars => RingInv'
  <2> SUFFICES ASSUME RingInv, [Next]_vars PROVE RingInv'
    OBVIOUS
  <2>1. ASSUME NEW b \in Binds, NEW s \in Addrs, NEW d \in Addrs, AppendPDU(b, s, d) PROVE RingInv'
    BY <2>1, AppendKeepsRing
  <2>2. CASE NextPage \/ UNCHANGED vars
    <3>1. UNCHANGED <<ring, total, size, clocks>>
      BY <2>2 DEF NextPage, TakePage, recorderVars, vars
    <3> QED BY <3>1 DEF RingInv, oldest, capN
  <2> QED BY <2>1, <2>2 DEF Next
<1> QED BY <1>1, <1>2, PTL DEF Spec
-----------------------------------------------------------------------------
(***************************************************************************)
(* The refinement: the slots of oldest..total-1, in that order, are the    *)
(* window of the most recent records.                                      *)
(***************************************************************************)
View == [k \in 1..size |-> ring[(oldest + k - 1) % capN]]

\* One Append slides the window by one record (recorder.go:66-76).
LEMMA AppendRefines ==
  ASSUME RingInv, NEW b \in Binds, NEW s \in Addrs, NEW d \in Addrs, total < MaxTotal, AppendPDU(b, s, d)
  PROVE  Window!Append1
<1> DEFINE r == NewRecord(b, s, d)
           w == Append(View, r)
<1>1. /\ total' = total + 1
      /\ size' = IF size < capN THEN size + 1 ELSE size
      /\ ring'[total % capN] = r
      /\ \A i \in oldest'..(total - 1) : ring'[i % capN] = ring[i % capN]
  BY AppendByIndex
<1>2. /\ total \in Nat /\ capN \in Nat /\ capN > 0 /\ size = IF total < capN THEN total ELSE capN
      /\ clocks \in [Binds -> Nat] /\ \A x \in Binds : clocks[x] <= total
      /\ \A i \in oldest..(total - 1) : ring[i % capN] \in Record
  BY CapPositive DEF RingInv
<1>3. /\ oldest = IF total > capN THEN total - capN ELSE 0
      /\ oldest' = IF total + 1 > capN THEN total + 1 - capN ELSE 0
  <2>1. capN' = capN BY DEF capN
  <2> QED BY <1>1, <1>2, <2>1 DEF oldest
<1>4. [src |-> s, dst |-> d, bind |-> b, clock |-> clocks[b] + 1]
        \in [src : Addrs, dst : Addrs, bind : Binds, clock : 1..MaxTotal]
  BY <1>2, RecorderBounds
<1>5. r \in Record
  BY <1>2 DEF NewRecord, Record, Body
<1> HIDE DEF r
<1>6. /\ View \in Seq(Record) /\ Len(View) = size
      /\ \A k \in 1..size : View[k] = ring[(oldest + k - 1) % capN]
  <2>1. \A k \in 1..size : oldest + k - 1 \in oldest..(total - 1)
    BY <1>2, <1>3
  <2>2. \A k \in 1..size : ring[(oldest + k - 1) % capN] \in Record
    BY <2>1, <1>2
  <2>3. size \in Nat BY <1>2
  <2> QED BY <2>2, <2>3 DEF View
<1>7. /\ w \in Seq(Record) /\ Len(w) = size + 1 /\ w[size + 1] = r
      /\ \A k \in 1..size : w[k] = ring[(oldest + k - 1) % capN]
  BY <1>2, <1>5, <1>6, AppendProperties
<1> HIDE DEF w
<1>8. View' = [k \in 1..size' |-> ring'[(oldest' + k - 1) % capN]]
  BY DEF View, capN
<1>9. CASE total < capN
  <2>1. size = total /\ size' = total + 1 /\ oldest = 0 /\ oldest' = 0
    BY <1>1, <1>2, <1>3, <1>9
  <2>2. Window!LastCap(w) = w
    BY <1>2, <1>7, <1>9, <2>1 DEF Window!LastCap
  <2>3. ASSUME NEW k \in 1..(total + 1) PROVE w[k] = ring'[(oldest' + k - 1) % capN]
    <3>1. CASE k = total + 1
      <4>1. oldest' + k - 1 = total BY <3>1, <2>1, <1>2
      <4> QED BY <4>1, <3>1, <2>1, <1>1, <1>7
    <3>2. CASE k # total + 1
      <4>1. k \in 1..size /\ oldest' + k - 1 \in oldest'..(total - 1) /\ oldest + k - 1 = oldest' + k - 1
        BY <3>2, <2>1, <1>2
      <4>2. ring'[(oldest' + k - 1) % capN] = ring[(oldest' + k - 1) % capN]
        BY <4>1, <1>1
      <4>3. w[k] = ring[(oldest + k - 1) % capN]
        BY <4>1, <1>7
      <4> QED BY <4>1, <4>2, <4>3
    <3> QED BY <3>1, <3>2
  <2>4. w = [k \in 1..(total + 1) |-> ring'[(oldest' + k - 1) % capN]]
    BY <2>1, <2>3, <1>7
  <2>5. View' = Window!LastCap(w)
    BY <2>1, <2>2, <2>4, <1>8
  <2> QED BY <2>5, <1>1, <1>4 DEF Window!Append1, View, w, r, NewRecord
<1>10. CASE total >= capN
  <2> DEFINE u == SubSeq(w, 2, capN + 1)
  <2>1. size = capN /\ size' = capN /\ oldest = total - capN /\ oldest' = total + 1 - capN
    BY <1>1, <1>2, <1>3, <1>10
  <2>2. Window!LastCap(w) = u
    <3>1. Len(w) = capN + 1 /\ ~(Len(w) <= capN) /\ Len(w) - capN + 1 = 2
      BY <1>2, <1>7, <2>1
    <3> QED BY <3>1 DEF Window!LastCap
  <2>3. u \in Seq(Record) /\ Len(u) = capN /\ \A k \in 1..capN : u[k] = w[k + 1]
    <3>1. \A k \in 2..(capN + 1) : w[k] \in Record
      BY <1>2, <1>7, <2>1, ElementOfSeq
    <3>2. /\ u \in Seq(Record)
          /\ Len(u) = IF 2 <= capN + 1 THEN (capN + 1) - 2 + 1 ELSE 0
          /\ \A k \in 1..((capN + 1) - 2 + 1) : u[k] = w[2 + k - 1]
      BY <3>1, <1>2, <1>7, SubSeqProperties
    <3>3. \A k \in 1..capN : k \in 1..((capN + 1) - 2 + 1) /\ 2 + k - 1 = k + 1
      BY <1>2
    <3> QED BY <3>2, <3>3, <1>2
  <2> HIDE DEF u
  <2>4. ASSUME NEW k \in 1..capN PROVE u[k] = ring'[(oldest' + k - 1) % capN]
    <3>1. CASE k = capN
      <4>1. oldest' + k - 1 = total BY <3>1, <2>1, <1>2
      <4> QED BY <4>1, <3>1, <2>1, <2>3, <1>1, <1>7
    <3>2. CASE k # capN
      <4>1. /\ k + 1 \in 1..size /\ oldest' + k - 1 \in oldest'..(total - 1)
            /\ oldest + (k + 1) - 1 = oldest' + k - 1
        BY <3>2, <2>1, <1>2
      <4>2. ring'[(oldest' + k - 1) % capN] = ring[(oldest' + k - 1) % capN]
        BY <4>1, <1>1
      <4>3. w[k + 1] = ring[(oldest + (k + 1) - 1) % capN]
        BY <4>1, <1>7
      <4> QED BY <4>1, <4>2, <4>3, <2>3
    <3> QED BY <3>1, <3>2
  <2>5. u = [k \in 1..capN |-> ring'[(oldest' + k - 1) % capN]]
    BY <2>3, <2>4, <1>2
  <2>6. View' = Window!LastCap(w)
    BY <2>1, <2>2, <2>5, <1>8
  <2> QED BY <2>6, <1>1, <1>4 DEF Window!Append1, View, w, r, NewRecord
<1> QED BY <1>2, <1>9, <1>10

\* The ring implements the sliding window of RecorderWindow for any capacity, wrapped or
\* not: the most recent records, in arrival order, under indices never reused.
THEOREM RingRefinesWindow == Spec => ImplementsWindow
<1>1. Init => Window!Init
  <2> SUFFICES ASSUME Init PROVE Window!Init
    OBVIOUS
  <2>1. [k \in 1..size |-> ring[(oldest + k - 1) % capN]] = <<>>
    BY DEF Init
  <2> QED BY <2>1 DEF Init, Window!Init
<1>2. RingInv /\ [Next]_vars => [Window!Append1]_(Window!vars)
  <2> SUFFICES ASSUME RingInv, [Next]_vars PROVE Window!Append1 \/ UNCHANGED Window!vars
    OBVIOUS
  <2>1. ASSUME NEW b \in Binds, NEW s \in Addrs, NEW d \in Addrs, total < MaxTotal, AppendPDU(b, s, d)
        PROVE  Window!Append1
    BY <2>1, AppendRefines
  <2>2. CASE NextPage \/ UNCHANGED vars
    <3>1. UNCHANGED <<ring, total, size>>
      BY <2>2 DEF NextPage, TakePage, recorderVars, vars
    <3> QED BY <3>1 DEF Window!vars, oldest, capN
  <2> QED BY <2>1, <2>2 DEF Next
<1> QED BY <1>1, <1>2, RingIsExact, PTL DEF Spec, ImplementsWindow, Window!Spec
-----------------------------------------------------------------------------
(***************************************************************************)
(* Snapshot's loop, by induction on the slots scanned.                     *)
(***************************************************************************)
Start(from) == IF from > oldest THEN from ELSE oldest
Scanned(from) == IF Start(from) < total THEN total - Start(from) ELSE 0

\* out[k] is the answer after k slots.
IsRun(out, f, from, n) ==
  out = [k \in 0..n |-> IF k = 0 THEN <<>> ELSE Scan(out[k - 1], ring[(Start(from) + k - 1) % capN], f)]

\* The loop of Snapshot can be run for any number of slots (recorder.go:92-107).
LEMMA LoopRuns ==
  ASSUME NEW f, NEW from, NEW n \in Nat
  PROVE  \E out : IsRun(out, f, from, n)
<1> DEFINE T == {m \in Nat : ~\E out : IsRun(out, f, from, m)}
<1> SUFFICES ASSUME T # {} PROVE FALSE
  OBVIOUS
<1>1. PICK m \in T : \A j \in T : m <= j
  BY LeastNatural
<1>2. m \in Nat /\ ~\E out : IsRun(out, f, from, m)
  OBVIOUS
<1>3. CASE m = 0
  <2> DEFINE g == [k \in 0..0 |-> <<>>]
  <2>1. IsRun(g, f, from, 0)
    BY DEF IsRun
  <2> QED BY <2>1, <1>2, <1>3
<1>4. CASE m # 0
  <2>1. m - 1 \in Nat /\ m - 1 \notin T
    BY <1>1, <1>2, <1>4
  <2>2. PICK h : IsRun(h, f, from, m - 1)
    BY <2>1
  <2> DEFINE g == [k \in 0..m |-> IF k = m THEN Scan(h[m - 1], ring[(Start(from) + m - 1) % capN], f) ELSE h[k]]
  <2>3. \A k \in 0..(m - 1) : g[k] = h[k]
    BY <1>2, <2>1
  <2>4. ASSUME NEW k \in 0..m
        PROVE  g[k] = IF k = 0 THEN <<>> ELSE Scan(g[k - 1], ring[(Start(from) + k - 1) % capN], f)
    <3>1. CASE k = m
      <4>1. k # 0 /\ k - 1 \in 0..(m - 1) BY <3>1, <1>2, <1>4
      <4>2. g[k - 1] = h[m - 1] BY <4>1, <3>1, <2>3
      <4>3. g[k] = Scan(h[m - 1], ring[(Start(from) + m - 1) % capN], f) BY <3>1
      <4> QED BY <4>1, <4>2, <4>3, <3>1
    <3>2. CASE k # m
      <4>1. k \in 0..(m - 1) /\ g[k] = h[k] BY <3>2, <1>2, <2>3
      <4>2. h[k] = IF k = 0 THEN <<>> ELSE Scan(h[k - 1], ring[(Start(from) + k - 1) % capN], f)
        BY <4>1, <2>2 DEF IsRun
      <4>3. CASE k = 0 BY <4>1, <4>2, <4>3
      <4>4. CASE k # 0
        <5>1. k - 1 \in 0..(m - 1) BY <4>1, <4>4, <1>2
        <5>2. g[k - 1] = h[k - 1] BY <5>1, <2>3
        <5> QED BY <5>2, <4>1, <4>2, <4>4
      <4> QED BY <4>3, <4>4
    <3> QED BY <3>1, <3>2
  <2>5. IsRun(g, f, from, m)
    <3> DEFINE rhs == [k \in 0..m |-> IF k = 0 THEN <<>> ELSE Scan(g[k - 1], ring[(Start(from) + k - 1) % capN], f)]
    <3>1. DOMAIN g = 0..m /\ g = [k \in 0..m |-> g[k]] OBVIOUS
    <3> HIDE DEF g
    <3>2. g = rhs BY <3>1, <2>4
    <3> QED BY <3>2 DEF IsRun
  <2> QED BY <2>5, <1>2
<1> QED BY <1>3, <1>4

\* Snapshot answers what its loop has collected at the end (recorder.go:81-108).
LEMMA SnapshotIsRun ==
  ASSUME NEW f, NEW from, Scanned(from) \in Nat
  PROVE  \E out : IsRun(out, f, from, Scanned(from)) /\ Snapshot(f, from) = out[Scanned(from)]
<1> DEFINE n == Scanned(from)
           out == CHOOSE g : IsRun(g, f, from, n)
<1>1. IsRun(out, f, from, n)
  BY LoopRuns
<1>2. Snapshot(f, from) = out[n]
  BY DEF Snapshot, IsRun, Start, Scanned
<1> QED BY <1>1, <1>2

\* What the answer t holds when the indices from s up to but not including e are scanned:
\* matching records in index order, no more than the limit, and every other matching one
\* only left out because the answer was full before it.
Collected(t, f, s, e) ==
  /\ t \in Seq(Record)
  /\ \A j \in 1..Len(t) : t[j].index \in s..(e - 1) /\ t[j] = ring[t[j].index % capN] /\ Matches(t[j], f)
  /\ \A i, j \in 1..Len(t) : i < j => t[i].index < t[j].index
  /\ f.limit > 0 => Len(t) <= f.limit
  /\ \A i \in s..(e - 1) : Matches(ring[i % capN], f) =>
       \/ \E j \in 1..Len(t) : t[j] = ring[i % capN]
       \/ Full(t, f) /\ \A j \in 1..Len(t) : t[j].index < i

\* One turn of the loop scans one more index (recorder.go:93-106).
LEMMA ScanCollects ==
  ASSUME RingInv, NEW f, f.limit \in Nat, NEW s \in Nat, NEW e \in Nat, s <= e, NEW t,
         Collected(t, f, s, e), ring[e % capN] \in Record, ring[e % capN].index = e
  PROVE  Collected(Scan(t, ring[e % capN], f), f, s, e + 1)
<1> DEFINE r == ring[e % capN]
           u == Scan(t, r, f)
<1>1. t \in Seq(Record) /\ Len(t) \in Nat /\ r \in Record /\ r.index = e /\ r = ring[r.index % capN]
  BY DEF Collected
<1>2. \A j \in 1..Len(t) : t[j] \in Record /\ t[j].index \in Nat /\ t[j].index < e /\ t[j].index >= s
  <2>1. \A j \in 1..Len(t) : t[j] \in Record /\ t[j].index \in s..(e - 1)
    BY <1>1, ElementOfSeq DEF Collected
  <2> QED BY <2>1
<1> HIDE DEF r
<1>3. CASE Matches(r, f) /\ ~Full(t, f)
  <2>1. u = Append(t, r)
    BY <1>3 DEF Scan
  <2>2. /\ u \in Seq(Record) /\ Len(u) = Len(t) + 1 /\ u[Len(t) + 1] = r
        /\ \A j \in 1..Len(t) : u[j] = t[j]
    BY <1>1, <2>1, AppendProperties
  <2> HIDE DEF u
  <2>3. ASSUME NEW j \in 1..Len(u)
        PROVE  (j \in 1..Len(t) /\ u[j] = t[j]) \/ (j = Len(t) + 1 /\ u[j] = r)
    BY <1>1, <2>2
  <2>4. \A j \in 1..Len(u) : u[j].index \in s..((e + 1) - 1) /\ u[j] = ring[u[j].index % capN] /\ Matches(u[j], f)
    <3> TAKE j \in 1..Len(u)
    <3>1. CASE j \in 1..Len(t) /\ u[j] = t[j]
      <4>1. t[j].index \in s..((e + 1) - 1) BY <3>1, <1>2
      <4> QED BY <4>1, <3>1 DEF Collected
    <3>2. CASE u[j] = r
      BY <3>2, <1>1, <1>3
    <3> QED BY <2>3, <3>1, <3>2
  <2>5. \A i, j \in 1..Len(u) : i < j => u[i].index < u[j].index
    <3> SUFFICES ASSUME NEW i \in 1..Len(u), NEW j \in 1..Len(u), i < j PROVE u[i].index < u[j].index
      OBVIOUS
    <3>1. i \in 1..Len(t) /\ u[i] = t[i] BY <1>1, <2>2, <2>3
    <3>2. CASE j \in 1..Len(t) /\ u[j] = t[j]
      BY <3>1, <3>2 DEF Collected
    <3>3. CASE u[j] = r
      BY <3>1, <3>3, <1>1, <1>2
    <3> QED BY <2>3, <3>2, <3>3
  <2>6. f.limit > 0 => Len(u) <= f.limit
    BY <1>1, <1>3, <2>2 DEF Collected, Full
  <2>7. ASSUME NEW i \in s..((e + 1) - 1), Matches(ring[i % capN], f)
        PROVE  \E j \in 1..Len(u) : u[j] = ring[i % capN]
    <3>1. CASE i = e
      <4>1. Len(t) + 1 \in 1..Len(u) BY <1>1, <2>2
      <4> QED BY <3>1, <4>1, <2>2 DEF r
    <3>2. CASE i # e
      <4>1. i \in s..(e - 1) BY <3>2
      <4>2. PICK j \in 1..Len(t) : t[j] = ring[i % capN]
        BY <4>1, <2>7, <1>3 DEF Collected
      <4>3. j \in 1..Len(u) BY <1>1, <2>2
      <4> QED BY <4>2, <4>3, <2>2
    <3> QED BY <3>1, <3>2
  <2> QED BY <2>2, <2>4, <2>5, <2>6, <2>7 DEF Collected, u, r
<1>4. CASE ~(Matches(r, f) /\ ~Full(t, f))
  <2>1. u = t
    BY <1>4 DEF Scan
  <2>2. \A j \in 1..Len(t) : t[j].index \in s..((e + 1) - 1)
    BY <1>2
  <2>3. ASSUME NEW i \in s..((e + 1) - 1), Matches(ring[i % capN], f)
        PROVE  \/ \E j \in 1..Len(t) : t[j] = ring[i % capN]
               \/ Full(t, f) /\ \A j \in 1..Len(t) : t[j].index < i
    <3>1. CASE i = e
      BY <3>1, <2>3, <1>4, <1>2 DEF r
    <3>2. CASE i # e
      <4>1. i \in s..(e - 1) BY <3>2
      <4> QED BY <4>1, <2>3 DEF Collected
    <3> QED BY <3>1, <3>2
  <2>4. Collected(t, f, s, e + 1)
    BY <2>2, <2>3 DEF Collected
  <2> QED BY <2>1, <2>4 DEF u, r
<1> QED BY <1>3, <1>4

\* Snapshot collects every retained index from the cursor on (recorder.go:81-108).
LEMMA SnapshotCollects ==
  ASSUME RingInv, NEW f, f.limit \in Nat, NEW from \in Nat
  PROVE  /\ Start(from) \in Nat /\ Start(from) >= from /\ Start(from) >= oldest
         /\ Collected(Snapshot(f, from), f, Start(from), Start(from) + Scanned(from))
         /\ Start(from) < total => Start(from) + Scanned(from) = total
         /\ Start(from) >= total => Scanned(from) = 0
<1> DEFINE s == Start(from)
           n == Scanned(from)
<1>1. total \in Nat /\ capN \in Nat /\ capN > 0 /\ oldest \in Nat
  BY CapPositive DEF RingInv, oldest
<1>2. s \in Nat /\ s >= from /\ s >= oldest
  BY <1>1 DEF Start
<1>3. n \in Nat /\ (s < total => s + n = total) /\ (s >= total => n = 0)
  BY <1>1, <1>2 DEF Scanned
<1>4. PICK out : IsRun(out, f, from, n) /\ Snapshot(f, from) = out[n]
  BY <1>3, SnapshotIsRun
<1> HIDE DEF s, n
<1> DEFINE T == {m \in 0..n : ~Collected(out[m], f, s, s + m)}
<1>5. T = {}
  <2> SUFFICES ASSUME T # {} PROVE FALSE
    OBVIOUS
  <2>0. T \subseteq Nat BY <1>3
  <2>1. PICK m \in T : \A j \in T : m <= j
    BY <2>0, LeastNatural
  <2>2. m \in 0..n /\ ~Collected(out[m], f, s, s + m)
    OBVIOUS
  <2>3. CASE m = 0
    <3>1. out[0] = <<>>
      BY <1>3, <1>4 DEF IsRun
    <3>2. Collected(<<>>, f, s, s + 0)
      <4>1. s..((s + 0) - 1) = {} BY <1>2
      <4> QED BY <4>1 DEF Collected
    <3> QED BY <2>2, <2>3, <3>1, <3>2
  <2>4. CASE m # 0
    <3> DEFINE e == s + (m - 1)
    <3>1. m - 1 \in 0..n /\ m - 1 < m /\ m \in Nat /\ m >= 1
      BY <2>2, <2>4, <1>3
    <3>2. Collected(out[m - 1], f, s, e)
      BY <3>1, <2>1
    <3>3. e \in Nat /\ s <= e /\ e \in oldest..(total - 1) /\ e = s + m - 1 /\ e + 1 = s + m
      BY <3>1, <2>2, <1>1, <1>2, <1>3
    <3>4. out[m] = Scan(out[m - 1], ring[(s + m - 1) % capN], f)
      BY <2>2, <2>4, <1>4 DEF IsRun, s
    <3> HIDE DEF e
    <3>5. ring[e % capN] \in Record /\ ring[e % capN].index = e
      BY <3>3 DEF RingInv
    <3>6. Collected(Scan(out[m - 1], ring[e % capN], f), f, s, e + 1)
      BY <3>2, <3>3, <3>5, <1>2, ScanCollects
    <3> QED BY <3>3, <3>4, <3>6, <2>2
  <2> QED BY <2>3, <2>4
<1>6. Collected(out[n], f, s, s + n)
  <2>1. n \in 0..n /\ n \notin T BY <1>3, <1>5
  <2> QED BY <2>1
<1> QED BY <1>2, <1>3, <1>4, <1>6 DEF s, n
-----------------------------------------------------------------------------
(***************************************************************************)
(* The paging client: its cursor is past all it has received, and not past *)
(* what was recorded.                                                      *)
(***************************************************************************)
PagingInv ==
  /\ since \in Nat /\ since <= total
  /\ filter \in Filter
  /\ received \in Seq(Record)
  /\ \A k \in 1..Len(received) : received[k].index < since
  /\ PagingIsExact

\* A PDU that arrives between two pages lies ahead of the cursor (recorder.go:66-76).
LEMMA AppendKeepsPaging ==
  ASSUME RingInv, PagingInv, NEW b \in Binds, NEW s \in Addrs, NEW d \in Addrs, AppendPDU(b, s, d)
  PROVE  PagingInv'
<1>1. /\ total' = total + 1 /\ UNCHANGED <<filter, since, received>>
      /\ oldest' \in Nat
      /\ \A i \in oldest'..(total - 1) : i \in oldest..(total - 1) /\ ring'[i % capN] = ring[i % capN]
  BY AppendByIndex DEF clientVars
<1>2. total \in Nat /\ since \in Nat /\ since <= total
  BY DEF RingInv, PagingInv
<1>3. capN' = capN
  BY DEF capN
<1>4. ASSUME NEW i \in oldest'..(total' - 1), i < since, Matches(ring'[i % capN], filter)
      PROVE  \E k \in 1..Len(received) : received[k] = ring'[i % capN]
  <2>1. i \in oldest'..(total - 1)
    BY <1>1, <1>2, <1>4
  <2> QED BY <2>1, <1>1, <1>4 DEF PagingInv, PagingIsExact
<1>5. PagingIsExact'
  <2>1. \A i, j \in 1..Len(received') : i < j => received'[i].index < received'[j].index
    BY <1>1 DEF PagingInv, PagingIsExact
  <2>2. \A i \in oldest'..(total' - 1) :
          i < since' /\ Matches(ring'[i % capN'], filter') => \E k \in 1..Len(received') : received'[k] = ring'[i % capN']
    BY <1>1, <1>3, <1>4
  <2> QED BY <2>1, <2>2 DEF PagingIsExact, Matches
<1> QED BY <1>1, <1>2, <1>5 DEF PagingInv

\* A page continues where the cursor stands and moves it past its last record
\* (server.go's handleReceivedPDUs with recorder.go:81-108).
LEMMA PageKeepsPaging ==
  ASSUME RingInv, PagingInv, NextPage
  PROVE  PagingInv'
<1> DEFINE f == [filter EXCEPT !.limit = pageLimit(filter.limit)]
           t == Snapshot(f, since)
           s == Start(since)
           e == Start(since) + Scanned(since)
           R == Len(received)
<1>1. /\ since \in Nat /\ since <= total /\ total \in Nat /\ filter \in Filter /\ received \in Seq(Record)
      /\ R \in Nat /\ \A k \in 1..R : received[k].index < since
      /\ capN \in Nat /\ capN > 0 /\ oldest \in Nat
  BY CapPositive DEF PagingInv, RingInv, oldest
<1>2. f.limit \in Nat /\ f.src = filter.src /\ f.dst = filter.dst
  BY <1>1, RecorderBounds DEF Filter, pageLimit
<1>3. \A r : Matches(r, f) <=> Matches(r, filter)
  BY <1>2 DEF Matches
<1>4. /\ t # <<>> /\ received' = received \o t /\ since' = Last(t).index + 1
      /\ UNCHANGED <<filter, ring, total, size, clocks>>
  BY DEF NextPage, TakePage, ReceivedPDUs, recorderVars
<1>5. /\ s \in Nat /\ s >= since /\ s >= oldest /\ Collected(t, f, s, e)
      /\ (s < total => e = total) /\ (s >= total => e = s)
  <2>1. /\ Start(since) \in Nat /\ Start(since) >= since /\ Start(since) >= oldest
        /\ Collected(Snapshot(f, since), f, Start(since), Start(since) + Scanned(since))
        /\ Start(since) < total => Start(since) + Scanned(since) = total
        /\ Start(since) >= total => Scanned(since) = 0
    <3> HIDE DEF f
    <3> QED BY <1>1, <1>2, SnapshotCollects
  <2> QED BY <2>1
<1> HIDE DEF f, t, s, e
<1>6. /\ t \in Seq(Record) /\ Len(t) \in Nat /\ Len(t) > 0 /\ Last(t) = t[Len(t)]
  BY <1>4, <1>5 DEF Collected, Last
<1>7. \A j \in 1..Len(t) : t[j] \in Record /\ t[j].index \in s..(e - 1)
  BY <1>6, <1>5, ElementOfSeq DEF Collected
<1>8. s < total /\ e = total
  BY <1>1, <1>5, <1>6, <1>7
<1>9. \A j \in 1..Len(t) : t[j].index \in Nat /\ since <= t[j].index /\ t[j].index < total /\ t[j].index < since'
  <2>1. \A j \in 1..Len(t) : t[j].index \in Nat /\ since <= t[j].index /\ t[j].index < total
    BY <1>1, <1>5, <1>7, <1>8
  <2>2. \A j \in 1..Len(t) : j < Len(t) => t[j].index < t[Len(t)].index
    BY <1>5, <1>6 DEF Collected
  <2>3. Len(t) \in 1..Len(t) /\ since' = t[Len(t)].index + 1 BY <1>4, <1>6
  <2> TAKE j \in 1..Len(t)
  <2>4. t[j].index <= t[Len(t)].index /\ t[j].index \in Nat /\ t[Len(t)].index \in Nat
    BY <2>1, <2>2, <2>3, <1>6
  <2>5. t[j].index < since'
    BY <2>3, <2>4
  <2> QED BY <2>1, <2>5
<1>10. since' \in Nat /\ since <= since' /\ since' <= total
  <2>1. Len(t) \in 1..Len(t) BY <1>6
  <2> QED BY <2>1, <1>1, <1>4, <1>6, <1>9
<1>11. /\ received' \in Seq(Record) /\ Len(received') = R + Len(t)
       /\ \A k \in 1..(R + Len(t)) : received'[k] = IF k <= R THEN received[k] ELSE t[k - R]
  BY <1>1, <1>4, <1>6, ConcatProperties
<1>12. ASSUME NEW k \in 1..(R + Len(t))
       PROVE  \/ k \in 1..R /\ received'[k] = received[k]
              \/ k > R /\ k - R \in 1..Len(t) /\ received'[k] = t[k - R]
  BY <1>1, <1>6, <1>11
<1> HIDE DEF R
<1>13. \A k \in 1..(R + Len(t)) : received'[k].index < since'
  <2> TAKE k \in 1..(R + Len(t))
  <2>1. CASE k \in 1..R /\ received'[k] = received[k]
    <3>0. received[k] \in Record /\ received[k].index < since
      BY <2>1, <1>1 DEF R
    <3>1. received[k].index \in Nat /\ received[k].index < since
      BY <3>0 DEF Record
    <3> QED BY <3>1, <2>1, <1>10, <1>1
  <2>2. CASE k > R /\ k - R \in 1..Len(t) /\ received'[k] = t[k - R]
    BY <2>2, <1>9
  <2> QED BY <2>1, <2>2, <1>12
<1>14. ASSUME NEW i \in 1..(R + Len(t)), NEW j \in 1..(R + Len(t)), i < j
       PROVE  received'[i].index < received'[j].index
  <2>1. CASE j \in 1..R
    <3>1. i \in 1..R /\ received'[i] = received[i] /\ received'[j] = received[j]
      BY <2>1, <1>1, <1>12, <1>14
    <3> QED BY <2>1, <3>1, <1>14 DEF PagingInv, PagingIsExact, R
  <2>2. CASE i > R
    <3>1. /\ i - R \in 1..Len(t) /\ received'[i] = t[i - R]
          /\ j - R \in 1..Len(t) /\ received'[j] = t[j - R] /\ i - R < j - R
      BY <2>2, <1>1, <1>12, <1>14
    <3> QED BY <3>1, <1>5 DEF Collected
  <2>3. CASE i \in 1..R /\ j > R
    <3>0. received'[i] = received[i] /\ received[i] \in Record /\ received[i].index < since
      BY <2>3, <1>1, <1>12 DEF R
    <3>1. received'[i] = received[i] /\ received[i].index \in Nat /\ received[i].index < since
      BY <3>0 DEF Record
    <3>2. j - R \in 1..Len(t) /\ received'[j] = t[j - R]
      BY <2>3, <1>1, <1>12
    <3> QED BY <3>1, <3>2, <1>1, <1>9
  <2> QED BY <2>1, <2>2, <2>3, <1>1, <1>6
<1>15. ASSUME NEW i \in oldest..(total - 1), i < since', Matches(ring[i % capN], filter)
       PROVE  \E k \in 1..(R + Len(t)) : received'[k] = ring[i % capN]
  <2>1. CASE i < since
    <3>1. PICK k \in 1..R : received[k] = ring[i % capN]
      BY <2>1, <1>15 DEF PagingInv, PagingIsExact, R
    <3>2. k \in 1..(R + Len(t)) /\ received'[k] = received[k]
      BY <1>1, <1>6, <1>11
    <3> QED BY <3>1, <3>2
  <2>2. CASE i >= since
    <3>1. i \in s..(e - 1)
      BY <2>2, <1>1, <1>5, <1>8 DEF s, Start
    <3>2. PICK j \in 1..Len(t) : t[j] = ring[i % capN]
      <4>1. CASE Full(t, f) /\ \A j \in 1..Len(t) : t[j].index < i
        <5>1. Len(t) \in 1..Len(t) /\ t[Len(t)].index < i /\ t[Len(t)].index \in Nat
          BY <4>1, <1>6, <1>9
        <5>2. i < t[Len(t)].index + 1 /\ i \in Nat BY <1>1, <1>4, <1>6, <1>15
        <5> QED BY <5>1, <5>2
      <4> QED BY <4>1, <3>1, <1>3, <1>5, <1>15 DEF Collected
    <3>3. R + j \in 1..(R + Len(t)) /\ received'[R + j] = t[j]
      <4>1. R + j \in 1..(R + Len(t)) /\ ~(R + j <= R) /\ (R + j) - R = j BY <1>1, <1>6
      <4> QED BY <4>1, <1>11
    <3> QED BY <3>2, <3>3
  <2> QED BY <2>1, <2>2, <1>1
<1>16. UNCHANGED <<oldest, capN>>
  BY <1>4 DEF oldest, capN
<1>17. PagingIsExact'
  <2>1. \A i, j \in 1..Len(received') : i < j => received'[i].index < received'[j].index
    BY <1>11, <1>14
  <2>2. \A i \in oldest'..(total' - 1) :
          i < since' /\ Matches(ring'[i % capN'], filter') => \E k \in 1..Len(received') : received'[k] = ring'[i % capN']
    BY <1>4, <1>11, <1>15, <1>16
  <2> QED BY <2>1, <2>2 DEF PagingIsExact, Matches
<1> QED BY <1>1, <1>4, <1>10, <1>11, <1>13, <1>17 DEF PagingInv

\* The index is a stable cursor: for any capacity, filter and page size, and however many
\* PDUs arrive between pages, a client never gets a record twice or out of order and misses
\* only what the ring overwrote before it asked (recorder.go:15-17).
THEOREM CursorIsStable == Spec => []PagingIsExact
<1>1. Init => PagingInv
  <2> SUFFICES ASSUME Init PROVE PagingInv
    OBVIOUS
  <2>1. received \in Seq(Record) /\ Len(received) = 0
    BY DEF Init
  <2>2. PagingIsExact
    BY <2>1, CapPositive DEF Init, PagingIsExact, oldest
  <2> QED BY <2>1, <2>2 DEF Init, PagingInv
<1>2. RingInv /\ PagingInv /\ [Next]_vars => PagingInv'
  <2> SUFFICES ASSUME RingInv, PagingInv, [Next]_vars PROVE PagingInv'
    OBVIOUS
  <2>1. ASSUME NEW b \in Binds, NEW s \in Addrs, NEW d \in Addrs, AppendPDU(b, s, d) PROVE PagingInv'
    BY <2>1, AppendKeepsPaging
  <2>2. CASE NextPage
    BY <2>2, PageKeepsPaging
  <2>3. CASE UNCHANGED vars
    BY <2>3 DEF vars, PagingInv, PagingIsExact, oldest, capN, Matches
  <2> QED BY <2>1, <2>2, <2>3 DEF Next
<1>3. PagingInv => PagingIsExact
  BY DEF PagingInv
<1> QED BY <1>1, <1>2, <1>3, RingIsExact, PTL DEF Spec
-----------------------------------------------------------------------------
(***************************************************************************)
(* A page, against its definition without the loop: the rank of a record   *)
(* in the answer is the number of wanted records before it.                *)
(***************************************************************************)
\* The first m records of an answer in index order are m different records.
LEMMA PrefixCount ==
  ASSUME NEW t \in Seq(Record), \A i, j \in 1..Len(t) : i < j => t[i].index < t[j].index,
         NEW m \in 0..Len(t)
  PROVE  IsFiniteSet({t[j] : j \in 1..m}) /\ Cardinality({t[j] : j \in 1..m}) = m
<1> DEFINE T == {t[j] : j \in 1..m}
           g == [j \in 1..m |-> t[j]]
<1>1. Len(t) \in Nat /\ m \in Nat /\ 1..m \subseteq 1..Len(t)
  OBVIOUS
<1>2. IsFiniteSet(1..m) /\ Cardinality(1..m) = m
  <2>1. 1 \in Int /\ m \in Int BY <1>1
  <2>2. IsFiniteSet(1..m) /\ Cardinality(1..m) = IF 1 > m THEN 0 ELSE m - 1 + 1 BY <2>1, FS_Interval
  <2> QED BY <1>1, <2>2
<1>3. \A j \in 1..Len(t) : t[j] \in Record /\ t[j].index \in Nat
  <2>1. \A j \in 1..Len(t) : t[j] \in Record OBVIOUS
  <2> QED BY <2>1 DEF Record
<1>4. \A i, j \in 1..m : t[i] = t[j] => i = j
  <2> SUFFICES ASSUME NEW i \in 1..m, NEW j \in 1..m, t[i] = t[j], i # j PROVE FALSE
    OBVIOUS
  <2>1. i \in 1..Len(t) /\ j \in 1..Len(t) /\ (i < j \/ j < i) BY <1>1
  <2>2. t[i].index < t[j].index \/ t[j].index < t[i].index BY <2>1
  <2> QED BY <2>1, <2>2, <1>3
<1>5. g \in Injection(1..m, T)
  BY <1>4 DEF Injection, IsInjective
<1>6. g \in Surjection(1..m, T)
  BY DEF Surjection
<1> HIDE DEF g, T
<1>7. IsFiniteSet(T) /\ Cardinality(T) = Cardinality(1..m)
  BY <1>2, <1>5, <1>6, FS_Surjection
<1> QED BY <1>2, <1>7 DEF T

\* The window's records are the ones of the retained indices (recorder.go:86-90).
LEMMA RetainedRecords ==
  ASSUME RingInv
  PROVE  /\ IsFiniteSet(ToSet(View))
         /\ \A r : r \in ToSet(View) <=> \E i \in oldest..(total - 1) : r = ring[i % capN]
<1>1. /\ total \in Nat /\ capN \in Nat /\ capN > 0 /\ oldest \in Nat /\ size \in Nat
      /\ oldest = (IF total > capN THEN total - capN ELSE 0) /\ oldest + size = total
  BY CapPositive DEF RingInv, oldest
<1>2. DOMAIN View = 1..size
  BY DEF View
<1>3. \A r : r \in ToSet(View) <=> \E k \in 1..size : r = ring[(oldest + k - 1) % capN]
  BY <1>2 DEF ToSet, View
<1>4. \A r : r \in ToSet(View) <=> \E i \in oldest..(total - 1) : r = ring[i % capN]
  <2>1. ASSUME NEW k \in 1..size PROVE oldest + k - 1 \in oldest..(total - 1)
    BY <1>1
  <2>2. ASSUME NEW i \in oldest..(total - 1) PROVE i - oldest + 1 \in 1..size /\ oldest + (i - oldest + 1) - 1 = i
    BY <1>1
  <2>3. ASSUME NEW r, NEW i \in oldest..(total - 1), r = ring[i % capN] PROVE r \in ToSet(View)
    BY <1>3, <2>2, <2>3
  <2>4. ASSUME NEW r \in ToSet(View) PROVE \E i \in oldest..(total - 1) : r = ring[i % capN]
    BY <1>3, <2>1
  <2> QED BY <2>3, <2>4
<1>5. IsFiniteSet(ToSet(View))
  <2> DEFINE g == [k \in 1..size |-> View[k]]
  <2>1. g \in Surjection(1..size, ToSet(View))
    BY <1>2 DEF Surjection, ToSet
  <2>2. IsFiniteSet(1..size)
    <3>1. 1 \in Int /\ size \in Int BY <1>1
    <3> QED BY <3>1, FS_Interval
  <2> HIDE DEF g
  <2> QED BY <2>1, <2>2, FS_Surjection
<1> QED BY <1>4, <1>5

\* One page is exact: the records the loop collects are those the definition keeps.
LEMMA PageIsExact ==
  ASSUME RingInv, NEW f, f.limit \in Nat, NEW from \in Nat
  PROVE  IsPage(Snapshot(f, from), f, from)
<1> DEFINE t == Snapshot(f, from)
           s == Start(from)
           e == Start(from) + Scanned(from)
           wanted == {r \in ToSet(View) : r.index >= from /\ Matches(r, f)}
           Below(r) == {q \in wanted : q.index < r.index}
           kept == {r \in wanted : f.limit = 0 \/ Cardinality(Below(r)) < f.limit}
<1>1. /\ s \in Nat /\ s >= from /\ s >= oldest /\ Collected(t, f, s, e)
      /\ (s < total => e = total) /\ (s >= total => e = s)
      /\ (s = from \/ s = oldest)
  <2>1. /\ Start(from) \in Nat /\ Start(from) >= from /\ Start(from) >= oldest
        /\ Collected(Snapshot(f, from), f, Start(from), Start(from) + Scanned(from))
        /\ Start(from) < total => Start(from) + Scanned(from) = total
        /\ Start(from) >= total => Scanned(from) = 0
    BY SnapshotCollects
  <2> QED BY <2>1 DEF Start
<1>2. total \in Nat /\ oldest \in Nat
  BY CapPositive DEF RingInv, oldest
<1>3. \A i \in oldest..(total - 1) : ring[i % capN] \in Record /\ ring[i % capN].index = i
  BY DEF RingInv
<1> HIDE DEF t, s, e
<1>4. /\ t \in Seq(Record) /\ Len(t) \in Nat
      /\ \A j \in 1..Len(t) : t[j].index \in s..(e - 1) /\ t[j] = ring[t[j].index % capN] /\ Matches(t[j], f)
      /\ \A i, j \in 1..Len(t) : i < j => t[i].index < t[j].index
      /\ f.limit > 0 => Len(t) <= f.limit
      /\ \A i \in s..(e - 1) : Matches(ring[i % capN], f) =>
           \/ \E j \in 1..Len(t) : t[j] = ring[i % capN]
           \/ Full(t, f) /\ \A j \in 1..Len(t) : t[j].index < i
  BY <1>1 DEF Collected
<1>5. ASSUME NEW r \in wanted PROVE r.index \in s..(e - 1) /\ r = ring[r.index % capN] /\ Matches(r, f) /\ r.index \in Nat
  <2>1. PICK i \in oldest..(total - 1) : r = ring[i % capN]
    BY RetainedRecords
  <2>2. r.index = i /\ i \in Nat BY <2>1, <1>2, <1>3
  <2>3. i \in s..(e - 1) BY <2>2, <1>1, <1>2
  <2> QED BY <2>1, <2>2, <2>3
<1>6. ASSUME NEW j \in 1..Len(t) PROVE t[j] \in wanted /\ t[j].index \in Nat
  <2>1. t[j].index \in s..(e - 1) /\ t[j] = ring[t[j].index % capN] /\ Matches(t[j], f)
    BY <1>4
  <2>2. t[j].index \in oldest..(total - 1) /\ t[j].index >= from /\ t[j].index \in Nat
    BY <2>1, <1>1, <1>2
  <2>3. t[j] \in ToSet(View)
    BY <2>1, <2>2, RetainedRecords
  <2> QED BY <2>1, <2>2, <2>3
<1>7. ASSUME NEW r \in wanted
      PROVE  IsFiniteSet(Below(r)) /\ Cardinality(Below(r)) \in Nat
  <2>1. IsFiniteSet(Below(r))
    BY RetainedRecords, FS_Subset
  <2> QED BY <2>1, FS_CardinalityType
<1>8. ASSUME NEW r \in wanted
      PROVE  \/ \E j \in 1..Len(t) : t[j] = r
             \/ Full(t, f) /\ \A j \in 1..Len(t) : t[j].index < r.index
  BY <1>4, <1>5
<1>9. ASSUME NEW k \in 1..Len(t) PROVE t[k] \in kept
  <2> DEFINE P == {t[j] : j \in 1..(k - 1)}
  <2>1. IsFiniteSet(P) /\ Cardinality(P) = k - 1
    <3>1. k - 1 \in 0..Len(t) BY <1>4
    <3> QED BY <3>1, <1>4, PrefixCount
  <2>2. t[k] \in wanted /\ t[k].index \in Nat BY <1>6
  <2>3. Below(t[k]) \in SUBSET P
    <3> SUFFICES ASSUME NEW q \in Below(t[k]) PROVE q \in P
      OBVIOUS
    <3>1. q \in wanted /\ q.index < t[k].index /\ q.index \in Nat BY <1>5
    <3>2. PICK j \in 1..Len(t) : t[j] = q
      <4>1. ~\A j \in 1..Len(t) : t[j].index < q.index BY <3>1, <2>2
      <4> QED BY <4>1, <3>1, <1>8
    <3>3. j < k
      <4> SUFFICES ASSUME ~(j < k) PROVE FALSE
        OBVIOUS
      <4>1. j = k \/ k < j BY <1>4
      <4>2. t[k].index <= t[j].index BY <4>1, <2>2, <1>4, <1>6
      <4> QED BY <4>2, <3>1, <3>2, <2>2
    <3>4. j \in 1..(k - 1) BY <3>3
    <3> QED BY <3>2, <3>4
  <2> HIDE DEF P
  <2>4. Cardinality(Below(t[k])) <= k - 1
    BY <2>1, <2>3, FS_Subset
  <2>5. Cardinality(Below(t[k])) \in Nat BY <2>2, <1>7
  <2>6. f.limit = 0 \/ Cardinality(Below(t[k])) < f.limit
    BY <2>4, <2>5, <1>4
  <2> QED BY <2>2, <2>6
<1>10. ASSUME NEW r \in kept PROVE \E k \in 1..Len(t) : t[k] = r
  <2> SUFFICES ASSUME ~\E k \in 1..Len(t) : t[k] = r PROVE FALSE
    OBVIOUS
  <2>1. r \in wanted /\ (f.limit = 0 \/ Cardinality(Below(r)) < f.limit)
    OBVIOUS
  <2>2. Full(t, f) /\ \A j \in 1..Len(t) : t[j].index < r.index
    BY <2>1, <1>8
  <2>3. f.limit > 0 /\ Len(t) = f.limit
    BY <2>2 DEF Full
  <2> DEFINE P == {t[j] : j \in 1..Len(t)}
  <2>4. Cardinality(P) = Len(t)
    <3>1. Len(t) \in 0..Len(t) BY <1>4
    <3> QED BY <3>1, <1>4, PrefixCount
  <2>5. P \in SUBSET Below(r)
    BY <2>2, <1>6
  <2> HIDE DEF P
  <2>6. Cardinality(P) <= Cardinality(Below(r)) /\ Cardinality(Below(r)) \in Nat
    BY <2>1, <2>5, <1>7, FS_Subset
  <2> QED BY <2>1, <2>3, <2>4, <2>6, <1>4
<1>11. ToSet(t) = kept
  <2>1. DOMAIN t = 1..Len(t) BY <1>4
  <2>2. \A r : r \in ToSet(t) <=> \E k \in 1..Len(t) : t[k] = r
    BY <2>1 DEF ToSet
  <2> HIDE DEF kept
  <2> QED BY <2>2, <1>9, <1>10
<1> QED BY <1>4, <1>11 DEF IsPage, t, View

\* Whatever has been recorded, and whether or not the ring has wrapped, the answer of Snapshot
\* to a request without since holds exactly the wanted records, oldest first, cut at the limit
\* (recorder.go:78-108), for every filter and capacity. PageIsExact says it of every cursor.
THEOREM SnapshotsArePages == Spec => []SnapshotIsPage
<1>1. RingInv => SnapshotIsPage
  <2> SUFFICES ASSUME RingInv, NEW f \in Filter
               PROVE  IsPage(Snapshot(f, 0), f, 0)
    BY DEF SnapshotIsPage
  <2>1. f.limit \in PageLimits
    BY DEF Filter
  <2>2. f.limit \in Nat
    BY <2>1, RecorderBounds
  <2> QED BY <2>2, PageIsExact
<1> QED BY <1>1, RingIsExact, PTL
=============================================================================
