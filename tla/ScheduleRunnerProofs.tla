------------------------ MODULE ScheduleRunnerProofs ------------------------
(***************************************************************************)
(* The Runner's invariants hold for any number of events and any ticks.    *)
(* The argument: the slice is strictly sorted, so the binary searches      *)
(* return the one place that keeps it sorted and the due events are a      *)
(* prefix; everything released since the last flush had come due, while    *)
(* everything pending after a drain lies past the clock, so consecutive    *)
(* drains concatenate into one sorted sequence.                            *)
(***************************************************************************)
EXTENDS ScheduleRunner, ScheduleProofs

\* The fields of the events of a slice are naturals.
LEMMA EventFields ==
  ASSUME NEW s \in Seq(Event), NEW k \in 1..Len(s)
  PROVE  s[k] \in Event /\ s[k].due \in Nat /\ s[k].seq \in Nat
<1>1. s[k] \in Event
  OBVIOUS
<1> QED BY <1>1 DEF Event

\* The order of the slice, by tick and then by insertion, is transitive.
LEMMA SortsAfterTransitive ==
  ASSUME NEW x \in Event, NEW y \in Event, NEW z \in Event, SortsAfter(x, y), SortsAfter(y, z)
  PROVE  SortsAfter(x, z)
<1>1. /\ x.due \in Nat /\ x.seq \in Nat /\ y.due \in Nat /\ y.seq \in Nat
      /\ z.due \in Nat /\ z.seq \in Nat
  BY DEF Event
<1> QED BY <1>1 DEF SortsAfter

\* The inductive invariant: every safety invariant of the module together. None of them
\* is inductive alone.
ScheduleInv ==
  TypeOK /\ Sorted /\ NoEventLostOrDuplicated /\ NothingDueLeft /\ OnlyFlushReleasesEarly /\ ReleaseOrder

\* Inserting at the place sort.Search returns keeps the slice sorted.
LEMMA SchedulePreserves ==
  ASSUME ScheduleInv, NEW dueTick \in Nat, clock = 0 \/ dueTick > clock, Schedule(dueTick)
  PROVE  ScheduleInv'
<1> DEFINE e == [due |-> dueTick, seq |-> seq]
<1> USE DEF ScheduleInv
<1>1. /\ seq \in Nat /\ clock \in Nat /\ pending \in Seq(Event) /\ Len(pending) \in Nat
      /\ released \in Seq(Event) /\ Len(released) \in Nat
  BY DEF TypeOK
<1>e. e \in Event /\ e.due = dueTick /\ e.seq = seq
  BY <1>1 DEF Event
<1>2. PICK i \in 1..(Len(pending) + 1) :
        InsertPosition(pending, e, i) /\ pending' = InsertAt(pending, i, e)
  BY DEF Schedule
<1> HIDE DEF e
<1>3. /\ pending' \in Seq(Event) /\ Len(pending') = Len(pending) + 1
      /\ \A k \in 1..(i - 1) : pending'[k] = pending[k]
      /\ pending'[i] = e
      /\ \A k \in (i + 1)..(Len(pending) + 1) : pending'[k] = pending[k - 1]
  <2> DEFINE t == InsertAt(pending, i, e)
  <2>1. /\ t \in Seq(Event) /\ Len(t) = Len(pending) + 1
        /\ \A k \in 1..(i - 1) : t[k] = pending[k]
        /\ t[i] = e
        /\ \A k \in (i + 1)..(Len(pending) + 1) : t[k] = pending[k - 1]
    <3>1. pending \in Seq(Event) /\ e \in Event BY <1>1, <1>e
    <3> HIDE DEF ScheduleInv
    <3> QED BY <3>1, InsertAtByPosition
  <2> HIDE DEF t
  <2>2. pending' = t BY <1>2 DEF t
  <2> QED BY <2>1, <2>2
<1>4. UNCHANGED <<clock, released, flushed>> /\ seq' = seq + 1
  BY DEF Schedule
<1>5. \A k \in 1..Len(pending) : pending[k] \in Event /\ pending[k].due \in Nat /\ pending[k].seq \in Nat
  BY <1>1, EventFields
\* Where each position of the new slice comes from.
<1>p. ASSUME NEW k \in 1..Len(pending')
      PROVE  \/ k < i /\ k \in 1..Len(pending) /\ pending'[k] = pending[k]
             \/ k = i /\ pending'[k] = e
             \/ k > i /\ k - 1 \in 1..Len(pending) /\ k - 1 >= i /\ pending'[k] = pending[k - 1]
  <2>1. CASE k < i BY <2>1, <1>1, <1>3
  <2>2. CASE k = i BY <2>2, <1>3
  <2>3. CASE k > i
    <3>1. k \in (i + 1)..(Len(pending) + 1) BY <2>3, <1>1, <1>3
    <3> QED BY <3>1, <2>3, <1>1, <1>3
  <2> QED BY <2>1, <2>2, <2>3, <1>1
<1>6. TypeOK'
  BY <1>1, <1>3, <1>4 DEF TypeOK
<1>7. Sorted'
  <2>1. \A k \in 1..(i - 1) : SortsAfter(e, pending[k])
    <3>1. i > 1 => ~SortsAfter(pending[i - 1], e)
      BY <1>2 DEF InsertPosition, IsSearchResult
    <3>2. \A k \in 1..Len(pending) : pending[k].seq < seq
      BY DEF NoEventLostOrDuplicated
    <3>3. i > 1 => SortsAfter(e, pending[i - 1])
      BY <3>1, <3>2, <1>1, <1>e, <1>5 DEF SortsAfter
    <3>4. \A k \in 1..(i - 1) : k = i - 1 \/ SortsAfter(pending[i - 1], pending[k])
      BY <1>1 DEF Sorted
    <3> SUFFICES ASSUME NEW k \in 1..(i - 1) PROVE SortsAfter(e, pending[k])
      OBVIOUS
    <3>5. k \in 1..Len(pending) /\ i - 1 \in 1..Len(pending) /\ i > 1
      BY <1>1
    <3>6. CASE k = i - 1
      BY <3>3, <3>5, <3>6
    <3>7. CASE SortsAfter(pending[i - 1], pending[k])
      BY <3>3, <3>5, <3>7, <1>e, <1>5, SortsAfterTransitive
    <3> QED BY <3>4, <3>6, <3>7
  <2>2. \A k \in i..Len(pending) : SortsAfter(pending[k], e)
    <3>1. i <= Len(pending) => SortsAfter(pending[i], e)
      BY <1>2 DEF InsertPosition, IsSearchResult
    <3>2. \A k \in i..Len(pending) : k = i \/ SortsAfter(pending[k], pending[i])
      BY <1>1 DEF Sorted
    <3> SUFFICES ASSUME NEW k \in i..Len(pending) PROVE SortsAfter(pending[k], e)
      OBVIOUS
    <3>3. k \in 1..Len(pending) /\ i \in 1..Len(pending) /\ i <= Len(pending)
      BY <1>1
    <3>4. CASE k = i
      BY <3>1, <3>3, <3>4
    <3>5. CASE SortsAfter(pending[k], pending[i])
      BY <3>1, <3>3, <3>5, <1>e, <1>5, SortsAfterTransitive
    <3> QED BY <3>2, <3>4, <3>5
  <2>3. ASSUME NEW j \in 1..Len(pending'), NEW k \in 1..Len(pending'), j < k
        PROVE  SortsAfter(pending'[k], pending'[j])
    <3>1. CASE k < i
      <4>1. /\ k \in 1..Len(pending) /\ pending'[k] = pending[k]
            /\ j \in 1..Len(pending) /\ pending'[j] = pending[j]
        BY <3>1, <2>3, <1>p, <1>1
      <4> QED BY <4>1, <2>3 DEF Sorted
    <3>2. CASE k = i
      <4>1. j \in 1..(i - 1) /\ pending'[j] = pending[j] BY <3>2, <2>3, <1>p, <1>1
      <4> QED BY <4>1, <3>2, <2>1, <1>3
    <3>3. CASE k > i /\ j = i
      BY <3>3, <2>3, <1>p, <2>2, <1>1
    <3>4. CASE k > i /\ j < i
      <4>1. /\ k - 1 \in 1..Len(pending) /\ pending'[k] = pending[k - 1]
            /\ j \in 1..Len(pending) /\ pending'[j] = pending[j] /\ j < k - 1
        BY <3>4, <2>3, <1>p, <1>1
      <4> QED BY <4>1 DEF Sorted
    <3>5. CASE k > i /\ j > i
      <4>1. /\ k - 1 \in 1..Len(pending) /\ pending'[k] = pending[k - 1]
            /\ j - 1 \in 1..Len(pending) /\ pending'[j] = pending[j - 1] /\ j - 1 < k - 1
        BY <3>5, <2>3, <1>p, <1>1
      <4> QED BY <4>1 DEF Sorted
    <3> QED BY <3>1, <3>2, <3>3, <3>4, <3>5, <1>1, <1>3
  <2> QED BY <2>3 DEF Sorted
<1>8. NoEventLostOrDuplicated'
  <2>1. \A k \in 1..Len(pending) : pending[k].seq < seq /\ pending[k].seq # seq
    BY <1>5, <1>1 DEF NoEventLostOrDuplicated
  <2>2. \A k \in 1..Len(released) : released[k].seq < seq /\ released[k].seq \in Nat /\ released[k].seq # seq
    <3>1. \A k \in 1..Len(released) : released[k].seq \in Nat BY <1>1, EventFields
    <3>2. \A k \in 1..Len(released) : released[k].seq < seq BY DEF NoEventLostOrDuplicated
    <3> QED BY <3>1, <3>2, <1>1
  <2>3. ASSUME NEW n \in 0..(seq' - 1)
        PROVE  \/ \E k \in 1..Len(pending') : pending'[k].seq = n
               \/ \E k \in 1..Len(released') : released'[k].seq = n
    <3>1. CASE n = seq
      <4>1. i \in 1..Len(pending') BY <1>1, <1>3
      <4> QED BY <4>1, <3>1, <1>e, <1>3
    <3>2. CASE \E k \in 1..Len(pending) : pending[k].seq = n
      <4>1. PICK k \in 1..Len(pending) : pending[k].seq = n BY <3>2
      <4>2. CASE k < i
        <5>1. k \in 1..Len(pending') /\ pending'[k] = pending[k] BY <4>2, <1>3, <1>1
        <5> QED BY <5>1, <4>1
      <4>3. CASE k >= i
        <5>1. k + 1 \in (i + 1)..(Len(pending) + 1) /\ k + 1 \in 1..Len(pending') /\ (k + 1) - 1 = k
          BY <4>3, <1>3, <1>1
        <5>2. pending'[k + 1] = pending[k] BY <5>1, <1>3
        <5> QED BY <5>1, <5>2, <4>1
      <4> QED BY <4>2, <4>3, <1>1
    <3>3. CASE \E k \in 1..Len(released) : released[k].seq = n
      BY <3>3, <1>4
    <3>4. n = seq \/ n \in 0..(seq - 1)
      BY <1>1, <1>4
    <3> QED BY <3>1, <3>2, <3>3, <3>4 DEF NoEventLostOrDuplicated
  <2>4. \A k \in 1..Len(pending') : pending'[k].seq < seq'
    <3> TAKE k \in 1..Len(pending')
    <3>1. pending'[k].seq \in Nat /\ pending'[k].seq <= seq
      BY <1>p, <2>1, <1>1, <1>e, <1>5
    <3> QED BY <3>1, <1>1, <1>4
  <2>5. ASSUME NEW j \in 1..Len(pending'), NEW k \in 1..Len(pending'), pending'[j].seq = pending'[k].seq
        PROVE  j = k
    <3>1. \A a, b \in 1..Len(pending) : pending[a].seq = pending[b].seq => a = b
      BY DEF NoEventLostOrDuplicated
    <3>2. CASE j = i \/ k = i
      <4>1. pending'[j].seq = seq /\ pending'[k].seq = seq BY <3>2, <2>5, <1>e, <1>3
      <4>2. \A m \in 1..Len(pending') : pending'[m].seq = seq => m = i BY <1>p, <2>1
      <4> QED BY <4>1, <4>2
    <3>3. CASE j < i /\ k < i BY <3>3, <2>5, <3>1, <1>p
    <3>4. CASE j < i /\ k > i
      <4>1. pending'[j] = pending[j] /\ pending'[k] = pending[k - 1] /\ k - 1 >= i
            /\ j \in 1..Len(pending) /\ k - 1 \in 1..Len(pending)
        BY <3>4, <1>p
      <4> QED BY <4>1, <3>1, <3>4, <2>5
    <3>5. CASE j > i /\ k < i
      <4>1. pending'[k] = pending[k] /\ pending'[j] = pending[j - 1] /\ j - 1 >= i
            /\ k \in 1..Len(pending) /\ j - 1 \in 1..Len(pending)
        BY <3>5, <1>p
      <4> QED BY <4>1, <3>1, <3>5, <2>5
    <3>6. CASE j > i /\ k > i
      <4>1. pending'[k] = pending[k - 1] /\ pending'[j] = pending[j - 1]
            /\ k - 1 \in 1..Len(pending) /\ j - 1 \in 1..Len(pending)
        BY <3>6, <1>p
      <4>2. k - 1 = j - 1 BY <4>1, <3>1, <2>5
      <4> QED BY <4>2, <1>1, <1>3
    <3> QED BY <3>2, <3>3, <3>4, <3>5, <3>6, <1>1, <1>3
  <2>6. ASSUME NEW j \in 1..Len(pending'), NEW k \in 1..Len(released')
        PROVE  pending'[j].seq # released'[k].seq
    <3>1. \A a \in 1..Len(pending), b \in 1..Len(released) : pending[a].seq # released[b].seq
      BY DEF NoEventLostOrDuplicated
    <3>2. released' = released BY <1>4
    <3> QED BY <3>1, <3>2, <2>2, <1>p, <1>e
  <2>7. \A k \in 1..Len(released') : released'[k].seq < seq'
    BY <2>2, <1>4, <1>1
  <2>8. \A j, k \in 1..Len(released') : released'[j].seq = released'[k].seq => j = k
    BY <1>4 DEF NoEventLostOrDuplicated
  <2> QED BY <2>3, <2>4, <2>5, <2>6, <2>7, <2>8 DEF NoEventLostOrDuplicated
<1>9. NothingDueLeft'
  <2> SUFFICES ASSUME clock > 0, NEW k \in 1..Len(pending') PROVE pending'[k].due > clock
    BY <1>4 DEF NothingDueLeft
  <2>1. \A m \in 1..Len(pending) : pending[m].due > clock BY DEF NothingDueLeft
  <2>2. e.due > clock BY <1>e, <1>1
  <2> QED BY <2>1, <2>2, <1>p
<1>10. OnlyFlushReleasesEarly' /\ ReleaseOrder'
  BY <1>4 DEF OnlyFlushReleasesEarly, ReleaseOrder
<1> QED BY <1>6, <1>7, <1>8, <1>9, <1>10

\* A drain moves the first n pending events to the end of the released ones.
MovesPrefix(n) ==
  /\ released' = released \o SubSeq(pending, 1, n)
  /\ pending' = SubSeq(pending, n + 1, Len(pending))
  /\ seq' = seq

\* Where a drain puts each event, by position.
LEMMA MovesPrefixByPosition ==
  ASSUME TypeOK, NEW n \in 0..Len(pending), MovesPrefix(n)
  PROVE  /\ released' \in Seq(Event) /\ pending' \in Seq(Event)
         /\ Len(released') = Len(released) + n /\ Len(pending') = Len(pending) - n
         /\ \A k \in 1..Len(released) : released'[k] = released[k]
         /\ \A k \in (Len(released) + 1)..(Len(released) + n) :
              released'[k] = pending[k - Len(released)]
         /\ \A k \in 1..(Len(pending) - n) : pending'[k] = pending[n + k]
<1> DEFINE a == SubSeq(pending, 1, n)
           b == SubSeq(pending, n + 1, Len(pending))
<1>1. /\ pending \in Seq(Event) /\ released \in Seq(Event)
      /\ Len(pending) \in Nat /\ Len(released) \in Nat /\ n \in Nat /\ n <= Len(pending)
  BY DEF TypeOK
<1>2. \A k \in 1..Len(pending) : pending[k] \in Event
  BY <1>1, EventFields
<1>3. a \in Seq(Event) /\ Len(a) = n /\ \A k \in 1..n : a[k] = pending[k]
  BY <1>1, <1>2, SubSeqProperties
<1>4. /\ b \in Seq(Event) /\ Len(b) = Len(pending) - n
      /\ \A k \in 1..(Len(pending) - n) : b[k] = pending[n + k]
  <2>1. /\ b \in Seq(Event)
        /\ Len(b) = IF n + 1 <= Len(pending) THEN Len(pending) - (n + 1) + 1 ELSE 0
        /\ \A k \in 1..(Len(pending) - (n + 1) + 1) : b[k] = pending[(n + 1) + k - 1]
    BY <1>1, <1>2, SubSeqProperties
  <2>2. \A k \in 1..(Len(pending) - n) : b[k] = pending[(n + 1) + k - 1]
    BY <2>1, <1>1
  <2>3. \A k \in 1..(Len(pending) - n) : (n + 1) + k - 1 = n + k
    BY <1>1
  <2> QED BY <2>1, <2>2, <2>3, <1>1
<1>5. released' = released \o a /\ pending' = b
  BY DEF MovesPrefix
<1> HIDE DEF a, b
<1>6. /\ released \o a \in Seq(Event) /\ Len(released \o a) = Len(released) + Len(a)
      /\ \A k \in 1..(Len(released) + Len(a)) :
           (released \o a)[k] = IF k <= Len(released) THEN released[k] ELSE a[k - Len(released)]
  BY <1>1, <1>3, ConcatProperties
<1>7. \A k \in 1..Len(released) : (released \o a)[k] = released[k]
  BY <1>1, <1>3, <1>6
<1>8. \A k \in (Len(released) + 1)..(Len(released) + n) : (released \o a)[k] = a[k - Len(released)]
  BY <1>1, <1>3, <1>6
<1>9. \A k \in (Len(released) + 1)..(Len(released) + n) : a[k - Len(released)] = pending[k - Len(released)]
  BY <1>1, <1>3
<1> QED BY <1>3, <1>4, <1>5, <1>6, <1>7, <1>8, <1>9

\* Moving a prefix neither loses nor duplicates an event, and keeps the rest sorted.
LEMMA MovesPrefixPreserves ==
  ASSUME TypeOK, Sorted, NoEventLostOrDuplicated, NEW n \in 0..Len(pending), MovesPrefix(n)
  PROVE  NoEventLostOrDuplicated' /\ Sorted'
<1> DEFINE L == Len(released)
           P == Len(pending)
<1>1. L \in Nat /\ P \in Nat /\ n \in Nat /\ n <= P /\ seq' = seq
  BY DEF TypeOK, MovesPrefix
<1>2. /\ Len(released') = L + n /\ Len(pending') = P - n
      /\ \A k \in 1..L : released'[k] = released[k]
      /\ \A k \in (L + 1)..(L + n) : released'[k] = pending[k - L]
      /\ \A k \in 1..(P - n) : pending'[k] = pending[n + k]
  BY MovesPrefixByPosition
<1>3. /\ \A k \in 0..(seq - 1) : \/ \E m \in 1..P : pending[m].seq = k
                                 \/ \E m \in 1..L : released[m].seq = k
      /\ \A k \in 1..P : pending[k].seq < seq
      /\ \A k \in 1..L : released[k].seq < seq
      /\ \A j, k \in 1..P : pending[j].seq = pending[k].seq => j = k
      /\ \A j, k \in 1..L : released[j].seq = released[k].seq => j = k
      /\ \A j \in 1..P, k \in 1..L : pending[j].seq # released[k].seq
  BY DEF NoEventLostOrDuplicated
<1>4. Sorted'
  <2> SUFFICES ASSUME NEW j \in 1..(P - n), NEW k \in 1..(P - n), j < k
               PROVE  SortsAfter(pending'[k], pending'[j])
    BY <1>2 DEF Sorted
  <2>1. n + j \in 1..P /\ n + k \in 1..P /\ n + j < n + k
    BY <1>1
  <2> QED BY <2>1, <1>2 DEF Sorted
<1> HIDE DEF L, P
\* Where each released position comes from.
<1>5. ASSUME NEW k \in 1..(L + n)
      PROVE  \/ k \in 1..L /\ released'[k] = released[k]
             \/ k > L /\ k - L \in 1..P /\ k - L <= n /\ released'[k] = pending[k - L]
  <2>1. CASE k <= L BY <2>1, <1>1, <1>2
  <2>2. CASE k > L
    <3>1. k \in (L + 1)..(L + n) /\ k - L \in 1..P /\ k - L <= n BY <2>2, <1>1
    <3> QED BY <3>1, <2>2, <1>2
  <2> QED BY <2>1, <2>2, <1>1
<1>6. ASSUME NEW k \in 1..(P - n)
      PROVE  n + k \in 1..P /\ n + k > n /\ pending'[k] = pending[n + k]
  BY <1>1, <1>2
<1>7. ASSUME NEW k \in 0..(seq' - 1)
      PROVE  \/ \E m \in 1..(P - n) : pending'[m].seq = k
             \/ \E m \in 1..(L + n) : released'[m].seq = k
  <2>1. CASE \E m \in 1..L : released[m].seq = k
    <3>1. PICK m \in 1..L : released[m].seq = k BY <2>1
    <3>2. m \in 1..(L + n) BY <1>1
    <3> QED BY <3>1, <3>2, <1>2
  <2>2. CASE \E m \in 1..P : pending[m].seq = k
    <3>1. PICK m \in 1..P : pending[m].seq = k BY <2>2
    <3>2. CASE m <= n
      <4>1. L + m \in (L + 1)..(L + n) /\ L + m \in 1..(L + n) /\ (L + m) - L = m BY <3>2, <1>1
      <4>2. released'[L + m] = pending[m] BY <4>1, <1>2
      <4> QED BY <4>1, <4>2, <3>1
    <3>3. CASE m > n
      <4>1. m - n \in 1..(P - n) /\ n + (m - n) = m BY <3>3, <1>1
      <4>2. pending'[m - n] = pending[m] BY <4>1, <1>2
      <4> QED BY <4>1, <4>2, <3>1
    <3> QED BY <3>2, <3>3, <1>1
  <2> QED BY <2>1, <2>2, <1>1, <1>3
<1>8. \A k \in 1..(P - n) : pending'[k].seq < seq'
  BY <1>1, <1>3, <1>6
<1>9. \A k \in 1..(L + n) : released'[k].seq < seq'
  BY <1>1, <1>3, <1>5
<1>10. ASSUME NEW j \in 1..(P - n), NEW k \in 1..(P - n), pending'[j].seq = pending'[k].seq
       PROVE  j = k
  <2>1. /\ n + j \in 1..P /\ pending'[j] = pending[n + j]
        /\ n + k \in 1..P /\ pending'[k] = pending[n + k]
    BY <1>6
  <2>2. n + j = n + k BY <2>1, <1>3, <1>10
  <2> QED BY <2>2, <1>1
<1>11. ASSUME NEW j \in 1..(L + n), NEW k \in 1..(L + n), released'[j].seq = released'[k].seq
       PROVE  j = k
  <2>1. CASE j \in 1..L /\ k \in 1..L BY <2>1, <1>2, <1>3, <1>11
  <2>2. CASE j > L /\ k > L
    <3>1. /\ j - L \in 1..P /\ released'[j] = pending[j - L]
          /\ k - L \in 1..P /\ released'[k] = pending[k - L]
      BY <2>2, <1>5, <1>1
    <3>2. j - L = k - L BY <3>1, <1>3, <1>11
    <3> QED BY <3>2, <1>1
  <2>3. CASE j \in 1..L /\ k > L BY <2>3, <1>3, <1>5, <1>11, <1>1
  <2>4. CASE j > L /\ k \in 1..L BY <2>4, <1>3, <1>5, <1>11, <1>1
  <2> QED BY <2>1, <2>2, <2>3, <2>4, <1>1
<1>12. ASSUME NEW j \in 1..(P - n), NEW k \in 1..(L + n)
       PROVE  pending'[j].seq # released'[k].seq
  <2>1. n + j \in 1..P /\ n + j > n /\ pending'[j] = pending[n + j] BY <1>6
  <2>2. CASE k \in 1..L BY <2>1, <2>2, <1>2, <1>3
  <2>3. CASE k > L
    <3>1. k - L \in 1..P /\ k - L <= n /\ released'[k] = pending[k - L] BY <2>3, <1>5, <1>1
    <3>2. n + j # k - L BY <2>1, <3>1, <1>1
    <3> QED BY <2>1, <3>1, <3>2, <1>3
  <2> QED BY <2>2, <2>3, <1>1
<1> QED BY <1>2, <1>4, <1>7, <1>8, <1>9, <1>10, <1>11, <1>12 DEF NoEventLostOrDuplicated

\* DrainDue cuts the slice where the first later event stands: what goes out is due, what
\* stays is not, and both follow what earlier drains released.
LEMMA DrainDuePreserves ==
  ASSUME ScheduleInv, DrainDue
  PROVE  ScheduleInv'
<1> USE DEF ScheduleInv
<1> DEFINE L == Len(released)
           P == Len(pending)
<1>1. L \in Nat /\ P \in Nat /\ clock \in Nat /\ pending \in Seq(Event) /\ released \in Seq(Event)
      /\ flushed \in 0..L
  BY DEF TypeOK
<1>2. PICK i \in 1..(P + 1) :
        /\ FirstLater(pending, clock', i)
        /\ released' = released \o SubSeq(pending, 1, i - 1)
        /\ pending' = SubSeq(pending, i, P)
  BY DEF DrainDue
<1> DEFINE n == i - 1
<1>3. n \in 0..P /\ i = n + 1
  BY <1>1
<1>4. MovesPrefix(n)
  BY <1>2, <1>3 DEF MovesPrefix, DrainDue
<1>5. clock' = clock + 1 /\ flushed' = flushed
  BY DEF DrainDue
<1> HIDE DEF n
<1>6. /\ released' \in Seq(Event) /\ pending' \in Seq(Event)
      /\ Len(released') = L + n /\ Len(pending') = P - n
      /\ \A k \in 1..L : released'[k] = released[k]
      /\ \A k \in (L + 1)..(L + n) : released'[k] = pending[k - L]
      /\ \A k \in 1..(P - n) : pending'[k] = pending[n + k]
  BY <1>3, <1>4, MovesPrefixByPosition
<1>7. NoEventLostOrDuplicated' /\ Sorted'
  BY <1>3, <1>4, MovesPrefixPreserves
<1>8. /\ \A k \in 1..P : pending[k].due \in Nat /\ pending[k].seq \in Nat
      /\ \A k \in 1..L : released[k].due \in Nat /\ released[k].seq \in Nat
  BY <1>1, EventFields
\* The slice is sorted, so the search splits it into the due and the later events.
<1>9. \A k \in 1..n : pending[k].due <= clock'
  <2>1. n >= 1 => ~(pending[n].due > clock')
    BY <1>1, <1>2, <1>3 DEF FirstLater, IsSearchResult
  <2>2. \A k \in 1..n : k = n \/ SortsAfter(pending[n], pending[k])
    BY <1>1, <1>3 DEF Sorted
  <2> TAKE k \in 1..n
  <2>3. k \in 1..P /\ n \in 1..P /\ clock' \in Nat BY <1>1, <1>3, <1>5
  <2>4. pending[k].due <= pending[n].due BY <2>2, <2>3, <1>8 DEF SortsAfter
  <2> QED BY <2>1, <2>3, <2>4, <1>8
<1>10. \A k \in (n + 1)..P : pending[k].due > clock'
  <2>1. n + 1 <= P => pending[n + 1].due > clock'
    BY <1>1, <1>2, <1>3 DEF FirstLater, IsSearchResult
  <2>2. \A k \in (n + 1)..P : k = n + 1 \/ SortsAfter(pending[k], pending[n + 1])
    BY <1>1, <1>3 DEF Sorted
  <2> TAKE k \in (n + 1)..P
  <2>3. k \in 1..P /\ n + 1 \in 1..P /\ n + 1 <= P /\ clock' \in Nat BY <1>1, <1>3, <1>5
  <2>4. pending[k].due >= pending[n + 1].due BY <2>2, <2>3, <1>8 DEF SortsAfter
  <2> QED BY <2>1, <2>3, <2>4, <1>8
<1>11. TypeOK'
  <2>1. seq' = Len(pending') + Len(released')
    <3>1. seq' = P + L BY <1>4 DEF TypeOK, MovesPrefix
    <3> QED BY <3>1, <1>1, <1>3, <1>6
  <2> QED BY <2>1, <1>1, <1>3, <1>5, <1>6 DEF TypeOK
<1>12. NothingDueLeft'
  <2>1. \A k \in 1..(P - n) : n + k \in (n + 1)..P
    BY <1>1, <1>3
  <2>2. \A k \in 1..Len(pending') : pending'[k].due > clock'
    BY <1>6, <1>10, <2>1
  <2> QED BY <2>2 DEF NothingDueLeft
<1> HIDE DEF L, P
\* Where each position released since the last flush comes from.
<1>13. ASSUME NEW k \in (flushed + 1)..(L + n)
       PROVE  \/ k <= L /\ k \in 1..L /\ k \in (flushed + 1)..L /\ released'[k] = released[k]
              \/ k > L /\ k - L \in 1..P /\ k - L \in 1..n /\ released'[k] = pending[k - L]
  <2>1. CASE k <= L BY <2>1, <1>1, <1>6
  <2>2. CASE k > L
    <3>1. k \in (L + 1)..(L + n) /\ k - L \in 1..P /\ k - L \in 1..n BY <2>2, <1>1, <1>3
    <3> QED BY <3>1, <2>2, <1>6
  <2> QED BY <2>1, <2>2, <1>1, <1>3
<1>14. \A k \in (flushed + 1)..L : released[k].due <= clock
  BY DEF OnlyFlushReleasesEarly, L
<1>15. OnlyFlushReleasesEarly'
  <2>1. ASSUME NEW k \in (flushed + 1)..(L + n) PROVE released'[k].due <= clock'
    <3>1. CASE k <= L
      <4>1. k \in 1..L /\ k \in (flushed + 1)..L /\ released'[k] = released[k]
        BY <3>1, <1>13, <1>1, <1>3
      <4> QED BY <4>1, <1>14, <1>8, <1>5, <1>1
    <3>2. CASE k > L
      <4>1. k - L \in 1..n /\ released'[k] = pending[k - L]
        BY <3>2, <1>13, <1>1, <1>3
      <4> QED BY <4>1, <1>9
    <3> QED BY <3>1, <3>2, <1>1, <1>3
  <2> QED BY <2>1, <1>1, <1>5, <1>6 DEF OnlyFlushReleasesEarly
<1>16. ReleaseOrder'
  <2>1. ASSUME NEW j \in (flushed + 1)..(L + n), NEW k \in (flushed + 1)..(L + n), j < k
        PROVE  SortsAfter(released'[k], released'[j])
    <3>1. CASE k <= L
      <4>1. /\ k \in (flushed + 1)..L /\ released'[k] = released[k]
            /\ j \in (flushed + 1)..L /\ released'[j] = released[j]
        BY <3>1, <2>1, <1>13, <1>1, <1>3
      <4> QED BY <4>1, <2>1 DEF ReleaseOrder, L
    <3>2. CASE j > L
      <4>1. /\ k - L \in 1..P /\ released'[k] = pending[k - L]
            /\ j - L \in 1..P /\ released'[j] = pending[j - L]
            /\ j - L < k - L
        BY <3>2, <2>1, <1>13, <1>1, <1>3
      <4> QED BY <4>1 DEF Sorted, P
    <3>3. CASE j <= L /\ k > L
      <4>1. /\ j \in 1..L /\ j \in (flushed + 1)..L /\ released'[j] = released[j]
            /\ k - L \in 1..P /\ released'[k] = pending[k - L]
        BY <3>3, <1>13, <1>1, <1>3
      <4>2. released[j].due <= clock /\ released[j].due \in Nat
        BY <4>1, <1>14, <1>8
      \* Something was released since the flush, so the clock has left 0 and everything
      \* pending lies past it.
      <4>3. CASE clock > 0
        <5>1. pending[k - L].due > clock /\ pending[k - L].due \in Nat
          BY <4>1, <4>3, <1>8 DEF NothingDueLeft, P
        <5> QED BY <4>1, <4>2, <5>1, <1>1 DEF SortsAfter
      <4>4. CASE clock = 0
        BY <4>4, <4>1, <1>1 DEF OnlyFlushReleasesEarly, L
      <4> QED BY <4>3, <4>4, <1>1
    <3> QED BY <3>1, <3>2, <3>3, <1>1, <1>3
  <2> QED BY <2>1, <1>5, <1>6 DEF ReleaseOrder
<1> QED BY <1>7, <1>11, <1>12, <1>15, <1>16

\* The flush moves the whole slice.
LEMMA DrainAllPreserves ==
  ASSUME ScheduleInv, DrainAll
  PROVE  ScheduleInv'
<1> USE DEF ScheduleInv
<1>1. /\ pending \in Seq(Event) /\ released \in Seq(Event) /\ Len(pending) \in Nat
      /\ Len(released) \in Nat /\ clock \in Nat /\ seq = Len(pending) + Len(released)
  BY DEF TypeOK
<1>2. SubSeq(pending, 1, Len(pending)) = pending
  BY <1>1, SubSeqFull
<1>3. SubSeq(pending, Len(pending) + 1, Len(pending)) = <<>>
  BY <1>1, SubSeqEmpty
<1>4. MovesPrefix(Len(pending)) /\ flushed' = Len(released') /\ clock' = clock
  BY <1>2, <1>3 DEF MovesPrefix, DrainAll
<1>5. /\ released' \in Seq(Event) /\ pending' \in Seq(Event)
      /\ Len(released') = Len(released) + Len(pending)
      /\ Len(pending') = 0
  BY <1>1, <1>4, MovesPrefixByPosition
<1>6. NoEventLostOrDuplicated' /\ Sorted'
  BY <1>1, <1>4, MovesPrefixPreserves
<1>7. TypeOK'
  <2>1. seq' = seq BY <1>4 DEF MovesPrefix
  <2> QED BY <2>1, <1>1, <1>4, <1>5 DEF TypeOK
<1>8. NothingDueLeft' /\ OnlyFlushReleasesEarly' /\ ReleaseOrder'
  BY <1>1, <1>4, <1>5 DEF NothingDueLeft, OnlyFlushReleasesEarly, ReleaseOrder
<1> QED BY <1>6, <1>7, <1>8

\* NewRunner: an empty slice has nothing out of place.
LEMMA ScheduleInvInit == Init => ScheduleInv
BY DEF Init, ScheduleInv, TypeOK, Sorted, NoEventLostOrDuplicated, NothingDueLeft,
       OnlyFlushReleasesEarly, ReleaseOrder

\* Schedule, DrainDue and DrainAll each keep the invariant, whatever tick is scheduled.
LEMMA ScheduleInvNext == ScheduleInv /\ [Next]_vars => ScheduleInv'
<1> SUFFICES ASSUME ScheduleInv, [Next]_vars PROVE ScheduleInv'
  OBVIOUS
<1>1. ASSUME NEW dueTick \in 0..MaxTick, clock = 0 \/ dueTick > clock, Schedule(dueTick)
      PROVE  ScheduleInv'
  <2>1. dueTick \in Nat BY ScheduleBounds
  <2> QED BY <1>1, <2>1, SchedulePreserves
<1>2. CASE DrainDue
  BY <1>2, DrainDuePreserves
<1>3. CASE DrainAll
  BY <1>3, DrainAllPreserves
<1>4. CASE UNCHANGED vars
  BY <1>4 DEF vars, ScheduleInv, TypeOK, Sorted, NoEventLostOrDuplicated, NothingDueLeft,
              OnlyFlushReleasesEarly, ReleaseOrder
<1> QED BY <1>1, <1>2, <1>3, <1>4 DEF Next

\* For any number of events and any ticks, the Runner never loses or duplicates an event,
\* keeps its slice sorted, leaves nothing due behind, releases early only at a quiescence
\* flush, and between flushes releases in (DueTick, Seq) order.
THEOREM ScheduleSafety == Spec => []ScheduleInv
BY ScheduleInvInit, ScheduleInvNext, PTL DEF Spec

\* The safety invariant the session relies on most: events reach the wire in tick order,
\* ties in scheduling order, across any number of drains (schedule.go:55-57).
THEOREM ScheduleReleaseOrder == Spec => []ReleaseOrder
<1>1. ScheduleInv => ReleaseOrder
  BY DEF ScheduleInv
<1> QED BY <1>1, ScheduleSafety, PTL

\* No drain, at a tick or at a flush, loses an event or hands it over twice.
THEOREM ScheduleNoLoss == Spec => []NoEventLostOrDuplicated
<1>1. ScheduleInv => NoEventLostOrDuplicated
  BY DEF ScheduleInv
<1> QED BY <1>1, ScheduleSafety, PTL

\* An event leaves at its tick: later never, earlier only through a quiescence flush.
THEOREM ScheduleOnTime == Spec => []ReleasedOnTime
<1>1. ScheduleInv => ReleasedOnTime
  BY DEF ScheduleInv, ReleasedOnTime
<1> QED BY <1>1, ScheduleSafety, PTL
-----------------------------------------------------------------------------
(***************************************************************************)
(* The refinement. The slice stands for the set of its events; insertion   *)
(* adds one element to the set, and moving the prefix of n events takes    *)
(* exactly the events of the prefix out of it, for no event stands twice.  *)
(***************************************************************************)
\* The events of a slice, by position.
LEMMA SliceEvents ==
  ASSUME NEW S, NEW s \in Seq(S)
  PROVE  \A x : x \in ToSet(s) <=> \E k \in 1..Len(s) : s[k] = x
<1>1. DOMAIN s = 1..Len(s)
  OBVIOUS
<1> QED BY <1>1 DEF ToSet

\* Schedule (schedule.go:42-53) adds its event to the waiting ones and touches no other.
LEMMA ScheduleRefines ==
  ASSUME ScheduleInv, NEW dueTick \in 0..MaxTick, Schedule(dueTick)
  PROVE  Abstract!Schedule
<1> DEFINE e == [due |-> dueTick, seq |-> seq]
<1>1. /\ seq \in Nat /\ pending \in Seq(Event) /\ Len(pending) \in Nat /\ dueTick \in Nat
  BY ScheduleBounds DEF ScheduleInv, TypeOK
<1>e. e \in Event
  BY <1>1 DEF Event
<1>2. PICK i \in 1..(Len(pending) + 1) : pending' = InsertAt(pending, i, e)
  BY DEF Schedule
<1> HIDE DEF e
<1> DEFINE t == InsertAt(pending, i, e)
<1>3. /\ t \in Seq(Event) /\ Len(t) = Len(pending) + 1
      /\ \A k \in 1..(i - 1) : t[k] = pending[k]
      /\ t[i] = e
      /\ \A k \in (i + 1)..(Len(pending) + 1) : t[k] = pending[k - 1]
  BY <1>1, <1>e, InsertAtByPosition
<1> HIDE DEF t
<1>4. ToSet(t) = ToSet(pending) \cup {e}
  <2>1. ASSUME NEW k \in 1..Len(t) PROVE t[k] = e \/ \E m \in 1..Len(pending) : t[k] = pending[m]
    <3>1. CASE k < i BY <3>1, <1>1, <1>3
    <3>2. CASE k = i BY <3>2, <1>3
    <3>3. CASE k > i
      <4>1. k \in (i + 1)..(Len(pending) + 1) /\ k - 1 \in 1..Len(pending) BY <3>3, <1>1, <1>3
      <4> QED BY <4>1, <1>3
    <3> QED BY <3>1, <3>2, <3>3, <1>1, <1>3
  <2>2. ASSUME NEW m \in 1..Len(pending) PROVE \E k \in 1..Len(t) : t[k] = pending[m]
    <3>1. CASE m < i
      <4>1. m \in 1..(i - 1) /\ m \in 1..Len(t) BY <3>1, <1>1, <1>3
      <4> QED BY <4>1, <1>3
    <3>2. CASE m >= i
      <4>1. m + 1 \in (i + 1)..(Len(pending) + 1) /\ m + 1 \in 1..Len(t) /\ (m + 1) - 1 = m
        BY <3>2, <1>1, <1>3
      <4>2. t[m + 1] = pending[m]
        BY <4>1, <1>3
      <4> QED BY <4>1, <4>2
    <3> QED BY <3>1, <3>2, <1>1
  <2>3. i \in 1..Len(t) BY <1>1, <1>3
  <2>4. \A x : x \in ToSet(t) <=> \E k \in 1..Len(t) : t[k] = x
    BY <1>3, SliceEvents
  <2>5. \A x : x \in ToSet(pending) <=> \E k \in 1..Len(pending) : pending[k] = x
    BY <1>1, SliceEvents
  <2> QED BY <2>1, <2>2, <2>3, <2>4, <2>5, <1>3
<1>5. ToSet(pending)' = ToSet(pending) \cup {[due |-> dueTick, seq |-> seq]}
  <2>1. pending' = t BY <1>2 DEF t
  <2> QED BY <2>1, <1>4 DEF e
<1> QED BY <1>5 DEF Abstract!Schedule, Schedule

\* Moving the first n events, which are those of the set S, releases S in order.
LEMMA MovesPrefixRefines ==
  ASSUME ScheduleInv, NEW n \in 0..Len(pending), MovesPrefix(n), NEW S \in SUBSET ToSet(pending),
         \A k \in 1..Len(pending) : pending[k] \in S <=> k <= n
  PROVE  Abstract!Release(S)
<1> DEFINE L == Len(released)
           P == Len(pending)
           a == SubSeq(released', L + 1, Len(released'))
<1>1. /\ L \in Nat /\ P \in Nat /\ n \in Nat /\ n <= P
      /\ pending \in Seq(Event) /\ released \in Seq(Event)
  BY DEF ScheduleInv, TypeOK
<1>2. /\ released' \in Seq(Event) /\ pending' \in Seq(Event)
      /\ Len(released') = L + n /\ Len(pending') = P - n
      /\ \A k \in 1..L : released'[k] = released[k]
      /\ \A k \in (L + 1)..(L + n) : released'[k] = pending[k - L]
      /\ \A k \in 1..(P - n) : pending'[k] = pending[n + k]
  BY MovesPrefixByPosition DEF ScheduleInv
<1>3. \A k \in 1..(L + n) : released'[k] \in Event
  BY <1>2, EventFields
<1>4. a \in Seq(Event) /\ Len(a) = n /\ \A k \in 1..n : a[k] = pending[k]
  <2>1. /\ a \in Seq(Event)
        /\ Len(a) = IF L + 1 <= L + n THEN (L + n) - (L + 1) + 1 ELSE 0
        /\ \A k \in 1..((L + n) - (L + 1) + 1) : a[k] = released'[(L + 1) + k - 1]
    BY <1>1, <1>2, <1>3, SubSeqProperties
  <2>2. Len(a) = n
    BY <2>1, <1>1
  <2>3. ASSUME NEW k \in 1..n PROVE a[k] = pending[k]
    <3>1. k \in 1..((L + n) - (L + 1) + 1) /\ (L + 1) + k - 1 = L + k BY <1>1
    <3>2. L + k \in (L + 1)..(L + n) /\ (L + k) - L = k BY <1>1
    <3>3. a[k] = released'[L + k] BY <3>1, <2>1
    <3>4. released'[L + k] = pending[k] BY <3>2, <1>2
    <3> QED BY <3>3, <3>4
  <2> QED BY <2>1, <2>2, <2>3
<1>5. released' = released \o a
  <2> DEFINE b == SubSeq(pending, 1, n)
  <2>1. \A k \in 1..P : pending[k] \in Event
    BY <1>1, EventFields
  <2>2. b \in Seq(Event) /\ Len(b) = n /\ \A k \in 1..n : b[k] = pending[k]
    BY <1>1, <2>1, SubSeqProperties
  <2>3. released' = released \o b
    BY DEF MovesPrefix
  <2> HIDE DEF a, b
  <2>4. a = b
    BY <2>2, <1>1, <1>4
  <2> QED BY <2>3, <2>4
<1> HIDE DEF a
<1>6. \A x : x \in ToSet(pending) <=> \E k \in 1..P : pending[k] = x
  BY <1>1, SliceEvents
<1>7. ToSet(pending)' = ToSet(pending) \ S
  <2>1. \A x : x \in ToSet(pending)' <=> \E k \in 1..(P - n) : pending'[k] = x
    BY <1>2, SliceEvents
  <2>2. ASSUME NEW k \in 1..(P - n) PROVE n + k \in 1..P /\ pending'[k] = pending[n + k] /\ pending'[k] \notin S
    <3>1. n + k \in 1..P /\ ~(n + k <= n) BY <1>1
    <3> QED BY <3>1, <1>2
  <2>3. ASSUME NEW m \in 1..P, pending[m] \notin S PROVE \E k \in 1..(P - n) : pending'[k] = pending[m]
    <3>1. m - n \in 1..(P - n) /\ n + (m - n) = m BY <2>3, <1>1
    <3>2. pending'[m - n] = pending[m] BY <3>1, <1>2
    <3> QED BY <3>1, <3>2
  <2>4. ASSUME NEW x \in ToSet(pending)' PROVE x \in ToSet(pending) \ S
    <3>1. PICK k \in 1..(P - n) : pending'[k] = x BY <2>1
    <3>2. n + k \in 1..P /\ pending[n + k] = x /\ x \notin S BY <3>1, <2>2
    <3> QED BY <3>2, <1>6
  <2>5. ASSUME NEW x \in ToSet(pending) \ S PROVE x \in ToSet(pending)'
    <3>1. PICK m \in 1..P : pending[m] = x BY <1>6
    <3>2. \E k \in 1..(P - n) : pending'[k] = x BY <3>1, <2>3
    <3> QED BY <3>2, <2>1
  <2>6. ToSet(pending)' \subseteq ToSet(pending) \ S BY <2>4
  <2>7. ToSet(pending) \ S \subseteq ToSet(pending)' BY <2>5
  <2> QED BY <2>6, <2>7
<1>8. Abstract!Lists(a, S)
  <2>1. \A k \in 1..Len(a) : a[k] \in S
    BY <1>1, <1>4
  <2>2. \A x \in S : \E k \in 1..Len(a) : a[k] = x
    <3> SUFFICES ASSUME NEW x \in S PROVE \E k \in 1..Len(a) : a[k] = x
      OBVIOUS
    <3>1. PICK k \in 1..P : pending[k] = x BY <1>6
    <3>2. k \in 1..n BY <3>1, <1>1
    <3> QED BY <3>1, <3>2, <1>4
  <2>3. \A j, k \in 1..Len(a) : j < k => Abstract!Before(a[j], a[k])
    <3> SUFFICES ASSUME NEW j \in 1..n, NEW k \in 1..n, j < k PROVE Abstract!Before(a[j], a[k])
      BY <1>4
    <3>1. j \in 1..P /\ k \in 1..P /\ a[j] = pending[j] /\ a[k] = pending[k]
      BY <1>1, <1>4
    <3>2. SortsAfter(pending[k], pending[j])
      BY <3>1 DEF ScheduleInv, Sorted
    <3>3. /\ pending[j].due \in Nat /\ pending[j].seq \in Nat
          /\ pending[k].due \in Nat /\ pending[k].seq \in Nat
      BY <3>1, <1>1, EventFields
    <3> QED BY <3>1, <3>2, <3>3 DEF SortsAfter, Abstract!Before
  <2> QED BY <2>1, <2>2, <2>3 DEF Abstract!Lists
<1>9. Abstract!Appended = a
  BY DEF Abstract!Appended, a
<1> QED BY <1>5, <1>7, <1>8, <1>9 DEF Abstract!Release

\* DrainDue (schedule.go:58-67) releases the due events and no other.
LEMMA DrainDueRefines ==
  ASSUME ScheduleInv, DrainDue
  PROVE  Abstract!DrainDue
<1> DEFINE P == Len(pending)
           S == {x \in ToSet(pending) : x.due <= clock'}
<1>1. P \in Nat /\ clock \in Nat /\ pending \in Seq(Event)
  BY DEF ScheduleInv, TypeOK
<1>2. PICK i \in 1..(P + 1) :
        /\ FirstLater(pending, clock', i)
        /\ released' = released \o SubSeq(pending, 1, i - 1)
        /\ pending' = SubSeq(pending, i, P)
  BY DEF DrainDue
<1> DEFINE n == i - 1
<1>3. n \in 0..P /\ i = n + 1
  BY <1>1
<1>4. MovesPrefix(n)
  BY <1>2, <1>3 DEF MovesPrefix, DrainDue
<1>5. clock' = clock + 1 /\ clock' \in Nat /\ seq' = seq
  BY <1>1 DEF DrainDue
<1> HIDE DEF n
<1>6. \A k \in 1..P : pending[k].due \in Nat /\ pending[k].seq \in Nat
  BY <1>1, EventFields
<1>7. \A k \in 1..P : k <= n => pending[k].due <= clock'
  <2>1. n >= 1 => ~(pending[n].due > clock')
    BY <1>1, <1>2, <1>3 DEF FirstLater, IsSearchResult
  <2>2. \A k \in 1..P : k < n => SortsAfter(pending[n], pending[k])
    BY <1>1, <1>3 DEF ScheduleInv, Sorted
  <2> TAKE k \in 1..P
  <2> HAVE k <= n
  <2>3. n \in 1..P BY <1>1, <1>3
  <2>4. pending[k].due <= pending[n].due BY <2>2, <2>3, <1>1, <1>6 DEF SortsAfter
  <2> QED BY <2>1, <2>3, <2>4, <1>1, <1>5, <1>6
<1>8. \A k \in 1..P : k > n => pending[k].due > clock'
  <2>1. n + 1 <= P => pending[n + 1].due > clock'
    BY <1>1, <1>2, <1>3 DEF FirstLater, IsSearchResult
  <2>2. \A k \in 1..P : k > n + 1 => SortsAfter(pending[k], pending[n + 1])
    BY <1>1, <1>3 DEF ScheduleInv, Sorted
  <2> QED BY <2>1, <2>2, <1>1, <1>3, <1>5, <1>6 DEF SortsAfter
<1>9. \A k \in 1..P : pending[k] \in S <=> k <= n
  <2>1. \A k \in 1..P : pending[k] \in ToSet(pending)
    BY <1>1, SliceEvents
  <2> QED BY <2>1, <1>1, <1>3, <1>5, <1>6, <1>7, <1>8
<1>10. Abstract!Release(S)
  <2> HIDE DEF S
  <2>1. S \in SUBSET ToSet(pending) BY DEF S
  <2> QED BY <2>1, <1>3, <1>4, <1>9, MovesPrefixRefines
<1> QED BY <1>5, <1>10 DEF Abstract!DrainDue

\* DrainAll (schedule.go:69-76) releases every waiting event.
LEMMA DrainAllRefines ==
  ASSUME ScheduleInv, DrainAll
  PROVE  Abstract!DrainAll
<1>1. pending \in Seq(Event) /\ Len(pending) \in Nat
  BY DEF ScheduleInv, TypeOK
<1>2. SubSeq(pending, 1, Len(pending)) = pending
  BY <1>1, SubSeqFull
<1>3. SubSeq(pending, Len(pending) + 1, Len(pending)) = <<>>
  BY <1>1, SubSeqEmpty
<1>4. MovesPrefix(Len(pending)) /\ clock' = clock /\ seq' = seq
  BY <1>2, <1>3 DEF MovesPrefix, DrainAll
<1>5. \A k \in 1..Len(pending) : pending[k] \in ToSet(pending) <=> k <= Len(pending)
  BY <1>1, SliceEvents
<1>6. Abstract!Release(ToSet(pending))
  <2>1. Len(pending) \in 0..Len(pending) /\ ToSet(pending) \in SUBSET ToSet(pending)
    BY <1>1
  <2> QED BY <2>1, <1>4, <1>5, MovesPrefixRefines
<1> QED BY <1>4, <1>6 DEF Abstract!DrainAll

\* The Runner's slice implements the set of waiting events of ScheduleSpec: for any number
\* of events, every drain hands over exactly the due events, each once, in (due, seq) order.
THEOREM RunnerRefinesSpec == Spec => ImplementsScheduleSpec
<1>1. Init => Abstract!Init
  <2> SUFFICES ASSUME Init PROVE Abstract!Init
    OBVIOUS
  <2>1. ToSet(pending) = {}
    BY DEF Init, ToSet
  <2> QED BY <2>1 DEF Init, Abstract!Init
<1>2. ScheduleInv /\ [Next]_vars => [Abstract!Next]_(Abstract!vars)
  <2> SUFFICES ASSUME ScheduleInv, [Next]_vars PROVE Abstract!Next \/ UNCHANGED Abstract!vars
    OBVIOUS
  <2>1. ASSUME NEW dueTick \in 0..MaxTick, Schedule(dueTick) PROVE Abstract!Next
    BY <2>1, ScheduleRefines DEF Abstract!Next
  <2>2. CASE DrainDue
    BY <2>2, DrainDueRefines DEF Abstract!Next
  <2>3. CASE DrainAll
    BY <2>3, DrainAllRefines DEF Abstract!Next
  <2>4. CASE UNCHANGED vars
    BY <2>4 DEF vars, Abstract!vars
  <2> QED BY <2>1, <2>2, <2>3, <2>4 DEF Next
<1> QED BY <1>1, <1>2, ScheduleSafety, PTL DEF Spec, ImplementsScheduleSpec, Abstract!Spec
=============================================================================
